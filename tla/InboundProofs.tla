---------------------------- MODULE InboundProofs ----------------------------
(***************************************************************************)
(* Proofs about the people who come in by chats (Onboarding), for any      *)
(* people, threads, processes and accounts.                                *)
(***************************************************************************)
EXTENDS Inbound, FiniteSetTheorems, WellFoundedInduction, TLAPS

ChatAssumption == Chats!OnboardingAssumption

\* Whether an account is a person's.
Of(a, p) == (\E x \in a.ext : x[2] = p) \/ (a.phone # None /\ a.phone[1] = p)

\* An account is one person's, a number WhatsApp names it by is the number it has,
\* and no two have one external id.
AccountsFit ==
    /\ account \in [Chats!Ids -> Chats!Account \cup {None}]
    /\ \A i \in Chats!Exists, p, o \in People : Of(account[i], p) /\ Of(account[i], o) => p = o
    /\ \A i \in Chats!Exists : \A x \in account[i].ext :
         x[1] \in Chats!Forms => account[i].phone = <<x[2], x[1]>>
    /\ \A i, j \in Chats!Exists : account[i].ext = account[j].ext => i = j

ChatsFit ==
    \A p \in People : /\ telegram[p] \in Chats!Accounts(p) \cup {None}
                      /\ whatsapp[p] \in Chats!Accounts(p) \cup {None}

ChatJob ==
    [pc : {"idle", "creating", "counting", "completing", "linking"}, who : People \cup {None},
     id : Chats!Ids \cup {None}, phone : (People \X Chats!Forms) \cup {None},
     link : BOOLEAN, seen : Nat]
\* What a handler is about to write is about its own person.
WritesFit(h, j) ==
    /\ j.pc # "idle" => j.who \in People
    /\ j.pc \in {"creating", "completing"} => j.phone \in {j.who} \X Chats!Forms
    /\ j.pc = "creating" /\ h \in Processes => j.phone = <<j.who, "long">>
    /\ j.pc \in {"completing", "linking", "counting"} => j.id \in Chats!Accounts(j.who)
    /\ j.pc = "counting" => j.link /\ account[j.id].referred
WritersFit == \A h \in Chats!Runners : chatJob[h] \in ChatJob /\ WritesFit(h, chatJob[h])

ChatTypes ==
    /\ chatJob \in [Chats!Runners -> ChatJob]
    /\ telegram \in [People -> Chats!Exists \cup {None}]
    /\ whatsapp \in [People -> Chats!Exists \cup {None}]
    /\ state \in [Processes -> [People -> {"initial", "currency", "timezone"}]]
    /\ code \in [People -> Chats!Forms \cup {None}] /\ total \in Nat

Quiet ==
    \A g, h \in Chats!Runners : chatJob[g].pc # "idle" /\ chatJob[h].pc # "idle" => g = h

\* A process asks its questions of those who have no account, and of the one it is
\* registering; then it can find every account by its number.
Asking(q, p) ==
    state[q][p] # "initial" =>
      \/ Chats!Accounts(p) = {}
      \/ /\ chatJob[q].pc \in {"counting", "linking"}
         /\ chatJob[q].who = p /\ chatJob[q].phone # None
EachHasOne ==
    /\ Quiet
    /\ \A i \in Chats!Exists : account[i].phone # None
    /\ \A p \in People : \A i, j \in Chats!Accounts(p) : i = j
    /\ \A h \in Chats!Runners :
         chatJob[h].pc = "creating" => Chats!Accounts(chatJob[h].who) = {}
    /\ \A q \in Processes, p \in People : Asking(q, p)

\* A handler that will count saw the counter as it is; only the account it just made
\* is not counted yet.
Referred == {i \in Chats!Exists : account[i].referred}
SawTheTotal(j) == j.pc \in {"creating", "counting", "completing"} /\ j.link => j.seen = total
AllCounted ==
    /\ Quiet
    /\ \A h \in Chats!Runners : SawTheTotal(chatJob[h])
    /\ (\A h \in Chats!Runners : chatJob[h].pc # "counting") => total = Cardinality(Referred)
    /\ (\E h \in Chats!Runners : chatJob[h].pc = "counting")
         => total + 1 = Cardinality(Referred)

ChatInv ==
    /\ ChatTypes /\ AccountsFit /\ ChatsFit /\ WritersFit
    /\ "accounts" \notin disturbed => EachHasOne
    /\ "count" \notin disturbed => AllCounted

LEMMA ChatCardinality == \A S : Chats!Cardinality(S) = Cardinality(S)
BY Zenon DEF Chats!Cardinality, Cardinality, Chats!IsFiniteSet, IsFiniteSet

LEMMA AccountOf == \A p : Chats!Accounts(p) = {i \in Chats!Exists : Of(account[i], p)}
BY DEF Chats!Accounts, Of

LEMMA AccountTypes ==
    ASSUME AccountsFit, NEW i \in Chats!Exists
    PROVE  /\ i \in Chats!Ids /\ account[i] \in Chats!Account
           /\ account[i].ext \subseteq Chats!External /\ account[i].ext # {}
           /\ account[i].phone \in (People \X Chats!Forms) \cup {None}
           /\ account[i].referred \in BOOLEAN
<1>1. i \in Chats!Ids /\ account[i] \in Chats!Account
  BY DEF AccountsFit, Chats!Exists
<1>2. QED
  BY <1>1 DEF Chats!Account

\* First finds one if there is one.
LEMMA FirstOf ==
    ASSUME ChatAssumption, NEW S, S \subseteq Chats!Ids
    PROVE  /\ S = {} => Chats!First(S) = None
           /\ S # {} => Chats!First(S) \in S
           /\ (Chats!First(S) = None) <=> (S = {})
<1>1. S \subseteq Nat /\ None \notin S
  <2>1. MaxAccounts \in Nat /\ None \notin Chats!Ids
    BY DEF ChatAssumption, Chats!OnboardingAssumption
  <2>2. Chats!Ids \subseteq Nat
    BY <2>1 DEF Chats!Ids
  <2>3. QED
    BY <2>1, <2>2
<1>2. CASE S = {}
  BY <1>2 DEF Chats!First
<1>3. CASE S # {}
  <2>1. PICK i \in S : \A j \in S : ~ (<<j, i>> \in OpToRel(<, Nat))
    BY Zenon, <1>1, <1>3, NatLessThanWellFounded, WFMin
  <2>2. \A j \in S : ~ (j < i)
    BY Zenon, <1>1, <2>1 DEF OpToRel
  <2>3. \A j \in S : i <= j
    BY <1>1, <2>2
  <2>4. (CHOOSE k \in S : \A j \in S : k <= j) \in S
    BY <2>3
  <2>5. Chats!First(S) \in S
    BY <1>3, <2>4 DEF Chats!First
  <2>6. QED
    BY <1>1, <1>3, <2>5
<1>4. QED
  BY <1>2, <1>3

LEMMA ByPhoneFinds ==
    ASSUME ChatAssumption, AccountsFit, NEW p \in People, NEW form \in Chats!Forms
    PROVE  LET i == Chats!ByPhone(<<p, form>>)
           IN  /\ i # None => i \in Chats!Accounts(p)
               /\ i = None => \A j \in Chats!Exists :
                                account[j].phone # None => account[j].phone[1] # p
<1> DEFINE S == {j \in Chats!Exists : account[j].phone \in Chats!PhoneVariants(<<p, form>>)}
<1>1. Chats!PhoneVariants(<<p, form>>) = {p} \X Chats!Forms
  BY DEF Chats!PhoneVariants
<1>2. S \subseteq Chats!Ids /\ Chats!ByPhone(<<p, form>>) = Chats!First(S)
  BY DEF Chats!ByPhone, Chats!Exists
<1>3. \A j \in S : j \in Chats!Accounts(p)
  <2>1. \A j \in S : j \in Chats!Exists /\ account[j].phone \in {p} \X Chats!Forms
    BY <1>1
  <2>2. None \notin People \X Chats!Forms
    BY DEF ChatAssumption, Chats!OnboardingAssumption
  <2>3. \A y \in {p} \X Chats!Forms : y # None /\ y[1] = p
    BY <2>2
  <2>4. QED
    BY <2>1, <2>3, AccountOf DEF Of
<1>4. ASSUME NEW j \in Chats!Exists, account[j].phone # None, account[j].phone[1] = p
      PROVE  j \in S
  BY <1>1, <1>4, AccountTypes
<1>5. QED
  BY <1>2, <1>3, <1>4, FirstOf

LEMMA ByExternalIdFinds ==
    ASSUME ChatAssumption, NEW x \in Chats!External
    PROVE  LET i == Chats!ByExternalId(x)
           IN  /\ i # None => i \in Chats!Accounts(x[2])
               /\ i = None => \A j \in Chats!Exists : account[j].ext # {x}
<1> DEFINE S == {j \in Chats!Exists : account[j].ext = {x}}
<1>1. S \subseteq Chats!Ids /\ Chats!ByExternalId(x) = Chats!First(S)
  BY DEF Chats!ByExternalId, Chats!Exists
<1>2. \A j \in S : j \in Chats!Accounts(x[2])
  BY AccountOf DEF Of
<1>3. QED
  BY <1>1, <1>2, FirstOf

\* In an undisturbed state who is not found has no account.
LEMMA NotFoundHasNone ==
    ASSUME ChatAssumption, AccountsFit, EachHasOne, NEW p \in People, NEW form \in Chats!Forms,
           Chats!ByPhone(<<p, form>>) = None
    PROVE  Chats!Accounts(p) = {}
<1> SUFFICES ASSUME NEW i \in Chats!Accounts(p) PROVE FALSE
  OBVIOUS
<1>1. i \in Chats!Exists /\ Of(account[i], p)
  BY AccountOf
<1>2. account[i].phone \in People \X Chats!Forms /\ account[i].phone # None
  BY <1>1, AccountTypes DEF EachHasOne
<1>3. account[i].phone[1] \in People /\ Of(account[i], account[i].phone[1])
  BY <1>2 DEF Of
<1>4. account[i].phone[1] = p
  BY <1>1, <1>3 DEF AccountsFit
<1>5. QED
  BY <1>1, <1>2, <1>4, ByPhoneFinds

LEMMA ChatInit ==
    ASSUME ChatAssumption, Chats!Init
    PROVE  ChatInv
<1>1. /\ account \in [Chats!Ids -> Chats!Account \cup {None}]
      /\ Chats!Exists = {} /\ \A p : Chats!Accounts(p) = {}
  BY DEF Chats!Init, Chats!Exists, Chats!Accounts
<1>2. /\ chatJob \in [Chats!Runners -> ChatJob]
      /\ \A h \in Chats!Runners : chatJob[h] \in ChatJob /\ chatJob[h].pc = "idle"
  <2>1. Chats!Idle \in ChatJob /\ Chats!Idle.pc = "idle"
    BY DEF Chats!Idle, ChatJob
  <2>2. QED
    BY <2>1 DEF Chats!Init
<1>3. ChatTypes
  BY <1>1, <1>2 DEF Chats!Init, ChatTypes
<1>4. AccountsFit /\ ChatsFit /\ WritersFit
  BY <1>1, <1>2 DEF Chats!Init, AccountsFit, ChatsFit, WritersFit, WritesFit
<1>5. Quiet /\ EachHasOne
  BY <1>1, <1>2 DEF Quiet, EachHasOne, Asking
<1>6. AllCounted
  <2>1. Referred = {} /\ Cardinality({}) = 0
    BY <1>1, FS_EmptySet DEF Referred
  <2>2. QED
    BY <1>2, <1>5, <2>1 DEF AllCounted, SawTheTotal, Chats!Init
<1>7. QED
  BY <1>3, <1>4, <1>5, <1>6 DEF ChatInv

-----------------------------------------------------------------------------
(* An account is made or changed.                                          *)

\* Row i becomes a, a person's; it keeps what it was, and looks like no other.
BecomesTheirs(i, a, p) ==
    /\ i \in Chats!Ids /\ a \in Chats!Account /\ p \in People
    /\ account' = [account EXCEPT ![i] = a]
    /\ \A o \in People : Of(a, o) <=> o = p
    /\ \A x \in a.ext : x[1] \in Chats!Forms => a.phone = <<x[2], x[1]>>
    /\ \A j \in Chats!Exists : j # i => account[j].ext # a.ext
    /\ i \in Chats!Exists => /\ Of(account[i], p)
                             /\ account[i].referred => a.referred

LEMMA AccountWritten ==
    ASSUME ChatAssumption, AccountsFit, NEW i, NEW a, NEW p, BecomesTheirs(i, a, p)
    PROVE  /\ AccountsFit'
           /\ Chats!Exists' = Chats!Exists \cup {i}
           /\ \A j \in Chats!Exists' : account'[j] = IF j = i THEN a ELSE account[j]
           /\ \A o \in People : Chats!Accounts(o)' = IF o = p THEN Chats!Accounts(o) \cup {i}
                                                    ELSE Chats!Accounts(o)
<1>1. a # None /\ i \in Chats!Ids /\ p \in People
  BY DEF ChatAssumption, Chats!OnboardingAssumption, BecomesTheirs
<1>2. /\ account' \in [Chats!Ids -> Chats!Account \cup {None}]
      /\ \A j \in Chats!Ids : account'[j] = IF j = i THEN a ELSE account[j]
  BY DEF AccountsFit, BecomesTheirs
<1>3. /\ Chats!Exists' = Chats!Exists \cup {i}
      /\ \A j \in Chats!Exists' : account'[j] = IF j = i THEN a ELSE account[j]
  BY <1>1, <1>2 DEF Chats!Exists
<1>4. \A j \in Chats!Exists', o, q \in People : Of(account'[j], o) /\ Of(account'[j], q) => o = q
  BY <1>3 DEF AccountsFit, BecomesTheirs
<1>5. \A j \in Chats!Exists' : \A x \in account'[j].ext :
        x[1] \in Chats!Forms => account'[j].phone = <<x[2], x[1]>>
  BY <1>3 DEF AccountsFit, BecomesTheirs
<1>6. \A j, k \in Chats!Exists' : account'[j].ext = account'[k].ext => j = k
  BY <1>3 DEF AccountsFit, BecomesTheirs
<1>7. AccountsFit'
  BY <1>2, <1>4, <1>5, <1>6 DEF AccountsFit, Of
<1>8. ASSUME NEW o \in People
      PROVE  Chats!Accounts(o)' = IF o = p THEN Chats!Accounts(o) \cup {i} ELSE Chats!Accounts(o)
  <2>1. Chats!Accounts(o)' = {j \in Chats!Exists' : Of(account'[j], o)}
    BY DEF Chats!Accounts, Of
  <2>2. Chats!Accounts(o) = {j \in Chats!Exists : Of(account[j], o)}
    BY AccountOf
  <2>3. i \in Chats!Exists => Of(account[i], p) /\ (Of(account[i], o) => o = p)
    BY <1>1 DEF BecomesTheirs, AccountsFit
  <2>4. Of(a, o) <=> o = p
    BY DEF BecomesTheirs
  <2>5. QED
    BY <1>3, <2>1, <2>2, <2>3, <2>4
<1>9. QED
  BY <1>3, <1>7, <1>8

\* What was linked stays linked, and what was to be written of an account fits.
LEMMA AccountsGrow ==
    ASSUME ChatAssumption, ChatInv, NEW i, NEW a, NEW p, BecomesTheirs(i, a, p)
    PROVE  /\ telegram \in [People -> Chats!Exists' \cup {None}]
           /\ whatsapp \in [People -> Chats!Exists' \cup {None}]
           /\ \A o \in People : /\ telegram[o] \in Chats!Accounts(o)' \cup {None}
                                /\ whatsapp[o] \in Chats!Accounts(o)' \cup {None}
           /\ \A h \in Chats!Runners, j \in ChatJob :
                WritesFit(h, j) => WritesFit(h, j)'
<1>1. /\ Chats!Exists \subseteq Chats!Exists' /\ \A o \in People : Chats!Accounts(o) \subseteq Chats!Accounts(o)'
      /\ \A j \in Chats!Exists : account[j].referred => account'[j].referred
  <2>1. AccountsFit
    BY DEF ChatInv
  <2>2. /\ Chats!Exists' = Chats!Exists \cup {i}
        /\ \A j \in Chats!Exists' : account'[j] = IF j = i THEN a ELSE account[j]
        /\ \A o \in People : Chats!Accounts(o)' = IF o = p THEN Chats!Accounts(o) \cup {i}
                                                ELSE Chats!Accounts(o)
    BY <2>1, AccountWritten
  <2>3. i \in Chats!Exists /\ account[i].referred => a.referred
    BY DEF BecomesTheirs
  <2>4. QED
    BY <2>2, <2>3
<1>2. \A o : \A j \in Chats!Accounts(o) : j \in Chats!Exists
  BY DEF Chats!Accounts
<1>3. ASSUME NEW h \in Chats!Runners, NEW j \in ChatJob, WritesFit(h, j)
      PROVE  WritesFit(h, j)'
  BY <1>1, <1>2, <1>3 DEF WritesFit
<1>4. QED
  BY <1>1, <1>3 DEF ChatInv, ChatTypes, ChatsFit

-----------------------------------------------------------------------------
(* A handler begins.                                                       *)

\* It will write what fits; if nobody disturbed it, it makes an account only for who
\* has none, and a process asks only of those.
Begins(h, j) ==
    /\ h \in Chats!Runners /\ chatJob[h].pc = "idle" /\ Chats!Begin(h, j)
    /\ j \in ChatJob /\ WritesFit(h, j) /\ j.pc # "counting" /\ SawTheTotal(j)
    /\ UNCHANGED <<account, telegram, whatsapp, code, total>>
    /\ state' \in [Processes -> [People -> {"initial", "currency", "timezone"}]]
    /\ "accounts" \notin disturbed =>
         /\ j.pc = "creating" => Chats!Accounts(j.who) = {}
         /\ \A q \in Processes, p \in People :
              state'[q][p] # "initial" => state[q][p] # "initial" \/ Chats!Accounts(p) = {}

\* What rows and accounts are does not change when they do not.
LEMMA SameAccounts ==
    ASSUME UNCHANGED account
    PROVE  /\ Chats!Exists' = Chats!Exists /\ \A p : Chats!Accounts(p)' = Chats!Accounts(p)
           /\ Referred' = Referred /\ (AccountsFit => AccountsFit')
           /\ \A h, j : WritesFit(h, j) <=> WritesFit(h, j)'
<1>1. Chats!Exists' = Chats!Exists /\ \A p : Chats!Accounts(p)' = Chats!Accounts(p)
  BY DEF Chats!Exists, Chats!Accounts
<1>2. Referred' = Referred /\ (AccountsFit => AccountsFit')
  BY <1>1 DEF Referred, AccountsFit, Of
<1>3. \A h, j : WritesFit(h, j) <=> WritesFit(h, j)'
  BY <1>1 DEF WritesFit
<1>4. QED
  BY <1>1, <1>2, <1>3

LEMMA BeginsKeeps ==
    ASSUME ChatInv, NEW h, NEW j, Begins(h, j)
    PROVE  ChatInv'
<1>1. /\ chatJob' = [chatJob EXCEPT ![h] = j]
      /\ disturbed' = IF \E g \in Chats!Runners \ {h} : chatJob[g].pc # "idle"
                      THEN {"accounts", "count"} ELSE disturbed
  BY DEF Begins, Chats!Begin
<1>2. /\ chatJob' \in [Chats!Runners -> ChatJob] /\ h \in Chats!Runners
      /\ \A g \in Chats!Runners : chatJob'[g] = IF g = h THEN j ELSE chatJob[g]
  BY <1>1 DEF Begins, ChatInv, ChatTypes
<1>3. /\ Chats!Exists' = Chats!Exists /\ \A p : Chats!Accounts(p)' = Chats!Accounts(p)
      /\ Referred' = Referred /\ AccountsFit'
      /\ \A g, k : WritesFit(g, k) <=> WritesFit(g, k)'
  BY SameAccounts DEF Begins, ChatInv
<1>4. ChatTypes'
  BY <1>2, <1>3 DEF Begins, ChatInv, ChatTypes
<1>5. ChatsFit'
  BY <1>3 DEF Begins, ChatInv, ChatsFit
<1>6. WritersFit'
  <2> SUFFICES ASSUME NEW g \in Chats!Runners
               PROVE  chatJob'[g] \in ChatJob /\ WritesFit(g, chatJob[g])'
    BY DEF WritersFit
  <2>1. PICK k : k = chatJob'[g]
    OBVIOUS
  <2>2. k \in ChatJob /\ WritesFit(g, k)
    BY <1>2, <2>1 DEF Begins, ChatInv, WritersFit
  <2>3. WritesFit(g, k)'
    BY <1>3, <2>2
  <2>4. QED
    BY <2>1, <2>2, <2>3 DEF WritesFit
<1>7. ASSUME \A g \in Chats!Runners \ {h} : chatJob[g].pc = "idle"
      PROVE  Quiet' /\ \A g \in Chats!Runners : chatJob[g].pc = "idle"
  BY <1>2, <1>7 DEF Quiet, Begins
<1>8. ASSUME "accounts" \notin disturbed' PROVE EachHasOne'
  <2>1. /\ \A g \in Chats!Runners \ {h} : chatJob[g].pc = "idle"
        /\ "accounts" \notin disturbed /\ EachHasOne
    BY <1>1, <1>8 DEF ChatInv
  <2>2. Quiet' /\ \A g \in Chats!Runners : chatJob[g].pc = "idle"
    BY <1>7, <2>1
  <2>3. \A q \in Processes, p \in People : Asking(q, p)'
    <3> SUFFICES ASSUME NEW q \in Processes, NEW p \in People, state'[q][p] # "initial"
                 PROVE  Chats!Accounts(p)' = {}
      BY DEF Asking
    <3>1. state[q][p] # "initial" \/ Chats!Accounts(p) = {}
      BY <2>1 DEF Begins
    <3>2. q \in Chats!Runners /\ Asking(q, p)
      BY <2>1 DEF EachHasOne, Chats!Runners
    <3>3. Chats!Accounts(p) = {}
      BY <2>2, <3>1, <3>2 DEF Asking
    <3>4. QED
      BY <1>3, <3>3
  <2>4. (\A g \in Chats!Runners :
           chatJob[g].pc = "creating" => Chats!Accounts(chatJob[g].who) = {})'
    <3> SUFFICES ASSUME NEW g \in Chats!Runners, chatJob'[g].pc = "creating"
                 PROVE  Chats!Accounts(chatJob[g].who)' = {}
      OBVIOUS
    <3>1. chatJob'[g] = j /\ Chats!Accounts(j.who) = {}
      BY <1>2, <2>1, <2>2 DEF Begins
    <3>2. Chats!Accounts(j.who)' = {}
      BY <1>3, <3>1
    <3>3. QED
      BY <3>1, <3>2 DEF Chats!Accounts
  <2>5. \A i \in Chats!Exists' : account'[i].phone # None
    BY <1>3, <2>1 DEF EachHasOne, Begins
  <2>6. \A p \in People : \A i, k \in Chats!Accounts(p)' : i = k
    BY <1>3, <2>1 DEF EachHasOne
  <2>7. QED
    BY <2>2, <2>3, <2>4, <2>5, <2>6 DEF EachHasOne
<1>9. ASSUME "count" \notin disturbed' PROVE AllCounted'
  <2>1. /\ \A g \in Chats!Runners \ {h} : chatJob[g].pc = "idle"
        /\ "count" \notin disturbed /\ AllCounted
    BY <1>1, <1>9 DEF ChatInv
  <2>2. Quiet' /\ \A g \in Chats!Runners : chatJob[g].pc = "idle"
    BY <1>7, <2>1
  <2>3. \A g \in Chats!Runners : SawTheTotal(chatJob[g])'
    BY <1>2, <2>2 DEF Begins, SawTheTotal
  <2>4. total = Cardinality(Referred) /\ \A g \in Chats!Runners : chatJob'[g].pc # "counting"
    BY <1>2, <2>1, <2>2 DEF AllCounted, Begins
  <2>5. QED
    BY <1>3, <2>2, <2>3, <2>4 DEF AllCounted, Begins
<1>10. QED
  BY <1>3, <1>4, <1>5, <1>6, <1>8, <1>9 DEF ChatInv

LEMMA IdleFits ==
    /\ Chats!Idle \in ChatJob /\ Chats!Idle.pc = "idle" /\ Chats!Idle.phone = None
    /\ Chats!Idle.link = FALSE
    /\ \A h : WritesFit(h, Chats!Idle)
    /\ SawTheTotal(Chats!Idle)
BY DEF Chats!Idle, ChatJob, WritesFit, SawTheTotal

LEMMA LinkFits ==
    ASSUME ChatInv, NEW p \in People, NEW i \in Chats!Accounts(p)
    PROVE  LET j == Chats!Link(p, i)
           IN  /\ j \in ChatJob /\ j.pc = "linking"
               /\ \A h : WritesFit(h, j)
               /\ SawTheTotal(j)
<1>1. i \in Chats!Ids
  BY AccountTypes DEF ChatInv, Chats!Accounts
<1>2. PICK j : j = Chats!Link(p, i)
  OBVIOUS
<1>3. /\ j \in ChatJob /\ j.pc = "linking" /\ j.who = p /\ j.id = i
  BY <1>1, <1>2, IdleFits DEF ChatJob, Chats!Link
<1>4. QED
  BY <1>2, <1>3 DEF WritesFit, SawTheTotal

LEMMA GreetKeeps ==
    ASSUME ChatAssumption, ChatInv, NEW h \in Threads, NEW p \in People, Chats!Greet(h, p)
    PROVE  ChatInv'
<1>1. PICK i : i = Chats!ByExternalId(<<"telegram", p>>)
  OBVIOUS
<1>2. PICK j : j = Chats!Link(p, i)
  OBVIOUS
<1>3. /\ chatJob[h].pc = "idle" /\ i # None /\ Chats!Begin(h, j)
      /\ UNCHANGED <<account, telegram, whatsapp, state, code, total>>
  BY <1>1, <1>2 DEF Chats!Greet
<1>4. i \in Chats!Accounts(p)
  BY <1>1, <1>3, ByExternalIdFinds DEF Chats!External
<1>5. j \in ChatJob /\ j.pc = "linking" /\ WritesFit(h, j) /\ SawTheTotal(j)
  BY <1>2, <1>4, LinkFits
<1>6. h \in Chats!Runners /\ state \in [Processes -> [People -> {"initial", "currency", "timezone"}]]
  BY DEF Chats!Runners, ChatInv, ChatTypes
<1>7. Begins(h, j)
  BY <1>3, <1>5, <1>6 DEF Begins
<1>8. QED
  BY <1>7, BeginsKeeps

LEMMA ShareContactKeeps ==
    ASSUME ChatAssumption, ChatInv, NEW h \in Threads, NEW p \in People, NEW owner \in People,
           NEW referred \in BOOLEAN, Chats!ShareContact(h, p, owner, referred)
    PROVE  ChatInv'
<1> DEFINE phone == Chats!Normalize(owner, "short")
           mine == telegram[p]
           known == Chats!ByPhone(phone)
           left == Chats!ByExternalId(<<"telegram", p>>)
           row == [Chats!Idle EXCEPT !.who = p, !.phone = phone]
           counted == [row EXCEPT !.link = referred, !.seen = total]
<1>1. /\ chatJob[h].pc = "idle" /\ p = owner
      /\ UNCHANGED <<account, telegram, whatsapp, state, code, total>>
  BY DEF Chats!ShareContact, Chats!OwnContact
<1>2. \/ /\ mine # None /\ account[mine].phone = None
         /\ Chats!Begin(h, [row EXCEPT !.pc = "completing", !.id = mine])
      \/ known # None /\ Chats!Begin(h, Chats!Link(p, known))
      \/ /\ left # None
         /\ Chats!Begin(h, [counted EXCEPT !.pc = "completing", !.id = left])
      \/ known = None /\ Chats!Begin(h, [counted EXCEPT !.pc = "creating"])
  BY DEF Chats!ShareContact
<1>3. \E form \in Chats!Forms : phone = <<p, form>>
  BY <1>1 DEF Chats!Normalize, Chats!Forms
<1>4. phone \in {p} \X Chats!Forms /\ phone \in People \X Chats!Forms
  BY <1>3
<1>5. /\ h \in Chats!Runners /\ total \in Nat /\ h \notin Processes
      /\ state \in [Processes -> [People -> {"initial", "currency", "timezone"}]]
  BY DEF Chats!Runners, ChatInv, ChatTypes, ChatAssumption, Chats!OnboardingAssumption
<1> HIDE DEF phone
<1>6. ASSUME NEW j, j \in ChatJob, WritesFit(h, j), j.pc # "counting", SawTheTotal(j),
             Chats!Begin(h, j),
             "accounts" \notin disturbed /\ j.pc = "creating" => Chats!Accounts(j.who) = {}
      PROVE  ChatInv'
  <2>1. Begins(h, j)
    BY <1>1, <1>5, <1>6 DEF Begins
  <2>2. QED
    BY <2>1, BeginsKeeps
<1>7. ASSUME NEW i \in Chats!Accounts(p), NEW j, j \in ChatJob, j.pc = "completing",
             j.who = p, j.id = i, j.phone = phone, j.link => j.seen = total, Chats!Begin(h, j)
      PROVE  ChatInv'
  <2>1. WritesFit(h, j) /\ SawTheTotal(j)
    BY <1>4, <1>7 DEF WritesFit, SawTheTotal
  <2>2. QED
    BY <1>6, <1>7, <2>1
<1> PICK first : first = row
  OBVIOUS
<1>8. /\ first \in ChatJob /\ first.who = p /\ first.phone = phone /\ first.link = FALSE
  BY <1>4, IdleFits DEF ChatJob
<1> PICK second : second = counted
  OBVIOUS
<1>9. /\ second \in ChatJob /\ second.who = p /\ second.phone = phone
       /\ second.link = referred /\ second.seen = total
  BY <1>5, <1>8 DEF ChatJob
<1> HIDE DEF row, counted
<1>10. CASE mine # None /\ Chats!Begin(h, [row EXCEPT !.pc = "completing", !.id = mine])
  <2>1. PICK i \in Chats!Accounts(p) : i = mine
    BY <1>10 DEF ChatInv, ChatsFit
  <2>2. i \in Chats!Ids
    BY AccountTypes DEF ChatInv, Chats!Accounts
  <2>3. PICK j : j = [first EXCEPT !.pc = "completing", !.id = i]
    OBVIOUS
  <2>4. /\ j \in ChatJob /\ j.pc = "completing" /\ j.who = p /\ j.id = i /\ j.phone = phone
        /\ j.link = FALSE
    BY <1>8, <2>2, <2>3 DEF ChatJob
  <2>5. Chats!Begin(h, j)
    BY <1>10, <2>1, <2>3
  <2>6. QED
    BY <1>7, <2>4, <2>5
<1>11. CASE known # None /\ Chats!Begin(h, Chats!Link(p, known))
  <2>1. PICK i \in Chats!Accounts(p) : i = known
    BY <1>3, <1>11, ByPhoneFinds DEF ChatInv
  <2>2. PICK j : j = Chats!Link(p, i)
    OBVIOUS
  <2>3. j \in ChatJob /\ j.pc = "linking" /\ WritesFit(h, j) /\ SawTheTotal(j)
    BY <2>2, LinkFits
  <2>4. QED
    BY <1>6, <1>11, <2>1, <2>2, <2>3
<1>12. CASE left # None /\ Chats!Begin(h, [counted EXCEPT !.pc = "completing", !.id = left])
  <2>1. PICK i \in Chats!Accounts(p) : i = left
    BY <1>12, ByExternalIdFinds DEF Chats!External
  <2>2. i \in Chats!Ids
    BY AccountTypes DEF ChatInv, Chats!Accounts
  <2>3. PICK j : j = [second EXCEPT !.pc = "completing", !.id = i]
    OBVIOUS
  <2>4. /\ j \in ChatJob /\ j.pc = "completing" /\ j.who = p /\ j.id = i /\ j.phone = phone
        /\ j.seen = total
    BY <1>9, <2>2, <2>3 DEF ChatJob
  <2>5. Chats!Begin(h, j)
    BY <1>12, <2>1, <2>3
  <2>6. QED
    BY <1>7, <2>4, <2>5
<1>13. CASE known = None /\ Chats!Begin(h, [counted EXCEPT !.pc = "creating"])
  <2>1. PICK j : j = [second EXCEPT !.pc = "creating"]
    OBVIOUS
  <2>2. Chats!Begin(h, j)
    BY <1>13, <2>1
  <2>3. /\ j \in ChatJob /\ j.pc = "creating" /\ j.who = p /\ j.phone = phone /\ j.seen = total
    BY <1>9, <2>1 DEF ChatJob
  <2>4. WritesFit(h, j) /\ SawTheTotal(j)
    BY <1>4, <1>5, <2>3 DEF WritesFit, SawTheTotal
  <2>5. "accounts" \notin disturbed => Chats!Accounts(p) = {}
    BY <1>3, <1>13, NotFoundHasNone DEF ChatInv
  <2>6. QED
    BY <1>6, <1>13, <2>2, <2>3, <2>4, <2>5
<1>14. QED
  BY <1>2, <1>10, <1>11, <1>12, <1>13

LEMMA MessageKeeps ==
    ASSUME ChatAssumption, ChatInv, NEW q \in Processes, NEW p \in People,
           NEW valid \in BOOLEAN, NEW referred \in BOOLEAN,
           Chats!Message(q, p, valid, referred)
    PROVE  ChatInv'
<1> DEFINE asking == state[q][p] # "initial"
           found == IF whatsapp[p] # None THEN whatsapp[p] ELSE Chats!ByPhone(<<p, "long">>)
           answered == IF ~asking THEN "currency"
                       ELSE IF valid /\ state[q][p] = "currency" THEN "timezone"
                       ELSE state[q][p]
           States == {"initial", "currency", "timezone"}
<1>1. chatJob[q].pc = "idle" /\ UNCHANGED <<account, telegram, whatsapp, code, total>>
  BY DEF Chats!Message
<1>2. /\ q \in Chats!Runners /\ total \in Nat
      /\ state \in [Processes -> [People -> States]]
  BY DEF Chats!Runners, ChatInv, ChatTypes
<1>3. ASSUME "accounts" \notin disturbed, asking PROVE Chats!Accounts(p) = {}
  <2>1. EachHasOne /\ Asking(q, p)
    BY <1>3 DEF ChatInv, EachHasOne
  <2>2. QED
    BY <1>1, <1>3, <2>1 DEF Asking
<1>4. CASE asking /\ UNCHANGED state
           /\ Chats!Begin(q, [Chats!Idle EXCEPT !.pc = "creating", !.who = p,
                                !.phone = Chats!Normalize(p, "long"), !.link = referred,
                                !.seen = total])
  <2>1. PICK j : j = [Chats!Idle EXCEPT !.pc = "creating", !.who = p,
                        !.phone = Chats!Normalize(p, "long"), !.link = referred, !.seen = total]
    OBVIOUS
  <2>2. Chats!Normalize(p, "long") = <<p, "long">> /\ "long" \in Chats!Forms
    BY DEF Chats!Normalize, Chats!Forms
  <2>3. /\ j \in ChatJob /\ j.pc = "creating" /\ j.who = p /\ j.phone = <<p, "long">>
        /\ j.seen = total
    <3>1. PICK k : k = <<p, "long">>
      OBVIOUS
    <3>2. k \in People \X Chats!Forms
      BY <2>2, <3>1
    <3>3. j = [Chats!Idle EXCEPT !.pc = "creating", !.who = p, !.phone = k, !.link = referred,
                                 !.seen = total]
      BY <2>1, <2>2, <3>1
    <3>4. QED
      BY <1>2, <3>1, <3>2, <3>3, IdleFits DEF ChatJob
  <2>4. WritesFit(q, j) /\ SawTheTotal(j)
    BY <2>2, <2>3 DEF WritesFit, SawTheTotal
  <2>5. Begins(q, j)
    BY <1>1, <1>2, <1>3, <1>4, <2>1, <2>3, <2>4 DEF Begins
  <2>6. QED
    BY <2>5, BeginsKeeps
<1>5. CASE /\ state' = IF found # None /\ ~asking THEN state
                       ELSE [state EXCEPT ![q][p] = answered]
           /\ Chats!Begin(q, IF found # None /\ whatsapp[p] = None THEN Chats!Link(p, found)
                             ELSE Chats!Idle)
  <2>1. state' \in [Processes -> [People -> States]]
    BY <1>2, <1>5
  <2>2. ASSUME "accounts" \notin disturbed, NEW g \in Processes, NEW o \in People,
               state'[g][o] # "initial"
        PROVE  state[g][o] # "initial" \/ Chats!Accounts(o) = {}
    <3>1. CASE state'[g][o] = state[g][o]
      BY <2>2, <3>1
    <3>2. CASE state'[g][o] # state[g][o]
      <4>1. o = p /\ (asking \/ (whatsapp[p] = None /\ Chats!ByPhone(<<p, "long">>) = None))
        BY <1>2, <1>5, <3>2
      <4>2. QED
        BY <1>3, <2>2, <4>1, NotFoundHasNone DEF ChatInv, Chats!Forms
    <3>3. QED
      BY <3>1, <3>2
  <2>3. PICK j : j = IF found # None /\ whatsapp[p] = None THEN Chats!Link(p, found)
                     ELSE Chats!Idle
    OBVIOUS
  <2>4. /\ j \in ChatJob /\ j.pc \in {"linking", "idle"} /\ WritesFit(q, j) /\ SawTheTotal(j)
    <3>1. CASE found # None /\ whatsapp[p] = None
      <4>1. found \in Chats!Accounts(p)
        BY <3>1, ByPhoneFinds DEF ChatInv, Chats!Forms
      <4>2. PICK i \in Chats!Accounts(p) : i = found
        BY <4>1
      <4>3. j = Chats!Link(p, i)
        BY <2>3, <3>1, <4>2
      <4>4. QED
        BY <4>3, LinkFits
    <3>2. CASE ~(found # None /\ whatsapp[p] = None)
      BY <2>3, <3>2, IdleFits
    <3>3. QED
      BY <3>1, <3>2
  <2>5. Chats!Begin(q, j)
    BY <1>5, <2>3
  <2>6. Begins(q, j)
    BY <1>1, <1>2, <2>1, <2>2, <2>4, <2>5 DEF Begins
  <2>7. QED
    BY <2>6, BeginsKeeps
<1>6. QED
  BY <1>4, <1>5 DEF Chats!Message

-----------------------------------------------------------------------------
(* A handler goes on.                                                      *)

GoesOn(h, j) ==
    /\ h \in Chats!Runners /\ chatJob[h].pc # "idle"
    /\ j \in ChatJob /\ chatJob' = [chatJob EXCEPT ![h] = j]
    /\ WritesFit(h, j)'
    /\ \A g \in Chats!Runners, k \in ChatJob : WritesFit(g, k) => WritesFit(g, k)'

LEMMA AfterGoingOn ==
    ASSUME ChatInv, NEW h, NEW j, GoesOn(h, j)
    PROVE  /\ chatJob' \in [Chats!Runners -> ChatJob]
           /\ \A g \in Chats!Runners : chatJob'[g] = IF g = h THEN j ELSE chatJob[g]
           /\ WritersFit'
           /\ Quiet => Quiet' /\ \A g \in Chats!Runners \ {h} : chatJob[g].pc = "idle"
<1>1. /\ chatJob' \in [Chats!Runners -> ChatJob]
      /\ \A g \in Chats!Runners : chatJob'[g] = IF g = h THEN j ELSE chatJob[g]
  BY DEF GoesOn, ChatInv, ChatTypes
<1>2. WritersFit'
  <2> SUFFICES ASSUME NEW g \in Chats!Runners
               PROVE  chatJob'[g] \in ChatJob /\ WritesFit(g, chatJob[g])'
    BY DEF WritersFit
  <2>1. PICK k : k = chatJob'[g]
    OBVIOUS
  <2>2. k \in ChatJob /\ WritesFit(g, k)'
    BY <1>1, <2>1 DEF GoesOn, ChatInv, WritersFit
  <2>3. QED
    BY <2>1, <2>2 DEF WritesFit
<1>3. Quiet => Quiet' /\ \A g \in Chats!Runners \ {h} : chatJob[g].pc = "idle"
  BY <1>1 DEF Quiet, GoesOn
<1>4. QED
  BY <1>1, <1>2, <1>3

LEMMA IncrementKeeps ==
    ASSUME ChatInv, NEW h \in Chats!Runners, Chats!IncrementRegistrations(h)
    PROVE  ChatInv'
<1>1. PICK j : j = [chatJob[h] EXCEPT !.pc = "linking"]
  OBVIOUS
<1>2. /\ chatJob[h].pc = "counting" /\ total' = chatJob[h].seen + 1
      /\ chatJob' = [chatJob EXCEPT ![h] = j]
      /\ UNCHANGED <<account, telegram, whatsapp, state, code, disturbed>>
  BY <1>1 DEF Chats!IncrementRegistrations
<1>3. chatJob[h] \in ChatJob /\ WritesFit(h, chatJob[h])
  BY DEF ChatInv, WritersFit
<1>4. /\ j \in ChatJob /\ j.pc = "linking" /\ j.who = chatJob[h].who /\ j.id = chatJob[h].id
      /\ j.phone = chatJob[h].phone
  BY <1>1, <1>3 DEF ChatJob
<1>5. WritesFit(h, j)
  BY <1>2, <1>3, <1>4 DEF WritesFit
<1>6. /\ Chats!Exists' = Chats!Exists /\ \A p : Chats!Accounts(p)' = Chats!Accounts(p)
      /\ Referred' = Referred /\ AccountsFit'
      /\ \A g, k : WritesFit(g, k) <=> WritesFit(g, k)'
  BY <1>2, SameAccounts DEF ChatInv
<1>7. GoesOn(h, j)
  BY <1>2, <1>4, <1>5, <1>6 DEF GoesOn
<1>8. /\ chatJob' \in [Chats!Runners -> ChatJob]
      /\ \A g \in Chats!Runners : chatJob'[g] = IF g = h THEN j ELSE chatJob[g]
      /\ WritersFit'
      /\ Quiet => Quiet' /\ \A g \in Chats!Runners \ {h} : chatJob[g].pc = "idle"
  BY <1>7, AfterGoingOn
<1>9. ChatTypes' /\ ChatsFit'
  <2>1. total' \in Nat
    BY <1>2, <1>3 DEF ChatJob
  <2>2. ChatTypes'
    BY <1>2, <1>6, <1>8, <2>1 DEF ChatInv, ChatTypes
  <2>3. ChatsFit'
    BY <1>2, <1>6 DEF ChatInv, ChatsFit
  <2>4. QED
    BY <2>2, <2>3
<1>10. ASSUME EachHasOne PROVE EachHasOne'
  <2>1. \A q \in Processes, p \in People : Asking(q, p)'
    BY <1>2, <1>4, <1>6, <1>8, <1>10 DEF EachHasOne, Asking, Chats!Runners
  <2>2. (\A g \in Chats!Runners :
           chatJob[g].pc = "creating" => Chats!Accounts(chatJob[g].who) = {})'
    BY <1>4, <1>6, <1>8, <1>10 DEF EachHasOne, Chats!Accounts
  <2>3. QED
    BY <1>2, <1>6, <1>8, <1>10, <2>1, <2>2 DEF EachHasOne
<1>11. ASSUME AllCounted PROVE AllCounted'
  <2>1. /\ total + 1 = Cardinality(Referred) /\ chatJob[h].seen = total
    BY <1>2, <1>3, <1>11 DEF AllCounted, SawTheTotal, WritesFit
  <2>2. \A g \in Chats!Runners : chatJob'[g].pc \in {"linking", "idle"}
    BY <1>4, <1>8, <1>11 DEF AllCounted
  <2>3. total' = Cardinality(Referred)'
    BY <1>2, <1>6, <2>1
  <2>4. QED
    BY <1>8, <1>11, <2>2, <2>3 DEF AllCounted, SawTheTotal
<1>12. QED
  BY <1>2, <1>6, <1>8, <1>9, <1>10, <1>11 DEF ChatInv

LEMMA LinkChatKeeps ==
    ASSUME ChatAssumption, ChatInv, NEW h \in Chats!Runners, Chats!LinkChat(h)
    PROVE  ChatInv'
<1>1. PICK p, i : p = chatJob[h].who /\ i = chatJob[h].id
  OBVIOUS
<1>2. /\ chatJob[h].pc = "linking" /\ chatJob' = [chatJob EXCEPT ![h] = Chats!Idle]
      /\ \/ telegram' = [telegram EXCEPT ![p] = i] /\ UNCHANGED <<whatsapp, state>> /\ h \in Threads
         \/ /\ whatsapp' = [whatsapp EXCEPT ![p] = i] /\ UNCHANGED telegram /\ h \in Processes
            /\ state' = IF chatJob[h].phone # None
                        THEN [state EXCEPT ![h][p] = "initial"] ELSE state
      /\ UNCHANGED <<account, code, total, disturbed>>
  BY <1>1 DEF Chats!LinkChat, Chats!Runners
<1>3. p \in People /\ i \in Chats!Accounts(p) /\ i \in Chats!Exists
  BY <1>1, <1>2 DEF ChatInv, WritersFit, WritesFit, Chats!Accounts
<1>4. /\ Chats!Exists' = Chats!Exists /\ \A o : Chats!Accounts(o)' = Chats!Accounts(o)
      /\ Referred' = Referred /\ AccountsFit'
      /\ \A g, k : WritesFit(g, k) <=> WritesFit(g, k)'
  BY <1>2, SameAccounts DEF ChatInv
<1>5. GoesOn(h, Chats!Idle)
  BY <1>2, <1>4, IdleFits DEF GoesOn
<1>6. /\ chatJob' \in [Chats!Runners -> ChatJob]
      /\ \A g \in Chats!Runners : chatJob'[g] = IF g = h THEN Chats!Idle ELSE chatJob[g]
      /\ WritersFit'
      /\ Quiet => Quiet' /\ \A g \in Chats!Runners \ {h} : chatJob[g].pc = "idle"
  BY <1>5, AfterGoingOn
<1>7. ChatTypes' /\ ChatsFit'
  <2>1. /\ telegram' \in [People -> Chats!Exists \cup {None}]
        /\ whatsapp' \in [People -> Chats!Exists \cup {None}]
        /\ state' \in [Processes -> [People -> {"initial", "currency", "timezone"}]]
    BY <1>2, <1>3 DEF ChatInv, ChatTypes
  <2>2. ChatTypes'
    BY <1>2, <1>4, <1>6, <2>1 DEF ChatInv, ChatTypes
  <2>3. ASSUME NEW o \in People
        PROVE  /\ telegram'[o] \in Chats!Accounts(o) \cup {None}
               /\ whatsapp'[o] \in Chats!Accounts(o) \cup {None}
    BY <1>2, <1>3 DEF ChatInv, ChatsFit, ChatTypes
  <2>4. ChatsFit'
    BY <1>4, <2>3 DEF ChatsFit
  <2>5. QED
    BY <2>2, <2>4
<1>8. ASSUME EachHasOne PROVE EachHasOne'
  <2>1. ASSUME NEW q \in Processes, NEW o \in People, state'[q][o] # "initial"
        PROVE  Chats!Accounts(o) = {}
    <3>1. state[q][o] # "initial" /\ Asking(q, o) /\ q \in Chats!Runners
      BY <1>2, <1>3, <1>8, <2>1 DEF EachHasOne, ChatInv, ChatTypes, Chats!Runners
    <3>2. CASE q # h
      BY <1>6, <1>8, <3>1, <3>2 DEF Asking, EachHasOne
    <3>3. CASE q = h
      <4>1. h \notin Threads
        BY <3>3 DEF ChatAssumption, Chats!OnboardingAssumption
      <4>2. state' = IF chatJob[h].phone # None THEN [state EXCEPT ![h][p] = "initial"] ELSE state
        BY <1>2, <4>1
      <4>3. state \in [Processes -> [People -> {"initial", "currency", "timezone"}]]
        BY DEF ChatInv, ChatTypes
      <4>4. ~(chatJob[q].who = o /\ chatJob[q].phone # None)
        BY <1>1, <2>1, <3>3, <4>2, <4>3
      <4>5. QED
        BY <3>1, <4>4 DEF Asking
    <3>4. QED
      BY <3>2, <3>3
  <2>2. \A q \in Processes, o \in People : Asking(q, o)'
    BY <1>4, <2>1 DEF Asking
  <2>3. (\A g \in Chats!Runners :
           chatJob[g].pc = "creating" => Chats!Accounts(chatJob[g].who) = {})'
    BY <1>6, <1>8, IdleFits DEF EachHasOne
  <2>4. QED
    BY <1>2, <1>4, <1>6, <1>8, <2>2, <2>3 DEF EachHasOne
<1>9. ASSUME AllCounted PROVE AllCounted'
  <2>1. total = Cardinality(Referred)
    BY <1>2, <1>6, <1>9 DEF AllCounted
  <2>2. \A g \in Chats!Runners : chatJob'[g].pc = "idle"
    BY <1>6, <1>9, IdleFits DEF AllCounted
  <2>3. QED
    BY <1>2, <1>4, <1>6, <1>9, <2>1, <2>2 DEF AllCounted, SawTheTotal
<1>10. QED
  BY <1>2, <1>4, <1>6, <1>7, <1>8, <1>9 DEF ChatInv

\* Whoever dies is not heard of again, and the counter may be wrong from here on.
LEMMA DiesKeeps ==
    ASSUME ChatAssumption, ChatInv, NEW h \in Chats!Runners, Chats!Dies(h)
    PROVE  ChatInv'
<1>1. /\ chatJob[h].pc # "idle" /\ chatJob' = [chatJob EXCEPT ![h] = Chats!Idle]
      /\ disturbed' = disturbed \cup {"count"}
      /\ state' = IF h \in Processes
                  THEN [state EXCEPT ![h] = [p \in People |-> "initial"]] ELSE state
      /\ UNCHANGED <<account, telegram, whatsapp, code, total>>
  BY DEF Chats!Dies
<1>2. /\ Chats!Exists' = Chats!Exists /\ \A o : Chats!Accounts(o)' = Chats!Accounts(o)
      /\ Referred' = Referred /\ AccountsFit'
      /\ \A g, k : WritesFit(g, k) <=> WritesFit(g, k)'
  BY <1>1, SameAccounts DEF ChatInv
<1>3. GoesOn(h, Chats!Idle)
  BY <1>1, <1>2, IdleFits DEF GoesOn
<1>4. /\ chatJob' \in [Chats!Runners -> ChatJob]
      /\ \A g \in Chats!Runners : chatJob'[g] = IF g = h THEN Chats!Idle ELSE chatJob[g]
      /\ WritersFit'
      /\ Quiet => Quiet' /\ \A g \in Chats!Runners \ {h} : chatJob[g].pc = "idle"
  BY <1>3, AfterGoingOn
<1>5. ChatTypes' /\ ChatsFit'
  <2>1. state' \in [Processes -> [People -> {"initial", "currency", "timezone"}]]
    BY <1>1 DEF ChatInv, ChatTypes
  <2>2. QED
    BY <1>1, <1>2, <1>4, <2>1 DEF ChatInv, ChatTypes, ChatsFit
<1>6. ASSUME EachHasOne PROVE EachHasOne'
  <2>1. ASSUME NEW q \in Processes, NEW o \in People, state'[q][o] # "initial"
        PROVE  Chats!Accounts(o) = {}
    <3>1. q # h /\ state[q][o] # "initial" /\ Asking(q, o) /\ q \in Chats!Runners
      BY <1>1, <1>6, <2>1 DEF EachHasOne, ChatInv, ChatTypes, Chats!Runners
    <3>2. QED
      BY <1>4, <1>6, <3>1 DEF Asking, EachHasOne
  <2>2. \A q \in Processes, o \in People : Asking(q, o)'
    BY <1>2, <2>1 DEF Asking
  <2>3. (\A g \in Chats!Runners :
           chatJob[g].pc = "creating" => Chats!Accounts(chatJob[g].who) = {})'
    BY <1>4, <1>6, IdleFits DEF EachHasOne
  <2>4. QED
    BY <1>1, <1>2, <1>4, <1>6, <2>2, <2>3 DEF EachHasOne
<1>7. QED
  BY <1>1, <1>2, <1>4, <1>5, <1>6 DEF ChatInv

-----------------------------------------------------------------------------
(* Restarts and codes; what they leave alone.                              *)

LEMMA OnlyForgets ==
    ASSUME ChatInv, UNCHANGED <<account, telegram, whatsapp, total, chatJob, disturbed>>,
           state' \in [Processes -> [People -> {"initial", "currency", "timezone"}]],
           \A q \in Processes, p \in People :
             state'[q][p] # "initial" => state[q][p] # "initial",
           code' \in [People -> Chats!Forms \cup {None}]
    PROVE  ChatInv'
<1>1. /\ Chats!Exists' = Chats!Exists /\ \A o : Chats!Accounts(o)' = Chats!Accounts(o)
      /\ Referred' = Referred /\ AccountsFit'
      /\ \A g, k : WritesFit(g, k) <=> WritesFit(g, k)'
  BY SameAccounts DEF ChatInv
<1>2. ChatTypes' /\ ChatsFit'
  BY <1>1 DEF ChatInv, ChatTypes, ChatsFit
<1>3. WritersFit'
  BY <1>1 DEF ChatInv, WritersFit, WritesFit
<1>4. Quiet' <=> Quiet
  BY DEF Quiet
<1>5. ASSUME EachHasOne PROVE EachHasOne'
  <2>1. \A q \in Processes, p \in People : Asking(q, p)'
    BY <1>1, <1>5 DEF EachHasOne, Asking
  <2>2. QED
    BY <1>1, <1>4, <1>5, <2>1 DEF EachHasOne, Chats!Accounts
<1>6. AllCounted => AllCounted'
  BY <1>1, <1>4 DEF AllCounted, SawTheTotal
<1>7. QED
  BY <1>1, <1>2, <1>3, <1>5, <1>6 DEF ChatInv

LEMMA ForgettingKeeps ==
    ASSUME ChatInv,
           \/ \E q \in Processes : Chats!Restart(q)
           \/ \E p \in People : Chats!CodeExpires(p) \/ \E form \in Chats!Forms : Chats!SendCode(p, form)
           \/ UNCHANGED <<account, telegram, whatsapp, state, code, total, chatJob, disturbed>>
    PROVE  ChatInv'
<1>1. /\ state \in [Processes -> [People -> {"initial", "currency", "timezone"}]]
      /\ code \in [People -> Chats!Forms \cup {None}]
  BY DEF ChatInv, ChatTypes
<1>2. ASSUME NEW q \in Processes, Chats!Restart(q) PROVE ChatInv'
  <2>1. /\ state' = [state EXCEPT ![q] = [p \in People |-> "initial"]]
        /\ UNCHANGED <<account, telegram, whatsapp, code, total, chatJob, disturbed>>
    BY <1>2 DEF Chats!Restart
  <2>2. /\ state' \in [Processes -> [People -> {"initial", "currency", "timezone"}]]
        /\ \A g \in Processes, p \in People :
             state'[g][p] # "initial" => state[g][p] # "initial"
    BY <1>1, <2>1
  <2>3. QED
    BY <1>1, <2>1, <2>2, OnlyForgets
<1>3. ASSUME NEW p \in People, NEW form \in Chats!Forms,
             Chats!CodeExpires(p) \/ Chats!SendCode(p, form)
      PROVE  ChatInv'
  <2>1. /\ UNCHANGED <<account, telegram, whatsapp, state, total, chatJob, disturbed>>
        /\ \E c \in Chats!Forms \cup {None} : code' = [code EXCEPT ![p] = c]
    BY <1>3 DEF Chats!CodeExpires, Chats!SendCode, Chats!Normalize, Chats!Forms
  <2>2. code' \in [People -> Chats!Forms \cup {None}]
    BY <1>1, <2>1
  <2>3. QED
    BY <1>1, <2>1, <2>2, OnlyForgets
<1>4. "long" \in Chats!Forms
  BY DEF Chats!Forms
<1>5. QED
  BY <1>1, <1>2, <1>3, <1>4, OnlyForgets

-----------------------------------------------------------------------------
(* What is written of an account.                                          *)

LEMMA WidgetLoginKeeps ==
    ASSUME ChatAssumption, ChatInv, NEW p \in People, Chats!WidgetLogin(p)
    PROVE  ChatInv'
<1>1. PICK i : i = Chats!First(Chats!Ids \ Chats!Exists)
  OBVIOUS
<1>2. PICK a : a = [ext |-> {<<"telegram", p>>}, phone |-> None, referred |-> FALSE]
  OBVIOUS
<1>3. /\ Chats!ByExternalId(<<"telegram", p>>) = None /\ i # None
      /\ account' = [account EXCEPT ![i] = a]
      /\ disturbed' = disturbed \cup {"accounts"}
      /\ UNCHANGED <<telegram, whatsapp, state, code, total, chatJob>>
  BY <1>1, <1>2 DEF Chats!WidgetLogin
<1>4. i \in Chats!Ids /\ i \notin Chats!Exists
  BY <1>1, <1>3, FirstOf
<1>5. PICK x : x = <<"telegram", p>>
  OBVIOUS
<1>6. x \in Chats!External /\ x[2] = p /\ x[1] \notin Chats!Forms
  BY <1>5 DEF Chats!External, Chats!Forms
<1>7. a \in Chats!Account /\ a.ext = {x} /\ a.phone = None /\ a.referred = FALSE
  BY <1>2, <1>5, <1>6 DEF Chats!Account
<1>8. BecomesTheirs(i, a, p)
  <2>1. \A j \in Chats!Exists : account[j].ext # {x}
    BY <1>3, <1>5, <1>6, ByExternalIdFinds
  <2>2. \A o \in People : Of(a, o) <=> o = p
    BY <1>6, <1>7 DEF Of
  <2>3. QED
    BY <1>3, <1>4, <1>6, <1>7, <2>1, <2>2 DEF BecomesTheirs
<1>9. /\ AccountsFit' /\ Chats!Exists' = Chats!Exists \cup {i}
      /\ \A j \in Chats!Exists' : account'[j] = IF j = i THEN a ELSE account[j]
  BY <1>8, AccountWritten DEF ChatInv
<1>10. /\ ChatTypes' /\ ChatsFit' /\ WritersFit'
  <2>1. /\ telegram \in [People -> Chats!Exists' \cup {None}]
        /\ whatsapp \in [People -> Chats!Exists' \cup {None}]
        /\ \A o \in People : /\ telegram[o] \in Chats!Accounts(o)' \cup {None}
                             /\ whatsapp[o] \in Chats!Accounts(o)' \cup {None}
        /\ \A h \in Chats!Runners, j \in ChatJob : WritesFit(h, j) => WritesFit(h, j)'
    BY <1>8, AccountsGrow
  <2>2. ChatTypes' /\ ChatsFit'
    BY <1>3, <2>1 DEF ChatInv, ChatTypes, ChatsFit
  <2>3. WritersFit'
    BY <1>3, <2>1 DEF ChatInv, WritersFit, WritesFit
  <2>4. QED
    BY <2>2, <2>3
<1>11. ASSUME AllCounted PROVE AllCounted'
  <2>1. Referred' = Referred
    BY <1>4, <1>7, <1>9 DEF Referred
  <2>2. QED
    BY <1>3, <1>11, <2>1 DEF AllCounted, Quiet, SawTheTotal
<1>12. QED
  BY <1>3, <1>9, <1>10, <1>11 DEF ChatInv

\* An account that is there gets what it lacked.
LEMMA ChangedKeepsAccounts ==
    ASSUME ChatAssumption, ChatInv, NEW i, NEW a, NEW p, BecomesTheirs(i, a, p),
           i \in Chats!Exists
    PROVE  /\ AccountsFit' /\ Chats!Exists' = Chats!Exists
           /\ \A j \in Chats!Exists : account'[j] = IF j = i THEN a ELSE account[j]
           /\ \A o \in People : Chats!Accounts(o)' = Chats!Accounts(o)
<1>1. AccountsFit
  BY DEF ChatInv
<1>2. /\ AccountsFit' /\ Chats!Exists' = Chats!Exists \cup {i}
      /\ \A j \in Chats!Exists' : account'[j] = IF j = i THEN a ELSE account[j]
      /\ \A o \in People : Chats!Accounts(o)' = IF o = p THEN Chats!Accounts(o) \cup {i}
                                                ELSE Chats!Accounts(o)
  BY <1>1, AccountWritten
<1>3. i \in Chats!Accounts(p)
  BY AccountOf DEF BecomesTheirs
<1>4. QED
  BY <1>2, <1>3

LEMMA CompleteUserKeeps ==
    ASSUME ChatAssumption, ChatInv, NEW h \in Chats!Runners, Chats!CompleteUser(h)
    PROVE  ChatInv'
<1>1. PICK i, p : i = chatJob[h].id /\ p = chatJob[h].who
  OBVIOUS
<1>2. PICK j : j = [chatJob[h] EXCEPT !.pc = "linking"]
  OBVIOUS
<1>3. PICK phone, ref :
        /\ phone = IF account[i].phone = None THEN chatJob[h].phone ELSE account[i].phone
        /\ ref = (account[i].referred \/ chatJob[h].link)
  OBVIOUS
<1>4. PICK a : a = [account[i] EXCEPT !.phone = phone, !.referred = ref]
  OBVIOUS
<1>5. /\ chatJob[h].pc = "completing"
      /\ total' = IF chatJob[h].link /\ ~account[i].referred THEN chatJob[h].seen + 1 ELSE total
      /\ chatJob' = [chatJob EXCEPT ![h] = j]
      /\ UNCHANGED <<telegram, whatsapp, state, code, disturbed>>
  BY <1>1, <1>2 DEF Chats!CompleteUser
<1>6. /\ chatJob[h] \in ChatJob /\ WritesFit(h, chatJob[h])
      /\ chatJob[h].link \in BOOLEAN /\ chatJob[h].seen \in Nat
  BY DEF ChatInv, WritersFit, ChatJob
<1>7. /\ p \in People /\ i \in Chats!Accounts(p) /\ i \in Chats!Exists /\ Of(account[i], p)
      /\ chatJob[h].phone \in {p} \X Chats!Forms
  BY <1>1, <1>5, <1>6, AccountOf DEF WritesFit
<1>8. /\ i \in Chats!Ids /\ account[i] \in Chats!Account
      /\ account[i].phone \in (People \X Chats!Forms) \cup {None}
      /\ account[i].referred \in BOOLEAN
  BY <1>7, AccountTypes DEF ChatInv
<1>9. account' = [account EXCEPT ![i] = a]
  <2>1. account' = [account EXCEPT
             ![i].phone = IF @ = None THEN chatJob[h].phone ELSE @,
             ![i].referred = @ \/ chatJob[h].link]
    BY <1>1 DEF Chats!CompleteUser
  <2>2. account \in [Chats!Ids -> Chats!Account \cup {None}]
    BY DEF ChatInv, AccountsFit
  <2>3. QED
    BY <1>3, <1>4, <1>8, <2>1, <2>2
<1>10. /\ a \in Chats!Account /\ a.ext = account[i].ext /\ a.phone = phone /\ a.referred = ref
  <2>1. phone \in (People \X Chats!Forms) \cup {None} /\ ref \in BOOLEAN
    BY <1>3, <1>6, <1>7, <1>8
  <2>2. QED
    BY <1>4, <1>8, <2>1 DEF Chats!Account
<1>11. BecomesTheirs(i, a, p)
  <2>1. \A o \in People : Of(account[i], o) <=> o = p
    BY <1>7 DEF ChatInv, AccountsFit
  <2>2. \A o \in People : Of(a, o) <=> o = p
    BY <1>3, <1>7, <1>10, <2>1 DEF Of
  <2>3. \A x \in a.ext : x[1] \in Chats!Forms => a.phone = <<x[2], x[1]>>
    <3> SUFFICES ASSUME NEW x \in a.ext, x[1] \in Chats!Forms PROVE a.phone = <<x[2], x[1]>>
      OBVIOUS
    <3>1. account[i].phone = <<x[2], x[1]>> /\ x \in Chats!External
      BY <1>7, <1>10, AccountTypes DEF ChatInv, AccountsFit
    <3>2. account[i].phone \in People \X Chats!Forms
      BY <3>1 DEF Chats!External
    <3>3. account[i].phone # None
      BY <3>2 DEF ChatAssumption, Chats!OnboardingAssumption
    <3>4. QED
      BY <1>3, <1>10, <3>1, <3>3
  <2>4. \A k \in Chats!Exists : k # i => account[k].ext # a.ext
    BY <1>7, <1>10 DEF ChatInv, AccountsFit
  <2>5. account[i].referred => a.referred
    BY <1>3, <1>8, <1>10
  <2>6. QED
    BY <1>7, <1>8, <1>9, <1>10, <2>2, <2>3, <2>4, <2>5 DEF BecomesTheirs
<1>12. /\ AccountsFit' /\ Chats!Exists' = Chats!Exists
       /\ \A k \in Chats!Exists : account'[k] = IF k = i THEN a ELSE account[k]
       /\ \A o \in People : Chats!Accounts(o)' = Chats!Accounts(o)
  BY <1>7, <1>11, ChangedKeepsAccounts
<1>13. /\ j \in ChatJob /\ j.pc = "linking" /\ j.who = p /\ j.id = i /\ j.phone = chatJob[h].phone
  BY <1>1, <1>2, <1>6 DEF ChatJob
<1>14. GoesOn(h, j)
  <2>1. WritesFit(h, j)'
    BY <1>7, <1>12, <1>13 DEF WritesFit
  <2>2. \A g \in Chats!Runners, k \in ChatJob : WritesFit(g, k) => WritesFit(g, k)'
    BY <1>11, AccountsGrow
  <2>3. QED
    BY <1>5, <1>13, <2>1, <2>2 DEF GoesOn
<1>15. /\ chatJob' \in [Chats!Runners -> ChatJob]
       /\ \A g \in Chats!Runners : chatJob'[g] = IF g = h THEN j ELSE chatJob[g]
       /\ WritersFit'
       /\ Quiet => Quiet' /\ \A g \in Chats!Runners \ {h} : chatJob[g].pc = "idle"
  BY <1>14, AfterGoingOn
<1>16. ChatTypes' /\ ChatsFit'
  <2>1. total' \in Nat
    BY <1>5, <1>6 DEF ChatInv, ChatTypes
  <2>2. QED
    BY <1>5, <1>12, <1>15, <2>1 DEF ChatInv, ChatTypes, ChatsFit
<1>17. ASSUME EachHasOne PROVE EachHasOne'
  <2>1. \A q \in Processes, o \in People : Asking(q, o)'
    BY <1>5, <1>12, <1>13, <1>15, <1>17 DEF EachHasOne, Asking, Chats!Runners
  <2>2. (\A g \in Chats!Runners :
           chatJob[g].pc = "creating" => Chats!Accounts(chatJob[g].who) = {})'
    BY <1>13, <1>15, <1>17 DEF EachHasOne
  <2>3. \A k \in Chats!Exists' : account'[k].phone # None
    BY <1>3, <1>7, <1>10, <1>12, <1>17 DEF EachHasOne
  <2>4. \A o \in People : \A k, l \in Chats!Accounts(o)' : k = l
    BY <1>12, <1>17 DEF EachHasOne
  <2>5. QED
    BY <1>15, <1>17, <2>1, <2>2, <2>3, <2>4 DEF EachHasOne
<1>18. ASSUME AllCounted PROVE AllCounted'
  <2>1. /\ total = Cardinality(Referred) /\ \A g \in Chats!Runners : chatJob'[g].pc \in {"linking", "idle"}
        /\ (chatJob[h].link => chatJob[h].seen = total)
    BY <1>5, <1>13, <1>15, <1>18 DEF AllCounted, SawTheTotal
  <2>2. Referred' = IF ref THEN Referred \cup {i} ELSE Referred
    BY <1>3, <1>7, <1>10, <1>12 DEF Referred
  <2>3. IsFiniteSet(Referred)
    <3>1. IsFiniteSet(Chats!Ids)
      BY FS_Interval DEF ChatAssumption, Chats!OnboardingAssumption, Chats!Ids
    <3>2. QED
      BY <3>1, FS_Subset DEF Referred, Chats!Exists
  <2>4. i \in Referred <=> account[i].referred
    BY <1>7 DEF Referred
  <2>5. total' = Cardinality(Referred')
    <3>1. CASE chatJob[h].link /\ ~account[i].referred
      <4>1. Referred' = Referred \cup {i} /\ i \notin Referred
        BY <1>3, <2>2, <2>4, <3>1
      <4>2. Cardinality(Referred') = Cardinality(Referred) + 1
        BY <2>3, <4>1, FS_AddElement
      <4>3. QED
        BY <1>5, <2>1, <3>1, <4>2
    <3>2. CASE ~(chatJob[h].link /\ ~account[i].referred)
      <4>1. Referred' = Referred
        BY <1>3, <1>6, <1>8, <2>2, <2>4, <3>2
      <4>2. QED
        BY <1>5, <2>1, <3>2, <4>1
    <3>3. QED
      BY <3>1, <3>2
  <2>6. QED
    BY <1>15, <1>18, <2>1, <2>5 DEF AllCounted, SawTheTotal
<1>19. QED
  BY <1>5, <1>12, <1>15, <1>16, <1>17, <1>18 DEF ChatInv

\* A login by a code joins a chat of WhatsApp to the one account that has the number.
LEMMA VerifyCodeKeeps ==
    ASSUME ChatAssumption, ChatInv, NEW p \in People, Chats!VerifyCode(p)
    PROVE  ChatInv'
<1> DEFINE x == <<code[p], p>>
           same == {i \in Chats!Exists : account[i].phone = <<p, code[p]>>}
           joins == /\ Chats!ByExternalId(x) = None /\ Chats!Cardinality(same) = 1
                    /\ \A i \in same : <<"telegram", p>> \in account[i].ext
<1>1. /\ code[p] # None /\ code' = [code EXCEPT ![p] = None]
      /\ account' = [i \in Chats!Ids |->
           IF joins /\ i \in same THEN [account[i] EXCEPT !.ext = @ \cup {x}] ELSE account[i]]
      /\ UNCHANGED <<telegram, whatsapp, state, total, chatJob, disturbed>>
  BY DEF Chats!VerifyCode
<1>2. /\ code \in [People -> Chats!Forms \cup {None}] /\ code[p] \in Chats!Forms
      /\ code' \in [People -> Chats!Forms \cup {None}]
      /\ account \in [Chats!Ids -> Chats!Account \cup {None}]
      /\ state \in [Processes -> [People -> {"initial", "currency", "timezone"}]]
  BY <1>1 DEF ChatInv, ChatTypes, AccountsFit
<1>3. CASE ~joins
  <2>1. account' = account
    BY <1>1, <1>2, <1>3
  <2>2. QED
    BY <1>1, <1>2, <2>1, OnlyForgets
<1>4. CASE joins
  <2>1. PICK i : same = {i}
    <3>1. IsFiniteSet(Chats!Ids)
      BY FS_Interval DEF ChatAssumption, Chats!OnboardingAssumption, Chats!Ids
    <3>2. IsFiniteSet(same)
      BY <3>1, FS_Subset DEF Chats!Exists
    <3>3. Cardinality(same) = 1
      BY Zenon, <1>4, ChatCardinality
    <3>4. QED
      BY <3>2, <3>3, FS_Singleton
  <2>2. /\ i \in Chats!Exists /\ account[i].phone = <<p, code[p]>>
        /\ <<"telegram", p>> \in account[i].ext
        /\ \A k \in Chats!Exists : account[k].phone = <<p, code[p]>> => k = i
    BY <1>4, <2>1
  <2>3. /\ i \in Chats!Ids /\ account[i] \in Chats!Account /\ account[i].referred \in BOOLEAN
        /\ account[i].ext \subseteq Chats!External /\ account[i].ext # {}
        /\ account[i].phone # None
    <3>1. account[i].phone \in People \X Chats!Forms
      BY <1>2, <2>2
    <3>2. QED
      BY <2>2, <3>1, AccountTypes DEF ChatInv, ChatAssumption, Chats!OnboardingAssumption
  <2>4. PICK y : y = x
    OBVIOUS
  <2>5. y \in Chats!External /\ y[1] = code[p] /\ y[2] = p
    BY <1>2, <2>4 DEF Chats!External
  <2>6. PICK a : a = [account[i] EXCEPT !.ext = account[i].ext \cup {y}]
    OBVIOUS
  <2>7. /\ a \in Chats!Account /\ a.ext = account[i].ext \cup {y}
        /\ a.phone = account[i].phone /\ a.referred = account[i].referred
    BY <2>3, <2>5, <2>6 DEF Chats!Account
  <2>8. account' = [account EXCEPT ![i] = a]
    BY <1>1, <1>2, <1>4, <2>1, <2>3, <2>4, <2>6
  <2>9. Of(account[i], p) /\ \A o \in People : Of(account[i], o) <=> o = p
    <3>1. Of(account[i], p)
      BY <2>2, <2>3 DEF Of
    <3>2. QED
      BY <2>2, <3>1 DEF ChatInv, AccountsFit
  <2>10. BecomesTheirs(i, a, p)
    <3>1. \A o \in People : Of(a, o) <=> o = p
      BY <2>5, <2>7, <2>9 DEF Of
    <3>2. \A z \in a.ext : z[1] \in Chats!Forms => a.phone = <<z[2], z[1]>>
      BY <2>2, <2>5, <2>7 DEF ChatInv, AccountsFit
    <3>3. \A k \in Chats!Exists : k # i => account[k].ext # a.ext
      <4> SUFFICES ASSUME NEW k \in Chats!Exists, account[k].ext = a.ext PROVE k = i
        OBVIOUS
      <4>1. y \in account[k].ext
        BY <2>7
      <4>2. account[k].phone = <<p, code[p]>>
        BY <1>2, <2>5, <4>1 DEF ChatInv, AccountsFit
      <4>3. QED
        BY <2>2, <4>2
    <3>4. QED
      BY <2>3, <2>7, <2>8, <2>9, <3>1, <3>2, <3>3 DEF BecomesTheirs
  <2>11. /\ AccountsFit' /\ Chats!Exists' = Chats!Exists
         /\ \A k \in Chats!Exists : account'[k] = IF k = i THEN a ELSE account[k]
         /\ \A o \in People : Chats!Accounts(o)' = Chats!Accounts(o)
    BY <2>2, <2>10, ChangedKeepsAccounts
  <2>12. WritersFit'
    <3>1. \A g \in Chats!Runners, k \in ChatJob : WritesFit(g, k) => WritesFit(g, k)'
      BY <2>10, AccountsGrow
    <3>2. QED
      BY <1>1, <3>1 DEF ChatInv, WritersFit, WritesFit
  <2>13. ChatTypes' /\ ChatsFit'
    BY <1>1, <1>2, <2>11 DEF ChatInv, ChatTypes, ChatsFit
  <2>14. ASSUME EachHasOne PROVE EachHasOne'
    <3>1. \A q \in Processes, o \in People : Asking(q, o)'
      BY <1>1, <2>11, <2>14 DEF EachHasOne, Asking
    <3>2. (\A g \in Chats!Runners :
             chatJob[g].pc = "creating" => Chats!Accounts(chatJob[g].who) = {})'
      <4> SUFFICES ASSUME NEW g \in Chats!Runners, chatJob[g].pc = "creating"
                   PROVE  Chats!Accounts(chatJob[g].who)' = {}
        BY <1>1
      <4>1. PICK w : w = chatJob[g].who
        OBVIOUS
      <4>2. w \in People
        BY <4>1 DEF ChatInv, WritersFit, WritesFit
      <4>3. Chats!Accounts(w)' = {}
        BY <2>11, <2>14, <4>1, <4>2 DEF EachHasOne
      <4>4. QED
        BY <1>1, <4>1, <4>3 DEF Chats!Accounts
    <3>3. \A k \in Chats!Exists' : account'[k].phone # None
      BY <2>7, <2>11, <2>14 DEF EachHasOne
    <3>4. \A o \in People : \A k, l \in Chats!Accounts(o)' : k = l
      BY <2>11, <2>14 DEF EachHasOne
    <3>5. QED
      BY <1>1, <2>14, <3>1, <3>2, <3>3, <3>4 DEF EachHasOne, Quiet
  <2>15. ASSUME AllCounted PROVE AllCounted'
    <3>1. Referred' = Referred
      BY <2>7, <2>11 DEF Referred
    <3>2. QED
      BY <1>1, <2>15, <3>1 DEF AllCounted, Quiet, SawTheTotal
  <2>16. QED
    BY <1>1, <2>11, <2>12, <2>13, <2>14, <2>15 DEF ChatInv
<1>5. QED
  BY <1>3, <1>4

\* An account is made under an external id that nobody has.
LEMMA CreateUserKeeps ==
    ASSUME ChatAssumption, ChatInv, NEW h \in Chats!Runners, Chats!CreateUser(h)
    PROVE  ChatInv'
<1>1. PICK p, i : p = chatJob[h].who /\ i = Chats!First(Chats!Ids \ Chats!Exists)
  OBVIOUS
<1>2. PICK x : x = <<Chats!Source(h), p>>
  OBVIOUS
<1>3. /\ chatJob[h].pc = "creating" /\ i # None
      /\ UNCHANGED <<telegram, whatsapp, state, code, total>>
  BY <1>1 DEF Chats!CreateUser
<1>4. /\ chatJob[h] \in ChatJob /\ WritesFit(h, chatJob[h]) /\ chatJob[h].link \in BOOLEAN
      /\ p \in People /\ chatJob[h].phone \in {p} \X Chats!Forms
      /\ h \in Processes => chatJob[h].phone = <<p, "long">>
  BY <1>1, <1>3 DEF ChatInv, WritersFit, WritesFit, ChatJob
<1>5. i \in Chats!Ids /\ i \notin Chats!Exists
  BY <1>1, <1>3, FirstOf
<1>6. /\ x \in Chats!External /\ x[2] = p
      /\ x[1] \in Chats!Forms => h \in Processes /\ x[1] = "long"
  BY <1>2, <1>4 DEF Chats!External, Chats!Source, Chats!Forms, Chats!Runners
<1>7. CASE /\ chatJob' = [chatJob EXCEPT ![h] = Chats!Idle]
           /\ UNCHANGED <<account, disturbed>>
  <2>1. /\ Chats!Exists' = Chats!Exists /\ \A o : Chats!Accounts(o)' = Chats!Accounts(o)
        /\ Referred' = Referred /\ AccountsFit'
        /\ \A g, k : WritesFit(g, k) <=> WritesFit(g, k)'
    BY <1>7, SameAccounts DEF ChatInv
  <2>2. GoesOn(h, Chats!Idle)
    BY <1>3, <1>7, <2>1, IdleFits DEF GoesOn
  <2>3. /\ chatJob' \in [Chats!Runners -> ChatJob]
        /\ \A g \in Chats!Runners : chatJob'[g] = IF g = h THEN Chats!Idle ELSE chatJob[g]
        /\ WritersFit'
        /\ Quiet => Quiet' /\ \A g \in Chats!Runners \ {h} : chatJob[g].pc = "idle"
    BY <2>2, AfterGoingOn
  <2>4. ChatTypes' /\ ChatsFit'
    BY <1>3, <1>7, <2>1, <2>3 DEF ChatInv, ChatTypes, ChatsFit
  <2>5. ASSUME EachHasOne PROVE EachHasOne'
    <3>1. \A q \in Processes, o \in People : Asking(q, o)'
      BY <1>3, <2>1, <2>3, <2>5 DEF EachHasOne, Asking, Chats!Runners
    <3>2. (\A g \in Chats!Runners :
             chatJob[g].pc = "creating" => Chats!Accounts(chatJob[g].who) = {})'
      BY <2>3, <2>5, IdleFits DEF EachHasOne
    <3>3. QED
      BY <1>7, <2>1, <2>3, <2>5, <3>1, <3>2 DEF EachHasOne
  <2>6. ASSUME AllCounted PROVE AllCounted'
    <3>1. \A g \in Chats!Runners : chatJob'[g].pc = "idle"
      BY <2>3, <2>6, IdleFits DEF AllCounted
    <3>2. total = Cardinality(Referred)
      BY <1>3, <2>3, <2>6 DEF AllCounted
    <3>3. QED
      BY <1>3, <2>1, <2>3, <2>6, <3>1, <3>2 DEF AllCounted, SawTheTotal
  <2>7. QED
    BY <1>7, <2>1, <2>3, <2>4, <2>5, <2>6 DEF ChatInv
<1>8. CASE /\ ~Chats!Taken(x)
           /\ account' = [account EXCEPT ![i] = [ext |-> {x}, phone |-> chatJob[h].phone,
                                                 referred |-> chatJob[h].link]]
           /\ chatJob' = [chatJob EXCEPT
                 ![h].pc = IF chatJob[h].link THEN "counting" ELSE "linking", ![h].id = i]
           /\ disturbed' = IF \E q \in Processes \ {h} : state[q][p] # "initial"
                           THEN disturbed \cup {"accounts"} ELSE disturbed
  <2>1. PICK a : a = [ext |-> {x}, phone |-> chatJob[h].phone, referred |-> chatJob[h].link]
    OBVIOUS
  <2>2. /\ a \in Chats!Account /\ a.ext = {x} /\ a.phone = chatJob[h].phone
        /\ a.referred = chatJob[h].link /\ a.phone \in People \X Chats!Forms
    BY <1>4, <1>6, <2>1 DEF Chats!Account
  <2>3. a.phone # None
    BY <2>2 DEF ChatAssumption, Chats!OnboardingAssumption
  <2>4. BecomesTheirs(i, a, p)
    <3>1. \A o \in People : Of(a, o) <=> o = p
      BY <1>4, <1>6, <2>2 DEF Of
    <3>2. \A z \in a.ext : z[1] \in Chats!Forms => a.phone = <<z[2], z[1]>>
      BY <1>4, <1>6, <2>2
    <3>3. \A k \in Chats!Exists : account[k].ext # {x}
      BY <1>6, <1>8, ByExternalIdFinds DEF Chats!Taken
    <3>4. QED
      BY <1>4, <1>5, <1>8, <2>1, <2>2, <3>1, <3>2, <3>3 DEF BecomesTheirs
  <2>5. /\ AccountsFit' /\ Chats!Exists' = Chats!Exists \cup {i}
        /\ \A k \in Chats!Exists' : account'[k] = IF k = i THEN a ELSE account[k]
        /\ \A o \in People : Chats!Accounts(o)' = IF o = p THEN Chats!Accounts(o) \cup {i}
                                                ELSE Chats!Accounts(o)
    BY <2>4, AccountWritten DEF ChatInv
  <2>6. /\ telegram \in [People -> Chats!Exists' \cup {None}]
        /\ whatsapp \in [People -> Chats!Exists' \cup {None}]
        /\ \A o \in People : /\ telegram[o] \in Chats!Accounts(o)' \cup {None}
                             /\ whatsapp[o] \in Chats!Accounts(o)' \cup {None}
        /\ \A g \in Chats!Runners, k \in ChatJob : WritesFit(g, k) => WritesFit(g, k)'
    BY <2>4, AccountsGrow
  <2>7. PICK pc : pc = IF chatJob[h].link THEN "counting" ELSE "linking"
    OBVIOUS
  <2>8. PICK j : j = [chatJob[h] EXCEPT !.pc = pc, !.id = i]
    OBVIOUS
  <2>9. /\ j \in ChatJob /\ j.pc = pc /\ j.who = p /\ j.id = i /\ j.phone = chatJob[h].phone
        /\ j.link = chatJob[h].link /\ j.seen = chatJob[h].seen /\ pc \in {"counting", "linking"}
    BY <1>1, <1>4, <1>5, <2>7, <2>8 DEF ChatJob
  <2>10. chatJob' = [chatJob EXCEPT ![h] = j]
    BY <1>8, <2>7, <2>8
  <2>11. GoesOn(h, j)
    <3>1. i \in Chats!Accounts(p)' /\ account'[i] = a
      BY <1>4, <2>5
    <3>2. WritesFit(h, j)'
      BY <1>4, <2>2, <2>7, <2>9, <3>1 DEF WritesFit
    <3>3. QED
      BY <1>3, <2>6, <2>9, <2>10, <3>2 DEF GoesOn
  <2>12. /\ chatJob' \in [Chats!Runners -> ChatJob]
         /\ \A g \in Chats!Runners : chatJob'[g] = IF g = h THEN j ELSE chatJob[g]
         /\ WritersFit'
         /\ Quiet => Quiet' /\ \A g \in Chats!Runners \ {h} : chatJob[g].pc = "idle"
    BY <2>11, AfterGoingOn
  <2>13. ChatTypes' /\ ChatsFit'
    BY <1>3, <2>6, <2>12 DEF ChatInv, ChatTypes, ChatsFit
  <2>14. ASSUME "accounts" \notin disturbed' PROVE EachHasOne'
    <3>1. EachHasOne /\ \A q \in Processes \ {h} : state[q][p] = "initial"
      BY <1>8, <2>14 DEF ChatInv
    <3>2. Chats!Accounts(p) = {}
      BY <1>1, <1>3, <3>1 DEF EachHasOne
    <3>3. \A q \in Processes, o \in People : Asking(q, o)'
      <4> SUFFICES ASSUME NEW q \in Processes, NEW o \in People, state[q][o] # "initial"
                   PROVE  \/ Chats!Accounts(o)' = {}
                          \/ /\ chatJob'[q].pc \in {"counting", "linking"}
                             /\ chatJob'[q].who = o /\ chatJob'[q].phone # None
        BY <1>3 DEF Asking
      <4>1. CASE o = p
        <5>1. q = h /\ chatJob'[q] = j
          BY <2>12, <3>1, <4>1
        <5>2. QED
          BY <2>2, <2>3, <2>9, <4>1, <5>1
      <4>2. CASE o # p
        <5>1. chatJob[q].pc \notin {"counting", "linking"}
          BY <1>3, <2>12, <3>1 DEF EachHasOne, Chats!Runners
        <5>2. Chats!Accounts(o) = {}
          BY <3>1, <5>1 DEF EachHasOne, Asking
        <5>3. QED
          BY <2>5, <4>2, <5>2
      <4>3. QED
        BY <4>1, <4>2
    <3>4. (\A g \in Chats!Runners :
             chatJob[g].pc = "creating" => Chats!Accounts(chatJob[g].who) = {})'
      BY <2>9, <2>12, <3>1 DEF EachHasOne
    <3>5. \A k \in Chats!Exists' : account'[k].phone # None
      BY <2>3, <2>5, <3>1 DEF EachHasOne
    <3>6. \A o \in People : \A k, l \in Chats!Accounts(o)' : k = l
      BY <2>5, <3>1, <3>2 DEF EachHasOne
    <3>7. QED
      BY <2>12, <3>1, <3>3, <3>4, <3>5, <3>6 DEF EachHasOne
  <2>15. ASSUME AllCounted PROVE AllCounted'
    <3>1. /\ total = Cardinality(Referred)
          /\ \A g \in Chats!Runners \ {h} : chatJob'[g].pc = "idle"
          /\ chatJob[h].link => chatJob[h].seen = total
      BY <1>3, <2>12, <2>15 DEF AllCounted, SawTheTotal
    <3>2. Referred' = IF chatJob[h].link THEN Referred \cup {i} ELSE Referred
      BY <1>4, <1>5, <2>2, <2>5 DEF Referred
    <3>3. IsFiniteSet(Referred) /\ i \notin Referred
      <4>1. IsFiniteSet(Chats!Ids)
        BY FS_Interval DEF ChatAssumption, Chats!OnboardingAssumption, Chats!Ids
      <4>2. QED
        BY <1>5, <4>1, FS_Subset DEF Referred, Chats!Exists
    <3>4. \A g \in Chats!Runners : SawTheTotal(chatJob[g])'
      BY <1>3, <2>9, <2>12, <3>1 DEF SawTheTotal
    <3>5. CASE chatJob[h].link
      <4>1. Cardinality(Referred') = Cardinality(Referred) + 1
        BY <3>2, <3>3, <3>5, FS_AddElement
      <4>2. chatJob'[h].pc = "counting"
        BY <2>7, <2>9, <2>12, <3>5
      <4>3. QED
        BY <1>3, <2>12, <2>15, <3>1, <3>4, <4>1, <4>2 DEF AllCounted
    <3>6. CASE ~chatJob[h].link
      <4>1. \A g \in Chats!Runners : chatJob'[g].pc # "counting"
        BY <2>7, <2>9, <2>12, <3>1, <3>6
      <4>2. QED
        BY <1>3, <2>12, <2>15, <3>1, <3>2, <3>4, <3>6, <4>1 DEF AllCounted
    <3>7. QED
      BY <3>5, <3>6
  <2>16. "count" \notin disturbed' => "count" \notin disturbed
    BY <1>8
  <2>17. QED
    BY <2>5, <2>12, <2>13, <2>14, <2>15, <2>16 DEF ChatInv
<1>9. QED
  BY <1>1, <1>2, <1>7, <1>8 DEF Chats!CreateUser

-----------------------------------------------------------------------------
LEMMA ChatNext ==
    ASSUME ChatAssumption, ChatInv, [Chats!Next]_(Chats!vars)
    PROVE  ChatInv'
<1>1. CASE UNCHANGED Chats!vars
  <2>1. UNCHANGED <<account, telegram, whatsapp, state, code, total, chatJob, disturbed>>
    BY <1>1 DEF Chats!vars
  <2>2. QED
    BY <2>1, ForgettingKeeps
<1>2. CASE \E h \in Threads, p, owner \in People, r \in BOOLEAN : Chats!ShareContact(h, p, owner, r)
  BY <1>2, ShareContactKeeps
<1>3. CASE \E h \in Threads, p \in People : Chats!Greet(h, p)
  BY <1>3, GreetKeeps
<1>4. CASE \E q \in Processes, p \in People, v, r \in BOOLEAN : Chats!Message(q, p, v, r)
  BY <1>4, MessageKeeps
<1>5. CASE \E q \in Processes : Chats!Restart(q)
  BY <1>5, ForgettingKeeps
<1>6. ASSUME NEW h \in Chats!Runners,
             \/ Chats!CreateUser(h) \/ Chats!IncrementRegistrations(h)
             \/ Chats!CompleteUser(h) \/ Chats!LinkChat(h) \/ Chats!Dies(h)
      PROVE  ChatInv'
  BY <1>6, CreateUserKeeps, IncrementKeeps, CompleteUserKeeps, LinkChatKeeps, DiesKeeps
<1>7. ASSUME NEW p \in People,
             Chats!WidgetLogin(p) \/ Chats!VerifyCode(p) \/ Chats!CodeExpires(p)
      PROVE  ChatInv'
  BY <1>7, WidgetLoginKeeps, VerifyCodeKeeps, ForgettingKeeps
<1>8. CASE \E p \in People, form \in Chats!Forms : Chats!SendCode(p, form)
  BY <1>8, ForgettingKeeps
<1>9. QED
  BY <1>1, <1>2, <1>3, <1>4, <1>5, <1>6, <1>7, <1>8 DEF Chats!Next

\* Whose the accounts, chats and handlers are.
THEOREM ChatInvariantHolds == ASSUME ChatAssumption PROVE Chats!Spec => []ChatInv
<1>1. Chats!Init => ChatInv
  BY ChatInit
<1>2. ChatInv /\ [Chats!Next]_(Chats!vars) => ChatInv'
  BY ChatNext
<1>3. QED
  BY <1>1, <1>2, PTL DEF Chats!Spec

\* A behaviour of Inbound about people is one of Onboarding.
AboutPeople == focus = "person"

LEMMA PeopleSteps ==
    [PersonStep \/ LedgerStep]_allVars =>
      /\ AboutPeople => AboutPeople' /\ [Chats!Next]_(Chats!vars)
      /\ ~AboutPeople => ~AboutPeople'
BY DEF AboutPeople, PersonStep, LedgerStep, allVars, peopleVars, Chats!vars

\* Whatever way people come in, by any number of threads and processes: a chat is
\* linked only to an account of its person, an account is one person's and its
\* external id is nobody else's, requests that come one at a time leave a person
\* with one account, and a link counts the accounts it brought.
THEOREM PeopleKeepTheirAccount == InboundSpec => []PeopleKeepOneAccount
<1>0. ChatAssumption
  BY OnboardingAssumed DEF ChatAssumption
<1>1. ASSUME ChatInv PROVE Chats!PeopleKeepOneAccount
  <2>1. Chats!TypeOK
    BY <1>1 DEF ChatInv, ChatTypes, AccountsFit, WritersFit, WritesFit, ChatJob, Chats!TypeOK,
                Chats!Accounts
  <2>2. Chats!ChatsStayPersonal
    <3> SUFFICES ASSUME NEW p \in People, NEW o \in People,
                        telegram[p] \in Chats!Accounts(o) \/ whatsapp[p] \in Chats!Accounts(o)
                 PROVE  p = o
      BY DEF Chats!ChatsStayPersonal
    <3>1. PICK i \in Chats!Accounts(o) : i \in {telegram[p], whatsapp[p]}
      OBVIOUS
    <3>2. i \in Chats!Exists /\ Of(account[i], o) /\ i # None
      <4>1. i \in Chats!Exists /\ Of(account[i], o)
        BY AccountOf
      <4>2. i \in Chats!Ids
        BY <4>1 DEF Chats!Exists
      <4>3. QED
        BY <1>0, <4>1, <4>2 DEF ChatAssumption, Chats!OnboardingAssumption
    <3>3. i \in Chats!Accounts(p)
      BY <1>1, <3>1, <3>2 DEF ChatInv, ChatsFit
    <3>4. Of(account[i], p)
      BY <3>3, AccountOf
    <3>5. QED
      BY <1>1, <3>2, <3>4 DEF ChatInv, AccountsFit
  <2>3. Chats!OneAccount
    <3> SUFFICES ASSUME "accounts" \notin disturbed, NEW p \in People
                 PROVE  Cardinality(Chats!Accounts(p)) <= 1
      BY ChatCardinality DEF Chats!OneAccount
    <3>1. \A i, j \in Chats!Accounts(p) : i = j
      BY <1>1 DEF ChatInv, EachHasOne
    <3>2. CASE Chats!Accounts(p) = {}
      BY <3>2, FS_EmptySet
    <3>3. CASE Chats!Accounts(p) # {}
      <4>1. PICK i : Chats!Accounts(p) = {i}
        BY <3>1, <3>3
      <4>2. Cardinality({i}) = 1
        BY FS_Singleton
      <4>3. QED
        BY <4>1, <4>2
    <3>4. QED
      BY <3>2, <3>3
  <2>4. Chats!RegistrationsCounted
    <3> SUFFICES ASSUME "count" \notin disturbed,
                        \A h \in Chats!Runners : chatJob[h].pc = "idle"
                 PROVE  total = Cardinality(Referred)
      BY ChatCardinality DEF Chats!RegistrationsCounted, Referred
    <3>1. QED
      BY <1>1 DEF ChatInv, AllCounted
  <2>5. QED
    BY <2>1, <2>2, <2>3, <2>4 DEF Chats!PeopleKeepOneAccount
<1>2. InboundInit /\ AboutPeople => Chats!Init
  BY DEF InboundInit, AboutPeople
<1>3. QED
  BY <1>0, <1>1, <1>2, PeopleSteps, ChatInvariantHolds, PTL
     DEF InboundSpec, PeopleKeepOneAccount, Chats!Spec, AboutPeople
=============================================================================
