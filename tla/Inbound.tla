------------------------------ MODULE Inbound ------------------------------
(***************************************************************************)
(* What reaches the system from outside: people, each of whom gets one     *)
(* account (Onboarding), and the transactions of Wallbit, each of which    *)
(* gets one row (InvestmentLedger).  A behaviour is about one of them      *)
(* (focus); the other has no state, or its first one, in it.               *)
(***************************************************************************)
EXTENDS InvestmentLedger

CONSTANTS People, Listed, Threads, Processes, MaxAccounts, None     \* of people

VARIABLES
    focus,
    account, telegram, whatsapp, state, code, total, chatJob, disturbed

peopleVars ==
    <<account, telegram, whatsapp, state, code, total, chatJob, disturbed>>
allVars == <<focus, vars, peopleVars>>

Chats == INSTANCE Onboarding WITH job <- chatJob

ASSUME OnboardingAssumed == Chats!OnboardingAssumption

Unused == "no state"
InboundInit ==
    /\ focus \in {"person", "ledger"}
    /\ Init
    /\ IF focus = "person" THEN Chats!Init
       ELSE /\ account = Unused /\ telegram = Unused /\ whatsapp = Unused
            /\ state = Unused /\ code = Unused /\ total = Unused
            /\ chatJob = Unused /\ disturbed = Unused

PersonStep == focus = "person" /\ Chats!Next /\ UNCHANGED <<focus, vars>>
LedgerStep == focus = "ledger" /\ Next /\ UNCHANGED <<focus, peopleVars>>

InboundSpec == InboundInit /\ [][PersonStep \/ LedgerStep]_allVars

-----------------------------------------------------------------------------
(* The property of people; those of the ledger have their own names.       *)

\* A chat is linked only to an account of its person, requests that come one at
\* a time leave a person with one account, and a link counts those it brought.
PeopleKeepOneAccount == focus = "person" => Chats!PeopleKeepOneAccount
=============================================================================
