------------------------------ MODULE Records ------------------------------
(***************************************************************************)
(* What a user records: the movements and the reports about them, the      *)
(* balance the user is told, the mails that become expenses, and the       *)
(* categories.  A behaviour is about one of them (focus).                  *)
(***************************************************************************)
EXTENDS FinanceRecords

CONSTANTS
    BalanceAmount, BalanceCurrencies, CARRY_OVER_DAYS,  \* of the balance
    BalanceFirst, BalanceLast, Backdates,
    Emails, Reference, Tasks, Handlers,                 \* of the mails
    MaxDeliveries, MaxRetries, MaxKills,
    Workers, Keys, DefaultKeys, Otros, Spellings, Title, MaxCategory,   \* of categories
    Movements, Starts, Asked,
    None                                                \* of the mails and categories

VARIABLES
    focus,
    movements, last, hour, wallet,
    pe, expenses, job, handler, reply, sent, told, made, failed, kills,
    table, cats, lastId, filed, categoryJob

balanceVars == <<movements, last, hour, wallet>>
mailVars ==
    <<pe, expenses, job, handler, reply, sent, told, made, failed, kills>>
categoryVars == <<table, cats, lastId, filed, categoryJob>>
allVars == <<focus, vars, balanceVars, mailVars, categoryVars>>

Balance == INSTANCE InitialBalance WITH
    Amount <- BalanceAmount, Currencies <- BalanceCurrencies,
    FirstHour <- BalanceFirst, LastHour <- BalanceLast, rows <- movements, now <- hour
Mail == INSTANCE GmailPipeline
Category == INSTANCE Categories WITH job <- categoryJob

ASSUME BalanceAssumed == Balance!BalanceAssumption
ASSUME MailAssumed == Mail!GmailAssumption
ASSUME CategoriesAssumed == Category!CategoriesAssumption

Unused == "no state"
RecordsInit ==
    /\ focus \in {"report", "balance", "mail", "category"}
    /\ Init
    /\ IF focus = "balance" THEN Balance!Init
       ELSE /\ movements = Unused /\ last = Unused /\ hour = Unused
            /\ wallet = Unused
    /\ IF focus = "mail" THEN Mail!Init
       ELSE /\ pe = Unused /\ expenses = Unused /\ job = Unused
            /\ handler = Unused /\ reply = Unused /\ sent = Unused
            /\ told = Unused /\ made = Unused /\ failed = Unused
            /\ kills = Unused
    /\ IF focus = "category" THEN Category!Init
       ELSE /\ table = Unused /\ cats = Unused /\ lastId = Unused
            /\ filed = Unused /\ categoryJob = Unused

ReportStep ==
    /\ focus = "report" /\ Next
    /\ UNCHANGED <<focus, balanceVars, mailVars, categoryVars>>
BalanceStep ==
    /\ focus = "balance" /\ Balance!Next
    /\ UNCHANGED <<focus, vars, mailVars, categoryVars>>
MailStep ==
    /\ focus = "mail" /\ Mail!Next
    /\ UNCHANGED <<focus, vars, balanceVars, categoryVars>>
CategoryStep ==
    /\ focus = "category" /\ Category!Next
    /\ UNCHANGED <<focus, vars, balanceVars, mailVars>>

RecordsSpec ==
    RecordsInit /\ [][ReportStep \/ BalanceStep \/ MailStep \/ CategoryStep]_allVars

-----------------------------------------------------------------------------
(* The properties of each part, where the behaviour is about it.           *)

\* The dashboard's windows cut time without gap or overlap, and what is drawn of
\* one adds up to its total.
ReportedChartsAgree == focus = "report" => ChartsAgree
\* The summaries, insights and tools of the agent add up to one total.
ReportedSummariesAgree == focus = "report" => SummariesAgree

\* The balance the user is told is the money the user has, and naming the
\* current month asks for the same as naming none.
BalanceIsSound == focus = "balance" => Balance!BalanceIsSound

\* Two mails about one purchase register one expense, and no mail registers two
\* unless an attempt raised.
PurchasesRecordedOnce == focus = "mail" => Mail!PurchasesRecordedOnce

\* No request gives the user a second category of a name, what the agent records
\* goes under the name it asked for, and cleaning duplicates takes no name away.
CategoriesHold ==
    [][focus = "category"
         => Category!NameIsNew /\ Category!FiledAsAsked /\ Category!NamesKept]_categoryVars
=============================================================================
