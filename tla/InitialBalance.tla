--------------------------- MODULE InitialBalance ---------------------------
(***************************************************************************)
(* "How much have I left?": compute_balance over the movements of a user   *)
(* who may declare, at any moment, how much money there is.  From then on  *)
(* the balance of that currency starts at the declared amount.  Movements  *)
(* are numbered in the order they are recorded (created_at, id).           *)
(***************************************************************************)
EXTENDS FinanceCalendar, Functions

CONSTANTS
    Amount,             \* amounts of the movements, by number
    Currencies,
    CARRY_OVER_DAYS,
    FirstHour, LastHour, \* the hours the instance lives through
    Backdates           \* how many days ago a movement may be dated

\* Assumed by the modules that give the constants their values.
BalanceAssumption ==
    /\ DOMAIN Amount \subseteq Nat /\ \A i \in DOMAIN Amount : Amount[i] \in Nat
    /\ CARRY_OVER_DAYS \in Nat
    /\ FirstHour \in Int /\ LastHour \in Int /\ FirstHour <= LastHour
    /\ Backdates \subseteq Nat
    /\ \E first \in MonthStarts : first <= LocalDay(FirstHour)

VARIABLES
    rows,           \* Expense and Income rows
    last,           \* number of the movement recorded last
    now,
    wallet          \* what the user has, since the last declaration (observed)

vars == <<rows, last, now, wallet>>

Nothing == [known |-> FALSE, anchor |-> 0, since |-> 0, money |-> 0]
Today == LocalDay(now)
Kinds == {"expense", "income", "initial"}

TypeOK ==
    /\ rows \subseteq [id : DOMAIN Amount, kind : Kinds, amount : Nat,
                       currency : Currencies, date : Int \cup {NoDate}, ts : Int]
    /\ \A r \in rows : r.id <= last
    /\ last \in DOMAIN Amount \cup {0}
    /\ now \in FirstHour..LastHour
    /\ wallet \in [Currencies ->
         [known : BOOLEAN, anchor : Nat, since : Int, money : Int]]

Init ==
    /\ rows = {} /\ last = 0 /\ now = FirstHour
    /\ wallet = [c \in Currencies |-> Nothing]

Total(set) == SumFunction([r \in set |-> r.amount])

-----------------------------------------------------------------------------
(* compute_balance                                                         *)

IsInitial(row) == row.kind = "initial"
Incomes == {r \in rows : r.kind # "expense"}
Expenses == {r \in rows : r.kind = "expense"}

\* latest_initial_balances: the newest by date, then by creation.
Newer(a, b) == \/ EffectiveDate(a) > EffectiveDate(b)
               \/ EffectiveDate(a) = EffectiveDate(b) /\ a.id > b.id
Anchors(currency, from, to) ==
    LET declared == {r \in rows : /\ IsInitial(r) /\ r.currency = currency
                                  /\ from = NoDate \/ EffectiveDate(r) >= from
                                  /\ to = NoDate \/ EffectiveDate(r) <= to}
    IN  {a \in declared : \A b \in declared \ {a} : Newer(a, b)}

\* Mutant of AfterAnchor: a whole day, whichever came first in it.
FromTheDay(row, anchor) ==
    LET day == EffectiveDate(anchor)
    IN  IF row.date # NoDate THEN row.date >= day ELSE row.ts >= DayStart(day)

\* _after_anchor
AfterAnchor(row, anchor) ==
    LET day == EffectiveDate(anchor)
    IN  IF row.date # NoDate
        THEN row.date > day \/ (row.date = day /\ row.id > anchor.id)
        ELSE \/ row.ts >= DayStart(day + 1)
             \/ row.ts >= DayStart(day) /\ row.id > anchor.id

\* telegrambot.tools._filter_by_period
Between(set, from, to) ==
    {r \in set : /\ from = NoDate \/ EffectiveDate(r) >= from
                 /\ to = NoDate \/ EffectiveDate(r) <= to}

\* The balance of one currency from the declaration that counts, if one does:
\* the newest of the period, or one carried into a period that begins a month.
BalanceFrom(currency, from, to, whole) ==
    LET own == IF whole THEN {} ELSE Anchors(currency, from, to)
        carried == IF from # NoDate /\ from \in MonthStarts /\ own = {}
                   THEN Anchors(currency, from - CARRY_OVER_DAYS, from - 1)
                   ELSE {}
        Counts(row) == row.currency = currency
        first == IF carried = {} THEN from
                 ELSE EffectiveDate(CHOOSE a \in carried : TRUE)
        spent == Between({r \in Expenses : Counts(r)}, first, to)
        earned == Between({r \in Incomes : Counts(r)}, first, to)
        Since(set, a) == {r \in set : AfterAnchor(r, a)}
    IN  IF own \cup carried = {} THEN Total(earned) - Total(spent)
        ELSE LET a == CHOOSE x \in own \cup carried : TRUE
             IN  Total({r \in earned : \/ r = a
                                       \/ AfterAnchor(r, a) /\ ~IsInitial(r)})
                   - Total(Since(spent, a))

\* The dates asked for may be missing.
ComputeBalance(currency, start, end, whole) ==
    LET month == start = NoDate /\ end = NoDate /\ ~whole
        from == IF whole THEN NoDate ELSE IF month THEN MonthStart(Today) ELSE start
        to == IF whole THEN NoDate
              ELSE IF month \/ (start # NoDate /\ end = NoDate) THEN Today ELSE end
    IN  BalanceFrom(currency, from, to, whole)

-----------------------------------------------------------------------------
(* The movements.                                                          *)

Row(kind, currency, date) ==
    [id |-> last + 1, kind |-> kind, amount |-> Amount[last + 1],
     currency |-> currency, date |-> date, ts |-> now]

Signed(row) == IF row.kind = "expense" THEN 0 - row.amount ELSE row.amount

\* set_initial_balance: an income, marked by its note and dated today.
Declare(currency) ==
    /\ last + 1 \in DOMAIN Amount
    /\ rows' = rows \cup {Row("initial", currency, Today)}
    /\ last' = last + 1
    /\ wallet' = [wallet EXCEPT ![currency] =
         [known |-> TRUE, anchor |-> last + 1, since |-> Today,
          money |-> Amount[last + 1]]]
    /\ UNCHANGED now

\* A movement dated before the declaration is already part of what was declared.
Record(kind, currency, date) ==
    LET row == Row(kind, currency, date)
    IN  /\ last + 1 \in DOMAIN Amount
        /\ rows' = rows \cup {row}
        /\ last' = last + 1
        /\ wallet' = IF \/ ~wallet[currency].known
                        \/ EffectiveDate(row) < wallet[currency].since
                     THEN wallet
                     ELSE [wallet EXCEPT ![currency].money = @ + Signed(row)]
        /\ UNCHANGED now

Delete(row) ==
    LET w == wallet[row.currency]
        counted == w.known /\ row.id > w.anchor /\ EffectiveDate(row) >= w.since
    IN  /\ rows' = rows \ {row}
        /\ wallet' =
             IF row.id = w.anchor
             THEN [wallet EXCEPT ![row.currency] = Nothing]
             ELSE IF counted
             THEN [wallet EXCEPT ![row.currency].money = @ - Signed(row)]
             ELSE wallet
        /\ UNCHANGED <<last, now>>

Tick ==
    /\ now < LastHour
    /\ now' = now + 1
    /\ UNCHANGED <<rows, last, wallet>>

Next ==
    \/ \E c \in Currencies :
         \/ Declare(c)
         \/ \E k \in {"expense", "income"} :
              \E d \in {NoDate} \cup {Today - b : b \in Backdates} : Record(k, c, d)
    \/ \E r \in rows : Delete(r)
    \/ Tick

Spec == Init /\ [][Next]_vars

-----------------------------------------------------------------------------
\* The balance the user is told is the money the user has: the declared amount
\* with what came after it, each movement once.  Said of a declaration of this
\* month or of the last days of the month before ("Un saldo inicial declarado
\* en los ultimos dias del mes anterior se arrastra al saldo del mes").
BalanceIsTheWallet ==
    \A c \in Currencies :
        LET w == wallet[c]
        IN  (w.known /\ w.since >= MonthStart(Today) - CARRY_OVER_DAYS)
              => ComputeBalance(c, NoDate, NoDate, FALSE) = w.money

\* Asking about the month by its dates gives what asking without dates gives.
ExplicitMonthIsTheDefault ==
    \A c \in Currencies :
        ComputeBalance(c, MonthStart(Today), NoDate, FALSE)
          = ComputeBalance(c, NoDate, NoDate, FALSE)

\* The user can rely on the balance, however it is asked for.
BalanceIsSound == TypeOK /\ BalanceIsTheWallet /\ ExplicitMonthIsTheDefault
=============================================================================
