--------------------------- MODULE FinanceRecords ---------------------------
(***************************************************************************)
(* The expenses and incomes of one user, as the serializers, the agent's   *)
(* tools and the views write them, and what the reports answer at each     *)
(* moment.  A category is its name here; module Categories opens it up.    *)
(***************************************************************************)
EXTENDS FinanceReports

CONSTANTS
    Ids,                \* rows the user may create (bound)
    Amount,             \* [Ids -> Nat]
    Currencies,
    Stamps,             \* the instants a client stamps rows with
    UserNames,          \* names of user categories
    GlobalNames,        \* names of global categories
    Customs,            \* custom ranges asked for
    FirstHour, LastHour \* the hours the instance lives through

ASSUME RecordsAssumption ==
    /\ Amount \in [Ids -> Nat \ {0}]
    /\ Stamps \subseteq Int /\ FirstHour \in Int /\ LastHour \in Int
    /\ FirstHour <= LastHour
    /\ Customs \subseteq Int \X Int
    /\ NoName \notin UserNames \cup GlobalNames

\* The calendar goes back to the first week that a report of the days lived looks
\* at, and on to a next year.
ASSUME HorizonAssumption ==
    \E first \in YearStarts :
      /\ \A range \in Customs : first <= WeekStart(range[1])
      /\ \A h \in FirstHour..LastHour :
           LET day == LocalDay(h)
           IN  /\ first <= WeekStart(day - YearSpan)
               /\ \E y, z \in YearStarts : first <= WeekStart(y) /\ y < z /\ z <= day
               /\ \E next \in YearStarts : day < next

VARIABLES rows, now

vars == <<rows, now>>

Kinds == {"expense", "income"}
Today == LocalDay(now)

TypeOK ==
    /\ rows \subseteq
         [id : Ids, kind : Kinds, amount : Nat, currency : Currencies,
          ts : Stamps, date : Int \cup {NoDate},
          user : UserNames \cup GlobalNames \cup {NoName},
          legacy : GlobalNames \cup {NoName},
          str : UserNames \cup {NoName}]
    /\ \A r, s \in rows : r.id = s.id => r = s
    /\ now \in FirstHour..LastHour

Init == rows = {} /\ now = FirstHour

\* user_category_name gives the row a user category; category_name a global
\* one and a user category of the same name.
Named(row, name, global) ==
    IF name = NoName THEN row
    ELSE IF global THEN [row EXCEPT !.legacy = name, !.user = name]
    ELSE [row EXCEPT !.user = name]

NewRow(id, kind, ts, date, currency) ==
    [id |-> id, kind |-> kind, amount |-> Amount[id], currency |-> currency,
     ts |-> ts, date |-> date, user |-> NoName, legacy |-> NoName, str |-> NoName]

Names(global) == IF global THEN GlobalNames ELSE UserNames \cup {NoName}
Dates(ts) == {NoDate, LocalDay(ts), Today}

CreateExpense(id, ts, date, currency, name, global) ==
    /\ \A r \in rows : r.id # id
    /\ ts <= now
    /\ rows' = rows \cup
         {Named(NewRow(id, "expense", ts, date, currency), name, global)}
    /\ UNCHANGED now

CreateIncome(id, ts, date, currency, name, global) ==
    /\ \A r \in rows : r.id # id
    /\ ts <= now
    /\ rows' = rows \cup
         {Named(NewRow(id, "income", ts, date, currency), name, global)}
    /\ UNCHANGED now

\* The agent's tools stamp a row with the present, always date it, and copy the
\* name of the category into category_str.
AgentDates == {LocalDay(ts) : ts \in Stamps} \cup {Today}

CreateByAgent(id, kind, date, currency, name) ==
    /\ \A r \in rows : r.id # id
    /\ now \in Stamps
    /\ rows' = rows \cup
         {[NewRow(id, kind, now, date, currency) EXCEPT !.user = name, !.str = name]}
    /\ UNCHANGED now
CreateExpenseByAgent(id, date, currency, name) ==
    CreateByAgent(id, "expense", date, currency, name)
CreateIncomeByAgent(id, date, currency, name) ==
    CreateByAgent(id, "income", date, currency, name)

\* A date that is not given stays.
UpdateByAgent(row, date, name) ==
    /\ rows' = (rows \ {row})
         \cup {[row EXCEPT !.user = name, !.str = name, !.date = date]}
    /\ UNCHANGED now
UpdateExpenseByAgent(row, date, name) ==
    row.kind = "expense" /\ UpdateByAgent(row, date, name)
UpdateIncomeByAgent(row, date, name) ==
    row.kind = "income" /\ UpdateByAgent(row, date, name)

\* That an update may replace the amount too is left out: the reports do not tell
\* an updated row from one created that way.
UpdateCategory(row, name, global) ==
    /\ rows' = (rows \ {row}) \cup {Named(row, name, global)}
    /\ UNCHANGED now
UpdateExpense(row, name, global) ==
    row.kind = "expense" /\ UpdateCategory(row, name, global)
UpdateIncome(row, name, global) ==
    row.kind = "income" /\ UpdateCategory(row, name, global)

Destroy(row) ==
    /\ rows' = rows \ {row}
    /\ UNCHANGED now
DestroyExpense(row) == row.kind = "expense" /\ Destroy(row)
DestroyIncome(row) == row.kind = "income" /\ Destroy(row)

\* The foreign keys are set to null when a user category is deleted.
DeleteCategory(name) ==
    /\ rows' = {IF r.user = name THEN [r EXCEPT !.user = NoName] ELSE r : r \in rows}
    /\ UNCHANGED now

Tick ==
    /\ now < LastHour
    /\ now' = now + 1
    /\ UNCHANGED rows

Write ==
    \/ \E id \in Ids, c \in Currencies :
         \/ \E ts \in Stamps, g \in BOOLEAN : \E date \in Dates(ts), n \in Names(g) :
              \/ CreateExpense(id, ts, date, c, n, g)
              \/ CreateIncome(id, ts, date, c, n, g)
         \/ \E date \in AgentDates, n \in UserNames :
              \/ CreateExpenseByAgent(id, date, c, n)
              \/ CreateIncomeByAgent(id, date, c, n)
    \/ \E r \in rows :
         \/ DestroyExpense(r) \/ DestroyIncome(r)
         \/ \E g \in BOOLEAN : \E n \in Names(g) :
              UpdateExpense(r, n, g) \/ UpdateIncome(r, n, g)
         \/ \E date \in AgentDates \cup {r.date}, n \in UserNames :
              UpdateExpenseByAgent(r, date, n) \/ UpdateIncomeByAgent(r, date, n)
    \/ \E n \in UserNames : DeleteCategory(n)

Next == Write \/ Tick

Spec == Init /\ [][Next]_vars

-----------------------------------------------------------------------------
(* What the reports promise.                                               *)

Query(filter, custom, group) ==
    [filter |-> filter, custom |-> custom, group |-> group,
     category |-> NoName, limit |-> NoLimit]
Queries == {Query(f, <<Today, Today>>, NoName) : f \in Filters \ {"custom"}}
             \cup {Query("custom", c, NoName) : c \in Customs}

\* A row stamped on the day its movement is dated.
Punctual(row) == row.date = NoDate \/ row.date = LocalDay(row.ts)

Spent == OfKind(rows, "expense")

\* The dashboard and the agent give one total for one period: the donut, the
\* bars, the stacked bars and get_expense_totals agree on every window
\* ("_filter_by_period: el MISMO criterio que el dashboard").
SameTotalEverywhere ==
    \A q \in Queries : q.filter \notin {"all", "custom"} =>
        LET window == Window(q.filter, q.custom, Today)
            total == DonutOfExpenses(rows, q, Today).total_amount
        IN  /\ BarOfExpenses(rows, q, Today).total_amount = total
            /\ StackedOfExpenses(rows, q, Today).total_amount = total
            /\ SumFunction(AgentTotals(rows, "expense", window[1], window[2])) = total

\* The points of an income chart add up to what was received in its window,
\* whatever the hour and wherever weeks and months begin: no income falls
\* between two points and none is shown by two, as long as no two points carry
\* the same label.
IncomeChartsAddUp ==
    \A q \in Queries :
        LET window == Window(q.filter, q.custom, Today)
            received == Total(StampedIncomes(rows, q, Today))
            stacked == StackedOfIncomes(rows, q, Today).data
        IN  /\ LineOfIncomes(rows, q, Today).total_amount = received
            /\ \/ SumFunction([n \in DOMAIN stacked |-> SumFunction(stacked[n])]) = received
               \/ ~LabelsAreDistinct(StackedGroup(q, window), window)

\* The same of the expenses when each was stamped on its own day.
PunctualExpensesAddUp ==
    (\A r \in Spent : Punctual(r)) =>
        \A q \in Queries :
            LET in == LineExpenses(rows, q, Today)
            IN  LineOfExpenses(rows, q, Today).total_amount = Total(in)

\* The month's comparison ends at the month's total, never comes down, and
\* agrees with the summary, when every expense was stamped on its own day.
ComparisonMeetsTheSummary ==
    (\A r \in Spent : Punctual(r)) =>
        LET comparison == MonthlyComparison(rows, Today)
            line == comparison.cumulative
        IN  /\ \A month \in {NoDate, Today} :
                 Summary(Spent, SummaryWindow(month, 1, Today)).total
                   = comparison.total_expenses_to_date
            /\ \A d \in DOMAIN line : d + 1 \in DOMAIN line => line[d] <= line[d + 1]

\* The categories of the month's incomes add up to their total, also when two
\* groups go by one name (a user category and a global one).
IncomeSummaryAddsUp ==
    LET summary == IncomeMonthSummary(rows, Today)
    IN  SumFunction(summary.by_category) = summary.total

\* The insights and the agent's totals of the current month agree on every
\* currency while all rows have a date, and the agent's categories leave out
\* only what has no user category.
InsightsMatchTotals ==
    (\A r \in rows : r.date # NoDate) =>
        \A c \in Currencies :
            LET spent == AgentTotals(rows, "expense", MonthStart(Today), Today)
                earned == AgentTotals(rows, "income", MonthStart(Today), Today)
                insights == MonthlyInsights(rows, Today, c, Today)
            IN  /\ insights.expenses = IF c \in DOMAIN spent THEN spent[c] ELSE 0
                /\ SumFunction(insights.top_categories) = insights.expenses
                /\ SumFunction(TopCategories(rows, MonthStart(Today), Today))
                     + ExpensesByCategory(rows, NoName, MonthStart(Today), Today)
                     = SumFunction(spent)
                /\ SumFunction(TopIncomeCategories(rows, MonthStart(Today), Today))
                     + IncomesByCategory(rows, NoName, MonthStart(Today), Today)
                     = SumFunction(earned)

\* The use of categories is counted from the rows the totals count: while all
\* rows have a date, what user categories were used for since a day, the rows
\* with none and nothing else make up the agent's totals.
UsageMeetsTotals ==
    (\A r \in rows : r.date # NoDate) =>
        \A kind \in Kinds, since \in {MonthStart(Today), Today} :
            LET usage == IF kind = "expense" THEN UsageOfExpenseCategories(rows, since)
                         ELSE UsageOfIncomeCategories(rows, since)
                popular == IF kind = "expense" THEN PopularExpenseCategories(rows, 1)
                           ELSE PopularIncomeCategories(rows, 1)
                unnamed == {r \in FilterByPeriod(OfKind(rows, kind), since, NoDate) :
                              r.user = NoName}
            IN  /\ SumFunction([n \in DOMAIN usage |-> usage[n].total]) + Total(unnamed)
                     = SumFunction(AgentTotals(rows, kind, since, NoDate))
                /\ \A n \in DOMAIN usage : popular # <<>> /\
                     \A p \in DOMAIN popular : usage[n].count <= popular[p]

\* A movement counts in this week, month or year or in the one before, never in
\* both, and none that is dated between their first and last day is in neither.
WindowsTile ==
    \A pair \in {<<"previous_week", "current_week">>,
                 <<"previous_month", "current_month">>,
                 <<"previous_year", "current_year">>,
                 <<"yesterday", "today">>} :
        LET before == Window(pair[1], <<>>, Today)
            after == Window(pair[2], <<>>, Today)
            Dated(r) == EffectiveDate(r) \in before[1]..after[2]
            InBefore == FilterByDateRange(rows, before)
            InAfter == FilterByDateRange(rows, after)
        IN  /\ InBefore \cap InAfter = {}
            /\ {r \in rows : Dated(r)} = InBefore \cup InAfter

\* The dashboard: its windows cut time without gap or overlap, and what is drawn
\* of one adds up to its total.
ChartsAgree ==
    /\ TypeOK
    /\ WindowsTile
    /\ SameTotalEverywhere
    /\ IncomeChartsAddUp
    /\ PunctualExpensesAddUp

\* The summaries, insights and tools of the agent: computed apart, they add up
\* to one total.
SummariesAgree ==
    /\ ComparisonMeetsTheSummary
    /\ IncomeSummaryAddsUp
    /\ InsightsMatchTotals
    /\ UsageMeetsTotals

-----------------------------------------------------------------------------
(* What is not kept (see the README): no run checks these.                 *)

\* The names of an expense summary add up to its total.
SummaryAddsUp ==
    LET summary == Summary(Spent, SummaryWindow(Today, 1, Today))
    IN  SumFunction(summary.by_category) = summary.total

\* A bar chart of a custom range shows the expenses of that range.
CustomBarsAreFiltered ==
    \A c \in Customs :
        LET q == Query("custom", c, NoName)
        IN  BarExpenses(rows, q, Today) = DonutExpenses(rows, q, Today)

\* Every expense in the window of a line chart is on the line.
ExpenseLinesAddUp ==
    \A q \in Queries :
        LineOfExpenses(rows, q, Today).total_amount = Total(LineExpenses(rows, q, Today))

\* A stacked chart shows each expense once.
StackedBarsAddUp ==
    \A q \in Queries :
        LET chart == StackedOfExpenses(rows, q, Today)
        IN  (\A r \in Spent : Punctual(r)) =>
                SumFunction([n \in DOMAIN chart.data |-> SumFunction(chart.data[n])])
                    = chart.total_amount

\* The weekly chart is answered.
WeeklyIsServed == WeeklyByCategory(Spent, Today).ok

\* The income bars show what the income donut shows.
IncomeBarsMatchDonut ==
    \A q \in Queries : BarOfIncomes(rows, q, Today).total_amount
                         = DonutOfIncomes(rows, q, Today).total_amount

\* The agent's income totals are those of the dashboard.
IncomeTotalsAgree ==
    \A q \in Queries : q.filter # "all" =>
        LET window == Window(q.filter, q.custom, Today)
        IN  SumFunction(AgentTotals(rows, "income", window[1], window[2]))
              = DonutOfIncomes(rows, q, Today).total_amount

\* An income of last month moves the average.
AverageCountsPreviousMonth ==
    LET s == IncomeStatistics(rows, 1, Today)
    IN  s.previous > 0 => s.average[1] > s.current

\* The donut and the stacked chart name the same categories.
ChartsNameAlike ==
    \A q \in Queries : q.filter \notin {"all", "custom"} =>
        {GroupName(g) : g \in DOMAIN DonutOfExpenses(rows, q, Today).slices}
          = DOMAIN StackedOfExpenses(rows, q, Today).data
=============================================================================
