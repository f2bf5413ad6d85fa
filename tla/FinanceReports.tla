--------------------------- MODULE FinanceReports ---------------------------
(***************************************************************************)
(* What the endpoints of expenses/views.py and income/views.py answer, the *)
(* totals the agent's tools report and the monthly insights, as functions  *)
(* of the user's rows.  A row is an expense or an income:                  *)
(*   date   spent_at or received_at, NoDate if null                        *)
(*   ts     the instant it is stamped with                                 *)
(*   user   the name of its user category, NoName if it has none           *)
(*   legacy the name of its global category, NoName if it has none         *)
(*   str    category_str                                                   *)
(* Colours, descriptions and the rows listed under a chart are left out.   *)
(***************************************************************************)
EXTENDS FinanceCalendar, Functions

CONSTANTS
    NoName,
    LineDayMax,         \* 60: the longest range a line chart draws by day
    StackedDayMax,      \* 31: the same for a stacked bar chart
    WeekMax             \* 365: the longest range drawn by week

\* A year is longer than a week and than what a line draws by day, and no years
\* as short as what is drawn by week are a whole number of weeks.
ASSUME YearsAssumption ==
    /\ LineDayMax \in Nat /\ StackedDayMax \in Nat /\ WeekMax \in Nat
    /\ \A y, z \in YearStarts : y < z =>
         /\ z - y > LineDayMax /\ z - y >= WeekDays
         /\ z - y >= WeekMax + WeekDays \/ (z - y) % WeekDays # 0

Other == "Otros"
NoLimit == -1

\* A sum of amounts.
Total(rows) == SumFunction([r \in rows |-> r.amount])

\* Sums by some key: SQL's GROUP BY.
SumBy(rows, Key(_)) ==
    [k \in {Key(r) : r \in rows} |-> Total({r \in rows : Key(r) = k})]

\* Some set of n keys of f that no other key exceeds: ORDER BY ... LIMIT n.
Largest(f, n) ==
    IF n = NoLimit \/ n >= Cardinality(DOMAIN f) THEN DOMAIN f
    ELSE CHOOSE s \in SUBSET DOMAIN f :
            /\ Cardinality(s) = n
            /\ \A in \in s, out \in DOMAIN f \ s : f[in] >= f[out]

FirstName(names, fallback) ==
    IF names[1] # NoName THEN names[1]
    ELSE IF names[2] # NoName THEN names[2]
    ELSE IF names[3] # NoName THEN names[3] ELSE fallback

\* get_expense_category_name and get_income_category_name
CategoryName(row) ==
    FirstName(<<row.user, row.legacy, row.str>>,
              IF row.kind = "expense" THEN Other ELSE "Sin categoria")

\* The name an aggregation gives its groups: category_str is not looked at.
Group(row) == <<row.user, row.legacy>>
GroupName(group) == FirstName(<<group[1], group[2], NoName>>, Other)

OfKind(rows, kind) == {r \in rows : r.kind = kind}
OfCategory(rows, category) ==
    IF category = NoName THEN rows ELSE {r \in rows : r.legacy = category}

-----------------------------------------------------------------------------
(* Expenses.  A query q has a filter, a custom range, a group_by (NoName if *)
(* none), a category and a limit.                                          *)

FilterByDateRange(rows, window) == {r \in rows : InPeriod(r, window)}

ByCategory(rows) == SumBy(rows, Group)

\* Mutant of SummaryWindow: one month too many.
OneMonthBack(month, months, today) ==
    IF month # NoDate THEN <<MonthStart(month), MonthEnd(month)>>
    ELSE <<MonthsBack(months, today), NoDate>>

\* A month, or from the first day of the month that many months ago.
SummaryWindow(month, months, today) ==
    IF month # NoDate THEN <<MonthStart(month), MonthEnd(month)>>
    ELSE <<MonthsBack(IF months > 0 THEN months - 1 ELSE 0, today), NoDate>>

\* by_category goes by name: a name two groups share keeps the last one.
Summary(rows, window) ==
    LET in == IF window[2] # NoDate THEN FilterByDateRange(rows, window)
              ELSE {r \in rows : IF r.date = NoDate THEN r.ts >= DayStart(window[1])
                                 ELSE r.date >= window[1]}
        sums == ByCategory(in)
        Later(g) == {h \in DOMAIN sums :
                        GroupName(h) = GroupName(g) /\ sums[h] < sums[g]}
        last == {g \in DOMAIN sums : Later(g) = {}}
    IN  [by_category |-> [n \in {GroupName(g) : g \in last} |->
                            sums[CHOOSE g \in last : GroupName(g) = n]],
         total |-> Total(in)]

\* One column for each week of a month; an expense whose stamp lies in none of
\* them, or whose legacy name is no column's row, ends in an error.
WeeklyByCategory(rows, month) ==
    LET window == <<MonthStart(month), MonthEnd(month)>>
        in == FilterByDateRange(rows, window)
        weeks == {WeekStart(d) : d \in window[1]..window[2]}
        names == {CategoryName(r) : r \in in}
        Week(r) == WeekStart(UtcDay(r.ts))
        Name(r) == IF r.legacy # NoName THEN r.legacy ELSE Other
    IN  [ok |-> \A r \in in : Week(r) \in weeks /\ Name(r) \in names,
         totals |-> [w \in weeks |-> [n \in names |->
            Total({r \in in : Week(r) = w /\ Name(r) = n})]]]

DonutExpenses(rows, q, today) ==
    LET chosen == OfCategory(OfKind(rows, "expense"), q.category)
    IN  IF q.filter = "all" THEN chosen
        ELSE FilterByDateRange(chosen, Window(q.filter, q.custom, today))

\* The slices of a pie or the bars of a bar chart, and their sum.
Slices(rows, limit) ==
    LET sums == ByCategory(rows)
        kept == Largest(sums, limit)
        slices == [g \in kept |-> sums[g]]
    IN  [slices |-> slices, total_amount |-> SumFunction(slices),
         total_count |-> Cardinality(rows),
         totals_by_currency |-> LET Currency(r) == r.currency
                                IN  SumBy(rows, Currency)]

DonutOfExpenses(rows, q, today) == Slices(DonutExpenses(rows, q, today), q.limit)

\* A custom range is read and never applied.
BarExpenses(rows, q, today) ==
    LET chosen == OfCategory(OfKind(rows, "expense"), q.category)
    IN  IF q.filter \in {"all", "custom"} THEN chosen
        ELSE FilterByDateRange(chosen, Window(q.filter, q.custom, today))

BarOfExpenses(rows, q, today) == Slices(BarExpenses(rows, q, today), q.limit)

\* The rows of a line or of a stacked chart: here "all" is a window too.
LineExpenses(rows, q, today) ==
    FilterByDateRange(OfCategory(OfKind(rows, "expense"), q.category),
                      Window(q.filter, q.custom, today))

LineGroup(q, window) ==
    IF q.group # NoName THEN q.group
    ELSE IF q.filter \in {"today", "yesterday"} THEN "hour"
    ELSE IF q.filter \in {"current_week", "previous_week",
                          "current_month", "previous_month"} THEN "day"
    ELSE IF DaysBetween(window) <= LineDayMax THEN "day"
    ELSE IF DaysBetween(window) <= WeekMax THEN "week"
    ELSE "month"

\* What each point of the axis shows: the sum of the rows with its label.
LineTotals(rows, group, window) ==
    LET LabelOf(r) == Label(TimeKey(r.ts, group), group)
        sums == SumBy(rows, LabelOf)
        At(label) == IF label \in DOMAIN sums THEN sums[label] ELSE 0
    IN  [p \in Periods(group, window) |-> At(Label(p, group))]

LineOfExpenses(rows, q, today) ==
    LET window == Window(q.filter, q.custom, today)
        totals == LineTotals(LineExpenses(rows, q, today),
                             LineGroup(q, window), window)
    IN  [data |-> totals, total_amount |-> SumFunction(totals)]

StackedGroup(q, window) ==
    IF q.group # NoName THEN q.group
    ELSE IF DaysBetween(window) <= 1 THEN "hour"
    ELSE IF DaysBetween(window) <= StackedDayMax THEN "day"
    ELSE IF DaysBetween(window) <= WeekMax THEN "week"
    ELSE "month"

StackedCategories(rows, limit) == Largest(SumBy(rows, CategoryName), limit)

StackedBars(rows, names, group, window) ==
    [n \in names |-> LineTotals({r \in rows : CategoryName(r) = n}, group, window)]

StackedExpenses(rows, q, today) ==
    FilterByDateRange(OfCategory(OfKind(rows, "expense"), q.category),
                      Window(q.filter, q.custom, today))

StackedOfExpenses(rows, q, today) ==
    LET window == Window(q.filter, q.custom, today)
        in == StackedExpenses(rows, q, today)
        names == StackedCategories(in, q.limit)
    IN  [data |-> StackedBars(in, names, StackedGroup(q, window), window),
         total_amount |-> Total({r \in in : CategoryName(r) \in names})]

\* Expenses are chosen by their date and put on the day of the month of their
\* stamp; incomes are chosen by their stamp.
MonthlyComparison(rows, month) ==
    LET window == <<MonthStart(month), MonthEnd(month)>>
        spent == FilterByDateRange(OfKind(rows, "expense"), window)
        income == Total({r \in OfKind(rows, "income") : Stamped(r, window)})
        DayOfMonth(d) == d - MonthStart(d)
        UpTo(d) == Total({r \in spent :
                            DayOfMonth(LocalDay(r.ts)) <= DayOfMonth(d)})
        final == UpTo(window[2])
        over == {d \in window[1]..window[2] : UpTo(d) > income}
    IN  [cumulative |-> [d \in window[1]..window[2] |-> UpTo(d)],
         total_monthly_income |-> income,
         total_expenses_to_date |-> final,
         financial_status |->
            IF income = 0 \/ final * 10 < income * 6 THEN "saludable"
            ELSE IF final * 10 < income * 8 THEN "precaucion"
            ELSE IF final < income THEN "advertencia" ELSE "critico",
         day_exceeded |-> IF over = {} THEN NoDate ELSE Min(over)]

-----------------------------------------------------------------------------
(* Incomes: every chart goes by the stamp, whatever received_at says.      *)

StampedIncomes(rows, q, today) ==
    {r \in OfCategory(OfKind(rows, "income"), q.category) :
        Stamped(r, Window(q.filter, q.custom, today))}

DonutIncomes(rows, q, today) == StampedIncomes(rows, q, today)
DonutOfIncomes(rows, q, today) == Slices(DonutIncomes(rows, q, today), q.limit)

\* Filtered once more, by the date the stamp has in the server's time zone.
BarIncomes(rows, q, today) ==
    {r \in StampedIncomes(rows, q, today) :
        ServerDated(r, Window(q.filter, q.custom, today))}

BarOfIncomes(rows, q, today) == Slices(BarIncomes(rows, q, today), q.limit)

LineIncomes(rows, q, today) == StampedIncomes(rows, q, today)
LineOfIncomes(rows, q, today) ==
    LET window == Window(q.filter, q.custom, today)
        totals == LineTotals(LineIncomes(rows, q, today),
                             LineGroup(q, window), window)
    IN  [data |-> totals, total_amount |-> SumFunction(totals)]

StackedIncomes(rows, q, today) == StampedIncomes(rows, q, today)
StackedOfIncomes(rows, q, today) ==
    LET window == Window(q.filter, q.custom, today)
        in == StackedIncomes(rows, q, today)
    IN  [data |-> StackedBars(in, StackedCategories(in, q.limit),
                              StackedGroup(q, window), window)]

\* period: week, month, year or all of it; each row is listed by itself.
IncomeSummary(rows, q, period, today) ==
    LET from == CASE period = "week" -> WeekStart(today)
                  [] period = "month" -> MonthStart(today)
                  [] period = "year" -> YearStart(today)
                  [] OTHER -> NoDate
        incomes == OfKind(rows, "income")
        in == IF q.filter = "custom" THEN {r \in incomes : Stamped(r, q.custom)}
              ELSE IF from = NoDate THEN incomes
              ELSE {r \in incomes : r.ts >= DayStart(from)}
    IN  [summary |-> in, total |-> Total(in)]

\* Groups of one name are added up here.
IncomeMonthSummary(rows, month) ==
    LET in == FilterByDateRange(OfKind(rows, "income"),
                                <<MonthStart(month), MonthEnd(month)>>)
        sums == ByCategory(in)
        Named(n) == {g \in DOMAIN sums : GroupName(g) = n}
    IN  [by_category |-> [n \in {GroupName(g) : g \in DOMAIN sums} |->
                            SumFunction([g \in Named(n) |-> sums[g]])],
         total |-> Total(in)]

\* The months averaged are the current one and n that end before the previous.
IncomeStatistics(rows, n, today) ==
    LET In(window) == Total({r \in OfKind(rows, "income") : Stamped(r, window)})
        Month(i) == In(<<MonthsBack(i, today), MonthEnd(MonthsBack(i, today))>>)
        current == Month(0)
        previous == Month(1)
        months == [i \in {0} \cup 2..(n + 1) |-> Month(i)]
    IN  [current |-> current, previous |-> previous,
         difference |-> current - previous,
         \* percentage, average and projection as <<numerator, denominator>>
         percentage_change |->
            IF previous > 0 THEN <<(current - previous) * 100, previous>>
            ELSE <<IF current > 0 THEN 100 ELSE 0, 1>>,
         average |-> <<SumFunction(months), n + 1>>,
         projection |-> IF previous > 0 /\ current > 0
                        THEN <<current * current, previous>>
                        ELSE <<SumFunction(months), n + 1>>]

-----------------------------------------------------------------------------
(* How much a user category is used: the endpoints with-usage and popular. *)

UsageSince(rows, kind, since) ==
    LET used == {r \in OfKind(rows, kind) : r.user # NoName /\ r.date # NoDate
                                              /\ r.date >= since}
    IN  [n \in {r.user : r \in used} |->
            [count |-> Cardinality({r \in used : r.user = n}),
             total |-> Total({r \in used : r.user = n})]]
UsageOfExpenseCategories(rows, since) == UsageSince(rows, "expense", since)
UsageOfIncomeCategories(rows, since) == UsageSince(rows, "income", since)

\* The most used ones, over all time.
MostUsed(rows, kind, limit) ==
    LET used == {r \in OfKind(rows, kind) : r.user # NoName}
        times == [n \in {r.user : r \in used} |-> Cardinality({r \in used : r.user = n})]
    IN  [n \in Largest(times, limit) |-> times[n]]
PopularExpenseCategories(rows, limit) == MostUsed(rows, "expense", limit)
PopularIncomeCategories(rows, limit) == MostUsed(rows, "income", limit)

-----------------------------------------------------------------------------
(* The agent's tools and the insights.                                     *)

\* Mutant of FilterByPeriod: by the day a row was stamped, whatever its date.
FilterByStamp(rows, from, to) ==
    {r \in rows : /\ from = NoDate \/ LocalDay(r.ts) >= from
                  /\ to = NoDate \/ LocalDay(r.ts) <= to}

\* _filter_by_period: an end that is missing does not bound.
FilterByPeriod(rows, from, to) ==
    {r \in rows : /\ from = NoDate \/ EffectiveDate(r) >= from
                  /\ to = NoDate \/ EffectiveDate(r) <= to}

\* get_expense_totals and get_income_totals, one currency at a time.
AgentTotals(rows, kind, from, to) ==
    LET Currency(r) == r.currency
    IN  SumBy(FilterByPeriod(OfKind(rows, kind), from, to), Currency)

\* get_top_categories, get_expenses_by_category and their income mirrors: dated
\* rows, and only the names of user categories.
InCategories(rows, kind, from, to) ==
    {r \in OfKind(rows, kind) : r.date # NoDate /\ from <= r.date /\ r.date <= to}
ByUserCategory(rows, kind, from, to) ==
    LET Name(r) == r.user
    IN  SumBy({r \in InCategories(rows, kind, from, to) : r.user # NoName}, Name)
TopCategories(rows, from, to) == ByUserCategory(rows, "expense", from, to)
TopIncomeCategories(rows, from, to) == ByUserCategory(rows, "income", from, to)
ExpensesByCategory(rows, name, from, to) ==
    Total({r \in InCategories(rows, "expense", from, to) : r.user = name})
IncomesByCategory(rows, name, from, to) ==
    Total({r \in InCategories(rows, "income", from, to) : r.user = name})

\* compute_monthly_insights: only rows with a date, up to today.
MonthlyInsights(rows, month, currency, today) ==
    LET first == MonthStart(month)
        last == IF first = MonthStart(today) THEN Min({MonthEnd(month), today})
                ELSE MonthEnd(month)
        In(kind, from, to) == {r \in OfKind(rows, kind) :
            r.date # NoDate /\ from <= r.date /\ r.date <= to /\ r.currency = currency}
        spent == In("expense", first, last)
        Name(r) == FirstName(<<r.user, r.legacy, r.str>>, "Sin categoria")
        Day(r) == r.date
        byDay == SumBy(spent, Day)
        now == SumBy(spent, Name)
        before == SumBy(In("expense", MonthStart(first - 1), first - 1), Name)
    IN  [expenses |-> Total(spent),
         incomes |-> Total(In("income", first, last)),
         days_with_expenses |-> Cardinality(DOMAIN byDay),
         max_day |-> Largest(byDay, 1),
         top_categories |-> now,
         \* new this month, or <<the change, the amount it is a share of>>
         category_growth |-> [c \in DOMAIN now |->
            IF c \in DOMAIN before THEN <<now[c] - before[c], before[c]>>
            ELSE <<"new", now[c]>>]]
=============================================================================
