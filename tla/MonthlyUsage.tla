---------------------------- MODULE MonthlyUsage ----------------------------
(***************************************************************************)
(* The monthly counters of one user (MonthlyUsage rows) and the limit they *)
(* enforce, for expenses; incomes have the same code with their own        *)
(* column.                                                                 *)
(*                                                                         *)
(* A request checks the limit, inserts the record, and a post_save signal  *)
(* reads the counter and saves it incremented; a deletion decrements it    *)
(* the same way.  Nothing holds these statements together: each is an      *)
(* action.                                                                 *)
(*                                                                         *)
(* A date is a pair of a month (counted over the years) and a day of it.   *)
(***************************************************************************)
EXTENDS Naturals, Sequences, FiniteSets

CONSTANTS
    Writers,       \* requests and tasks working for the user
    MonthDays,     \* lengths of the months of the calendar
    MaxExpenses,   \* BASIC_PLAN_MAX_EXPENSES
    MaxCount,      \* bound on the records and the counter of a month
    MaxDisturbances  \* bound: how many kinds of disturbance may happen

ASSUME CalendarAssumption ==
    MonthDays \in Seq(Nat \ {0}) /\ Len(MonthDays) > 2
ASSUME LimitAssumption ==
    /\ MaxExpenses \in Nat \ {0}
    /\ MaxCount \in Nat /\ MaxExpenses < MaxCount
    /\ MaxDisturbances \in Nat

Months == 1..Len(MonthDays)
\* The months that pass: the first and the last are only neighbours.
LivedMonths == 2..(Len(MonthDays) - 1)
Dates == {x \in [m : Months, d : Nat \ {0}] : x.d <= MonthDays[x.m]}

-----------------------------------------------------------------------------
(* Billing periods.                                                        *)

\* x is an earlier day than y.
Before(x, y) == x.m < y.m \/ (x.m = y.m /\ x.d < y.d)

\* The day of the month, or its last day if the month is shorter.
ClampTo(m, day) ==
    [m |-> m, d |-> IF day <= MonthDays[m] THEN day ELSE MonthDays[m]]

\* relativedelta(months=1) keeps the day where it can.
NextMonth(x) == ClampTo(x.m + 1, x.d)
PreviousMonth(x) == ClampTo(x.m - 1, x.d)

DayBefore(x) == IF x.d > 1 THEN [x EXCEPT !.d = @ - 1]
                ELSE [m |-> x.m - 1, d |-> MonthDays[x.m - 1]]
DayAfter(x) == IF x.d < MonthDays[x.m] THEN [x EXCEPT !.d = @ + 1]
               ELSE [m |-> x.m + 1, d |-> 1]

CalendarMonthPeriod(date) ==
    [start |-> [m |-> date.m, d |-> 1],
     end   |-> [m |-> date.m, d |-> MonthDays[date.m]]]

PeriodStart(billing, date) ==
    LET this == ClampTo(date.m, billing) IN
    IF Before(date, this) THEN PreviousMonth(this) ELSE this

\* Mutant of AnniversaryPeriod: a period ends on the next billing day.
AnniversaryPeriodOverlapping(billing, date) ==
    LET start == PeriodStart(billing, date) IN
    [start |-> start, end |-> NextMonth(start)]

AnniversaryPeriod(billing, date) ==
    LET start == PeriodStart(billing, date) IN
    [start |-> start, end |-> DayBefore(NextMonth(start))]

Paid == {"PREMIUM", "BUSINESS"}

\* Paid plans count from the day of the month they began, if there is one.
BillingPeriod(who, date) ==
    IF who.plan \in Paid /\ who.billing # 0
      THEN AnniversaryPeriod(who.billing, date)
      ELSE CalendarMonthPeriod(date)

\* The row of a period is keyed by the month it starts in.
UsageMonth(who, date) == BillingPeriod(who, date).start.m

-----------------------------------------------------------------------------

VARIABLES
    today,
    user,       \* the plan and the day of the month it began (0: unknown)
    usage,      \* expenses_count of the rows there are, by month
    live,       \* the user's expenses, by the month they were created in
    writer,     \* where each request stands
    disturbed   \* what has happened so far that a request does not expect

vars == <<today, user, usage, live, writer, disturbed>>

Disturbances == {"overlap", "death", "midnight", "paid"}

Idle == [pc |-> "idle", month |-> 0, count |-> 0]

TypeOK ==
    /\ today \in Dates
    /\ user \in [plan : Paid \cup {"NONE", "BASIC"}, billing : Nat]
    /\ \E rows \in SUBSET Months : usage \in [rows -> Nat]
    /\ live \in [Months -> Nat]
    /\ writer \in [Writers -> [pc : {"idle", "allowed", "inserted", "counting",
                                     "deleted", "discounting", "recounting"},
                               month : Months \cup {0}, count : Nat]]
    /\ disturbed \subseteq Disturbances

Init ==
    /\ today = [m |-> 2, d |-> 1]
    /\ user \in [plan : {"NONE", "BASIC"}, billing : {0}]
    /\ usage = [m \in {} |-> 0]
    /\ live = [m \in Months |-> 0]
    /\ writer = [w \in Writers |-> Idle]
    /\ disturbed = {}

Busy == {w \in Writers : writer[w].pc # "idle"}

Disturb(kind) ==
    /\ disturbed' = disturbed \cup {kind}
    /\ Cardinality(disturbed') <= MaxDisturbances

\* A request begins; it overlaps with those that have not ended.
Begins == IF Busy = {} THEN UNCHANGED disturbed ELSE Disturb("overlap")

\* assign_basic_plan_if_none
WithPlan == IF user.plan = "NONE" THEN [plan |-> "BASIC", billing |-> today.d]
                                  ELSE user

\* get_or_create_current: the row of the month is the row of the period.  That
\* an existing row's own period is compared first changes nothing, because
\* get_or_create then finds the same row by the same key.
WithRow(month) == [m \in DOMAIN usage \cup {month} |->
                     IF m \in DOMAIN usage THEN usage[m] ELSE 0]

-----------------------------------------------------------------------------
(* Creating an expense.                                                    *)

Allowed(count) == user.plan \in Paid \/ count < MaxExpenses

CanAddExpense(w) ==
    /\ writer[w].pc = "idle"
    /\ live[today.m] < MaxCount
    /\ user' = WithPlan
    /\ LET month == UsageMonth(WithPlan, today) IN
       /\ usage' = WithRow(month)
       /\ writer' = [writer EXCEPT ![w] =
                       IF Allowed(usage'[month]) THEN [Idle EXCEPT !.pc = "allowed"]
                                                 ELSE Idle]
    /\ Begins
    /\ UNCHANGED <<today, live>>

InsertExpense(w) ==
    /\ writer[w].pc = "allowed"
    /\ live' = [live EXCEPT ![today.m] = @ + 1]
    /\ writer' = [writer EXCEPT ![w].pc = "inserted"]
    /\ UNCHANGED <<today, user, usage, disturbed>>

\* increment_monthly_expense_count reads the row of the present period ...
ReadForIncrement(w) ==
    /\ writer[w].pc = "inserted"
    /\ LET month == UsageMonth(user, today) IN
       /\ usage' = WithRow(month)
       /\ usage'[month] < MaxCount
       /\ writer' = [writer EXCEPT ![w] =
                       [pc |-> "counting", month |-> month, count |-> usage'[month]]]
    /\ UNCHANGED <<today, user, live, disturbed>>

\* ... and increment_expenses saves what it read plus one.
SaveIncrement(w) ==
    /\ writer[w].pc = "counting"
    /\ usage' = [usage EXCEPT ![writer[w].month] = writer[w].count + 1]
    /\ writer' = [writer EXCEPT ![w] = Idle]
    /\ UNCHANGED <<today, user, live, disturbed>>

-----------------------------------------------------------------------------
(* Deleting one.                                                           *)

DeleteExpense(w) ==
    /\ writer[w].pc = "idle"
    /\ \E m \in Months :
         /\ live[m] > 0
         /\ live' = [live EXCEPT ![m] = @ - 1]
         /\ writer' = [writer EXCEPT ![w] = [Idle EXCEPT !.pc = "deleted", !.month = m]]
    /\ Begins
    /\ UNCHANGED <<today, user, usage>>

\* Mutant of ReadForDecrement: the present month's row is decremented.
ReadForDecrementToday(w) ==
    /\ writer[w].pc = "deleted"
    /\ LET m == UsageMonth(user, today) IN
       writer' = [writer EXCEPT ![w] =
                    IF m \in DOMAIN usage /\ usage[m] > 0
                      THEN [pc |-> "discounting", month |-> m, count |-> usage[m]]
                      ELSE Idle]
    /\ UNCHANGED <<today, user, usage, live, disturbed>>

\* decrement_monthly_expense_count takes the row of the calendar month the
\* record was created in, if there is one, and leaves a counter of 0 alone.
ReadForDecrement(w) ==
    /\ writer[w].pc = "deleted"
    /\ LET m == writer[w].month IN
       writer' = [writer EXCEPT ![w] =
                    IF m \in DOMAIN usage /\ usage[m] > 0
                      THEN [pc |-> "discounting", month |-> m, count |-> usage[m]]
                      ELSE Idle]
    /\ UNCHANGED <<today, user, usage, live, disturbed>>

SaveDecrement(w) ==
    /\ writer[w].pc = "discounting"
    /\ usage' = [usage EXCEPT ![writer[w].month] = writer[w].count - 1]
    /\ writer' = [writer EXCEPT ![w] = Idle]
    /\ UNCHANGED <<today, user, live, disturbed>>

-----------------------------------------------------------------------------
(* The command initialize_monthly_usage, for any month.                    *)

CountRecords(w) ==
    /\ writer[w].pc = "idle"
    /\ \E m \in LivedMonths :
         /\ m <= today.m
         /\ writer' = [writer EXCEPT ![w] =
                         [pc |-> "recounting", month |-> m, count |-> live[m]]]
    /\ user' = WithPlan
    /\ Begins
    /\ UNCHANGED <<today, usage, live>>

SaveRecount(w) ==
    /\ writer[w].pc = "recounting"
    /\ usage' = [WithRow(writer[w].month) EXCEPT ![writer[w].month] = writer[w].count]
    /\ writer' = [writer EXCEPT ![w] = Idle]
    /\ UNCHANGED <<today, user, live, disturbed>>

\* A dry run saves no correction, but get_or_create inserts a missing row.
DryRun(w) ==
    /\ writer[w].pc = "recounting"
    /\ usage' = [m \in DOMAIN usage \cup {writer[w].month} |->
                   IF m \in DOMAIN usage THEN usage[m] ELSE writer[w].count]
    /\ writer' = [writer EXCEPT ![w] = Idle]
    /\ UNCHANGED <<today, user, live, disturbed>>

-----------------------------------------------------------------------------
(* Plans, time and lost processes.                                         *)

\* An operator sells a plan in the admin, from any day on.
Subscribe ==
    /\ user.plan \in {"NONE", "BASIC"}
    /\ \E day \in 1..MonthDays[today.m] :
         user' = [plan |-> "PREMIUM", billing |-> day]
    /\ Disturb("paid")
    /\ UNCHANGED <<today, usage, live, writer>>

\* Organization.add_member leaves subscription_start_date as it is.
JoinOrganization ==
    /\ user.plan # "BUSINESS"
    /\ user' = [user EXCEPT !.plan = "BUSINESS"]
    /\ Disturb("paid")
    /\ UNCHANGED <<today, usage, live, writer>>

\* downgrade_to_basic: the trial ended, the organization removed the member or
\* the command was run.
DowngradeToBasic ==
    /\ user.plan # "NONE"
    /\ user' = [plan |-> "BASIC", billing |-> today.d]
    /\ UNCHANGED <<today, usage, live, writer, disturbed>>

Tomorrow ==
    /\ DayAfter(today).m \in LivedMonths
    /\ today' = DayAfter(today)
    /\ IF \E w \in Writers : writer[w].pc = "inserted"
         THEN Disturb("midnight") ELSE UNCHANGED disturbed
    /\ UNCHANGED <<user, usage, live, writer>>

Dies(w) ==
    /\ writer[w].pc # "idle"
    /\ writer' = [writer EXCEPT ![w] = Idle]
    /\ Disturb("death")
    /\ UNCHANGED <<today, user, usage, live>>

WriterStep(w) ==
    \/ CanAddExpense(w) \/ InsertExpense(w) \/ ReadForIncrement(w) \/ SaveIncrement(w)
    \/ DeleteExpense(w) \/ ReadForDecrement(w) \/ SaveDecrement(w)
    \/ CountRecords(w) \/ SaveRecount(w) \/ DryRun(w)
    \/ Dies(w)

Next ==
    \/ \E w \in Writers : WriterStep(w)
    \/ Subscribe \/ JoinOrganization \/ DowngradeToBasic
    \/ Tomorrow

Spec == Init /\ [][Next]_vars

-----------------------------------------------------------------------------
(* Properties.                                                             *)

Count(m) == IF m \in DOMAIN usage THEN usage[m] ELSE 0

\* The README's "100 gastos" of the basic plan: as long as requests come one at
\* a time, end, and the user never had a paid plan, no month holds more
\* expenses than the limit, whatever is deleted, recounted or created around
\* midnight.
LimitHolds ==
    disturbed \subseteq {"midnight"} => \A m \in Months : live[m] <= MaxExpenses

\* "Los límites se actualizan automáticamente con signals": between undisturbed
\* requests every counter is the number of records created in its month.
CountersMatch ==
    disturbed = {} /\ Busy = {} => \A m \in Months : Count(m) = live[m]

EveryMonthHas(day) == \A m \in Months : day <= MonthDays[m]

\* "Calcular el período actual": today is in the billing period, for plans that
\* began on a day every month has.
PeriodContainsToday ==
    EveryMonthHas(user.billing) =>
        LET period == BillingPeriod(user, today) IN
        ~Before(today, period.start) /\ ~Before(period.end, today)

\* What limits a user is counted in the right month and holds.
UsageIsCounted == LimitHolds /\ CountersMatch /\ PeriodContainsToday

\* For the same plans, one period follows the other without gap or overlap.
PeriodFollows ==
    today' # today /\ EveryMonthHas(user.billing) =>
       \/ BillingPeriod(user, today') = BillingPeriod(user, today)
       \/ BillingPeriod(user, today').start
            = DayAfter(BillingPeriod(user, today).end)
PeriodsTile == [][PeriodFollows]_vars

\* The limit for every basic user: fails when two requests are checked before
\* either is counted.
LimitAlwaysHolds ==
    "paid" \notin disturbed => \A m \in Months : live[m] <= MaxExpenses

\* Today is in the billing period of every plan: fails for days 29 to 31, whose
\* period shrinks with February and ends before the next one begins.
EveryPeriodContainsToday ==
    ~Before(BillingPeriod(user, today).end, today)
=============================================================================
