---------------------------- MODULE AccountsProofs ----------------------------
(***************************************************************************)
(* Proofs about an account: the monthly counters (MonthlyUsage), for any   *)
(* calendar, limit and number of requests; the organizations and their     *)
(* members (Organizations), for any users and requests; the kill switch    *)
(* (KillSwitch), for any durations and time; the risk profile              *)
(* (RiskProfile), for any signals and requests; and the limits to trades   *)
(* (TradeLimits), for any settings and proposals.                          *)
(***************************************************************************)
EXTENDS Accounts, Sequences, FiniteSetTheorems, SequenceTheorems, WellFoundedInduction,
        FiniteSums, TLAPS

-----------------------------------------------------------------------------
(* The calendar.                                                           *)

LEMMA MonthsHaveDays ==
    /\ Months \subseteq Nat \ {0}
    /\ \A m \in Months : MonthDays[m] \in Nat \ {0}
    /\ \A m \in LivedMonths : m \in Months /\ m - 1 \in Months /\ m + 1 \in Months
    /\ 2 \in LivedMonths
<1>1. Len(MonthDays) \in Nat /\ Len(MonthDays) > 2
  BY CalendarAssumption
<1>2. \A m \in 1..Len(MonthDays) : MonthDays[m] \in Nat \ {0}
  BY CalendarAssumption
<1>3. QED
  BY <1>1, <1>2 DEF Months, LivedMonths

LEMMA DateType ==
    \A x \in Dates : /\ x.m \in Months /\ x.d \in Nat \ {0} /\ x.d <= MonthDays[x.m]
                     /\ x = [m |-> x.m, d |-> x.d]
BY DEF Dates

LEMMA DayAfterType ==
    ASSUME NEW x \in Dates, x.m \in LivedMonths
    PROVE  /\ DayAfter(x) \in Dates
           /\ DayAfter(x).m \in {x.m, x.m + 1}
           /\ DayAfter(x) = IF x.d < MonthDays[x.m] THEN [m |-> x.m, d |-> x.d + 1]
                                                    ELSE [m |-> x.m + 1, d |-> 1]
<1>1. /\ x.m \in Months /\ x.d \in Nat \ {0} /\ x.d <= MonthDays[x.m]
      /\ x = [m |-> x.m, d |-> x.d] /\ x.m + 1 \in Months
      /\ MonthDays[x.m] \in Nat \ {0} /\ MonthDays[x.m + 1] \in Nat \ {0}
  BY DateType, MonthsHaveDays
<1>2. DayAfter(x) = IF x.d < MonthDays[x.m] THEN [m |-> x.m, d |-> x.d + 1]
                                            ELSE [m |-> x.m + 1, d |-> 1]
  BY <1>1 DEF DayAfter
<1>3. CASE x.d < MonthDays[x.m]
  BY <1>1, <1>2, <1>3 DEF Dates
<1>4. CASE ~(x.d < MonthDays[x.m])
  BY <1>1, <1>2, <1>4 DEF Dates
<1>5. QED
  BY <1>2, <1>3, <1>4

\* For a day every month has, the period of a date by its two ends.
LEMMA PeriodOfADate ==
    ASSUME NEW x \in Dates, x.m \in LivedMonths, NEW b \in Nat \ {0}, EveryMonthHas(b)
    PROVE  LET k == IF x.d < b THEN x.m - 1 ELSE x.m
           IN  AnniversaryPeriod(b, x) =
                 [start |-> [m |-> k, d |-> b],
                  end |-> IF b > 1 THEN [m |-> k + 1, d |-> b - 1]
                                   ELSE [m |-> k, d |-> MonthDays[k]]]
<1>1. /\ x.m \in Months /\ x.m \in Nat /\ x.d \in Nat \ {0}
      /\ x.m - 1 \in Months /\ x.m + 1 \in Months
  BY DateType, MonthsHaveDays
<1>2. \A m \in Months : ClampTo(m, b) = [m |-> m, d |-> b]
  BY DEF ClampTo, EveryMonthHas
<1> DEFINE k == IF x.d < b THEN x.m - 1 ELSE x.m
           start == [m |-> k, d |-> b]
<1>3. PeriodStart(b, x) = start
  <2>1. ClampTo(x.m, b) = [m |-> x.m, d |-> b]
    BY <1>1, <1>2
  <2>2. Before(x, [m |-> x.m, d |-> b]) <=> x.d < b
    BY <1>1 DEF Before
  <2>3. PreviousMonth([m |-> x.m, d |-> b]) = [m |-> x.m - 1, d |-> b]
    BY <1>1, <1>2 DEF PreviousMonth
  <2>4. QED
    BY <2>1, <2>2, <2>3 DEF PeriodStart
<1>4. k \in Nat /\ k \in Months /\ k + 1 \in Months
  <2>1. CASE x.d < b
    <3>1. k = x.m - 1 /\ k + 1 = x.m
      BY <1>1, <2>1
    <3>2. QED
      BY <1>1, <3>1, MonthsHaveDays
  <2>2. CASE ~(x.d < b)
    BY <1>1, <2>2, MonthsHaveDays
  <2>3. QED
    BY <2>1, <2>2
<1>5. NextMonth(start) = [m |-> k + 1, d |-> b]
  BY <1>2, <1>4 DEF NextMonth
<1> HIDE DEF k
<1>6. DayBefore([m |-> k + 1, d |-> b]) =
        IF b > 1 THEN [m |-> k + 1, d |-> b - 1] ELSE [m |-> k, d |-> MonthDays[k]]
  BY <1>4 DEF DayBefore
<1>7. QED
  BY <1>3, <1>5, <1>6 DEF AnniversaryPeriod, k

-----------------------------------------------------------------------------
(* The counters: the inductive invariant.                                  *)

Job == [pc : {"idle", "allowed", "inserted", "counting", "deleted", "discounting",
              "recounting"},
        month : Months \cup {0}, count : Nat]

\* What a request has read of a month is of a month, and of a row there is.
WritersKnowTheMonth ==
    /\ DOMAIN usage \subseteq Months /\ usage \in [DOMAIN usage -> Nat]
    /\ today.m \in LivedMonths
    /\ \A w \in Writers :
        /\ writer[w].pc \notin {"idle", "allowed", "inserted"} => writer[w].month \in Months
        /\ writer[w].pc \in {"counting", "discounting"} => writer[w].month \in DOMAIN usage
        /\ writer[w].pc = "discounting" => writer[w].count > 0

Undisturbed == disturbed \subseteq {"midnight"}

\* As long as requests come one at a time, what one has read still stands.
OneAtATime ==
    Undisturbed =>
      /\ user.plan \notin Paid
      /\ \A v, w \in Busy : v = w
      /\ \A w \in Busy :
           /\ writer[w].pc \in {"counting", "discounting"} =>
                writer[w].count = usage[writer[w].month]
           /\ writer[w].pc = "recounting" => writer[w].count = live[writer[w].month]
           /\ writer[w].pc = "allowed" => live[today.m] < MaxExpenses

\* A record inserted and not counted yet; one deleted and not discounted yet.
Due(m) == IF \E w \in Writers : \/ writer[w].pc = "inserted" /\ m = today.m
                                \/ writer[w].pc = "counting" /\ m = writer[w].month
          THEN 1 ELSE 0
Over(m) == IF \E w \in Writers : /\ writer[w].pc \in {"deleted", "discounting"}
                                 /\ m = writer[w].month
           THEN 1 ELSE 0

\* The counters are exact but for that; after a midnight between the insertion
\* and the count they are still high enough from the present month on.
MonthsAreBounded ==
    Undisturbed =>
      \A m \in Months :
         /\ live[m] <= MaxExpenses
         /\ m > today.m => live[m] = 0
         /\ m >= today.m => live[m] + Over(m) <= Count(m) + Due(m)
MonthsAreCounted ==
    disturbed = {} => \A m \in Months : live[m] + Over(m) = Count(m) + Due(m)

UsageInv ==
    TypeOK /\ WritersKnowTheMonth /\ OneAtATime /\ MonthsAreBounded /\ MonthsAreCounted

-----------------------------------------------------------------------------
(* The counters: type correctness.                                         *)

LEMMA UsageMonthType ==
    ASSUME TypeOK, WritersKnowTheMonth,
           NEW who \in [plan : Paid \cup {"NONE", "BASIC"}, billing : Nat]
    PROVE  /\ UsageMonth(who, today) \in Months
           /\ who.plan \notin Paid => UsageMonth(who, today) = today.m
<1>1. /\ today.m \in Months /\ today.m - 1 \in Months
  BY MonthsHaveDays DEF WritersKnowTheMonth
<1>2. CalendarMonthPeriod(today).start.m = today.m
  BY DEF CalendarMonthPeriod
<1>3. AnniversaryPeriod(who.billing, today).start.m \in {today.m, today.m - 1}
  <2>1. PeriodStart(who.billing, today).m \in {today.m, today.m - 1}
    BY DEF PeriodStart, PreviousMonth, ClampTo
  <2>2. QED
    BY <2>1 DEF AnniversaryPeriod
<1>4. QED
  BY <1>1, <1>2, <1>3 DEF UsageMonth, BillingPeriod

LEMMA WithPlanType ==
    ASSUME TypeOK
    PROVE  /\ WithPlan \in [plan : Paid \cup {"NONE", "BASIC"}, billing : Nat]
           /\ user.plan \notin Paid => WithPlan.plan \notin Paid
BY DateType DEF TypeOK, WithPlan, Paid

LEMMA WithRowType ==
    ASSUME WritersKnowTheMonth, NEW month \in Months
    PROVE  /\ DOMAIN WithRow(month) = DOMAIN usage \cup {month}
           /\ DOMAIN WithRow(month) \subseteq Months
           /\ WithRow(month) \in [DOMAIN WithRow(month) -> Nat]
           /\ WithRow(month)[month] = Count(month)
           /\ \A m \in Months : m \in DOMAIN WithRow(month) => WithRow(month)[m] = Count(m)
BY DEF WritersKnowTheMonth, WithRow, Count

LEMMA DisturbType ==
    ASSUME TypeOK, NEW kind \in Disturbances, Disturb(kind) \/ UNCHANGED disturbed
    PROVE  disturbed' \subseteq Disturbances
BY DEF TypeOK, Disturb

Accounts == [plan : Paid \cup {"NONE", "BASIC"}, billing : Nat]

LEMMA TypeByParts ==
    ASSUME today' \in Dates, user' \in Accounts, disturbed' \subseteq Disturbances,
           DOMAIN usage' \subseteq Months, usage' \in [DOMAIN usage' -> Nat],
           live' \in [Months -> Nat], writer' \in [Writers -> Job]
    PROVE  TypeOK'
BY DEF TypeOK, Accounts, Job

\* What a request makes of itself is well typed, and about a month there is.
Knows(j) ==
    /\ j \in Job
    /\ j.pc \notin {"idle", "allowed", "inserted"} => j.month \in Months
    /\ j.pc = "discounting" => j.count > 0

LEMMA WritersByParts ==
    ASSUME TypeOK, WritersKnowTheMonth, NEW w \in Writers, NEW j, Knows(j),
           writer' = [writer EXCEPT ![w] = j],
           DOMAIN usage' \subseteq Months, usage' \in [DOMAIN usage' -> Nat],
           DOMAIN usage \subseteq DOMAIN usage',
           j.pc \in {"counting", "discounting"} => j.month \in DOMAIN usage',
           UNCHANGED today
    PROVE  writer' \in [Writers -> Job] /\ WritersKnowTheMonth'
<1>1. writer \in [Writers -> Job]
  BY DEF TypeOK, Job
<1>2. \A v \in Writers : writer'[v] = IF v = w THEN j ELSE writer[v]
  BY <1>1
<1>3. QED
  BY <1>1, <1>2 DEF WritersKnowTheMonth, Knows

LEMMA IdleKnows == Knows(Idle)
BY DEF Knows, Idle, Job

LEMMA WriterType ==
    ASSUME TypeOK, WritersKnowTheMonth, NEW w \in Writers, WriterStep(w)
    PROVE  TypeOK' /\ WritersKnowTheMonth'
<1>0. /\ writer[w] \in Job /\ user \in Accounts /\ live \in [Months -> Nat]
      /\ DOMAIN usage \subseteq Months /\ usage \in [DOMAIN usage -> Nat]
      /\ writer \in [Writers -> Job] /\ today \in Dates
      /\ today.m \in Months /\ disturbed \subseteq Disturbances
      /\ Months \subseteq Nat
  BY MonthsHaveDays DEF TypeOK, WritersKnowTheMonth, Job, Accounts
<1>1. CASE CanAddExpense(w)
  <2> DEFINE month == UsageMonth(WithPlan, today)
  <2>1. month \in Months /\ WithPlan \in Accounts
    BY UsageMonthType, WithPlanType DEF Accounts
  <2>2. PICK j \in {[Idle EXCEPT !.pc = "allowed"], Idle} : writer' = [writer EXCEPT ![w] = j]
    BY <1>1 DEF CanAddExpense
  <2>3. Knows(j) /\ j.pc \notin {"counting", "discounting"}
    BY <2>2, IdleKnows DEF Knows, Idle, Job
  <2>4. /\ usage' = WithRow(month) /\ user' = WithPlan /\ UNCHANGED <<today, live>>
        /\ (UNCHANGED disturbed \/ Disturb("overlap"))
    BY <1>1 DEF CanAddExpense, Begins
  <2> HIDE DEF month
  <2>5. /\ DOMAIN usage' \subseteq Months /\ usage' \in [DOMAIN usage' -> Nat]
        /\ DOMAIN usage \subseteq DOMAIN usage'
    BY <2>1, <2>4, WithRowType
  <2>6. disturbed' \subseteq Disturbances
    BY <2>4, DisturbType DEF Disturbances
  <2>7. writer' \in [Writers -> Job] /\ WritersKnowTheMonth'
    BY <2>2, <2>3, <2>4, <2>5, WritersByParts
  <2>8. QED
    BY <1>0, <2>1, <2>4, <2>5, <2>6, <2>7, TypeByParts
<1>2. CASE InsertExpense(w)
  <2> DEFINE j == [writer[w] EXCEPT !.pc = "inserted"]
  <2>1. Knows(j) /\ j.pc = "inserted"
    BY <1>0 DEF Knows, Job
  <2>2. writer' = [writer EXCEPT ![w] = j]
    BY <1>2 DEF InsertExpense
  <2>3. live' \in [Months -> Nat]
    BY <1>0, <1>2 DEF InsertExpense
  <2> HIDE DEF j
  <2>4. writer' \in [Writers -> Job] /\ WritersKnowTheMonth'
    BY <1>0, <1>2, <2>1, <2>2, WritersByParts DEF InsertExpense
  <2>5. QED
    BY <1>0, <1>2, <2>3, <2>4, TypeByParts DEF InsertExpense
<1>3. CASE ReadForIncrement(w)
  <2> DEFINE month == UsageMonth(user, today)
             j == [pc |-> "counting", month |-> month, count |-> usage'[month]]
  <2>1. month \in Months
    BY <1>0, UsageMonthType DEF Accounts
  <2>2. usage' = WithRow(month) /\ writer' = [writer EXCEPT ![w] = j]
    BY <1>3 DEF ReadForIncrement
  <2> HIDE DEF month
  <2>3. /\ DOMAIN usage' \subseteq Months /\ usage' \in [DOMAIN usage' -> Nat]
        /\ DOMAIN usage' = DOMAIN usage \cup {month}
    BY <2>1, <2>2, WithRowType
  <2>4. Knows(j) /\ j.month = month
    BY <2>1, <2>3 DEF Knows, Job
  <2> HIDE DEF j
  <2>5. writer' \in [Writers -> Job] /\ WritersKnowTheMonth'
    BY <1>3, <2>2, <2>3, <2>4, WritersByParts DEF ReadForIncrement
  <2>6. QED
    BY <1>0, <1>3, <2>3, <2>5, TypeByParts DEF ReadForIncrement
<1>4. CASE SaveIncrement(w) \/ SaveDecrement(w)
  <2>1. PICK n \in Nat : usage' = [usage EXCEPT ![writer[w].month] = n]
    <3>1. CASE SaveIncrement(w)
      <4>1. writer[w].count + 1 \in Nat
        BY <1>0 DEF Job
      <4>2. usage' = [usage EXCEPT ![writer[w].month] = writer[w].count + 1]
        BY <3>1 DEF SaveIncrement
      <4>3. QED
        BY <4>1, <4>2
    <3>2. CASE SaveDecrement(w)
      <4>1. writer[w].count - 1 \in Nat
        BY <1>0, <3>2 DEF SaveDecrement, WritersKnowTheMonth, Job
      <4>2. usage' = [usage EXCEPT ![writer[w].month] = writer[w].count - 1]
        BY <3>2 DEF SaveDecrement
      <4>3. QED
        BY <4>1, <4>2
    <3>3. QED
      BY <1>4, <3>1, <3>2
  <2>2. DOMAIN usage' = DOMAIN usage /\ usage' \in [DOMAIN usage' -> Nat]
    BY <1>0, <2>1
  <2>3. /\ writer' = [writer EXCEPT ![w] = Idle]
        /\ UNCHANGED <<today, user, live, disturbed>>
    BY <1>4 DEF SaveIncrement, SaveDecrement
  <2>4. writer' \in [Writers -> Job] /\ WritersKnowTheMonth'
    BY <1>0, <2>2, <2>3, IdleKnows, WritersByParts DEF Idle
  <2>5. QED
    BY <1>0, <2>2, <2>3, <2>4, TypeByParts
<1>5. CASE DeleteExpense(w)
  <2>1. PICK m \in Months :
          /\ live[m] > 0 /\ live' = [live EXCEPT ![m] = @ - 1]
          /\ writer' = [writer EXCEPT ![w] = [Idle EXCEPT !.pc = "deleted", !.month = m]]
    BY <1>5 DEF DeleteExpense
  <2> DEFINE j == [Idle EXCEPT !.pc = "deleted", !.month = m]
  <2>2. Knows(j) /\ j.pc = "deleted"
    BY DEF Knows, Idle, Job
  <2>3. live' \in [Months -> Nat]
    BY <1>0, <2>1
  <2>4. disturbed' \subseteq Disturbances
    BY <1>5, DisturbType DEF DeleteExpense, Begins, Disturbances
  <2> HIDE DEF j
  <2>5. writer' \in [Writers -> Job] /\ WritersKnowTheMonth'
    BY <1>0, <1>5, <2>1, <2>2, WritersByParts DEF DeleteExpense, j
  <2>6. QED
    BY <1>0, <1>5, <2>3, <2>4, <2>5, TypeByParts DEF DeleteExpense
<1>6. CASE ReadForDecrement(w)
  <2> DEFINE m == writer[w].month
             new == [pc |-> "discounting", month |-> m, count |-> usage[m]]
  <2>1. m \in Months
    BY <1>0, <1>6 DEF ReadForDecrement, WritersKnowTheMonth
  <2>2. PICK j : /\ writer' = [writer EXCEPT ![w] = j]
                 /\ j = Idle \/ (j = new /\ m \in DOMAIN usage /\ usage[m] > 0)
    BY <1>6 DEF ReadForDecrement
  <2> HIDE DEF m
  <2>3. Knows(j) /\ (j.pc \in {"counting", "discounting"} => j.month \in DOMAIN usage)
    <3>1. CASE j = Idle
      BY <3>1, IdleKnows DEF Idle
    <3>2. CASE j = new /\ m \in DOMAIN usage /\ usage[m] > 0
      BY <1>0, <2>1, <3>2 DEF Knows, Job
    <3>3. QED
      BY <2>2, <3>1, <3>2
  <2>4. writer' \in [Writers -> Job] /\ WritersKnowTheMonth'
    BY <1>0, <1>6, <2>2, <2>3, WritersByParts DEF ReadForDecrement
  <2>5. QED
    BY <1>0, <1>6, <2>4, TypeByParts DEF ReadForDecrement
<1>7. CASE CountRecords(w)
  <2>1. PICK m \in LivedMonths :
          writer' = [writer EXCEPT ![w] =
                        [pc |-> "recounting", month |-> m, count |-> live[m]]]
    BY <1>7 DEF CountRecords
  <2> DEFINE j == [pc |-> "recounting", month |-> m, count |-> live[m]]
  <2>2. Knows(j) /\ j.pc = "recounting"
    BY <1>0, MonthsHaveDays DEF Knows, Job
  <2>3. user' \in Accounts
    BY <1>7, WithPlanType DEF CountRecords, Accounts
  <2>4. disturbed' \subseteq Disturbances
    BY <1>7, DisturbType DEF CountRecords, Begins, Disturbances
  <2> HIDE DEF j
  <2>5. writer' \in [Writers -> Job] /\ WritersKnowTheMonth'
    BY <1>0, <1>7, <2>1, <2>2, WritersByParts DEF CountRecords, j
  <2>6. QED
    BY <1>0, <1>7, <2>3, <2>4, <2>5, TypeByParts DEF CountRecords
<1>8. CASE SaveRecount(w) \/ DryRun(w)
  <2>1. writer[w].month \in Months /\ writer[w].count \in Nat
    BY <1>0, <1>8 DEF SaveRecount, DryRun, WritersKnowTheMonth, Job
  <2>2. /\ DOMAIN usage' = DOMAIN usage \cup {writer[w].month}
        /\ usage' \in [DOMAIN usage' -> Nat]
    <3>1. CASE SaveRecount(w)
      <4> DEFINE rows == WithRow(writer[w].month)
      <4>1. usage' = [rows EXCEPT ![writer[w].month] = writer[w].count]
        BY <3>1 DEF SaveRecount
      <4>2. DOMAIN rows = DOMAIN usage \cup {writer[w].month} /\ rows \in [DOMAIN rows -> Nat]
        BY <2>1, WithRowType
      <4> HIDE DEF rows
      <4>3. QED
        BY <2>1, <4>1, <4>2
    <3>2. CASE DryRun(w)
      BY <1>0, <2>1, <3>2 DEF DryRun
    <3>3. QED
      BY <1>8, <3>1, <3>2
  <2>3. /\ writer' = [writer EXCEPT ![w] = Idle]
        /\ UNCHANGED <<today, user, live, disturbed>>
    BY <1>8 DEF SaveRecount, DryRun
  <2>4. DOMAIN usage' \subseteq Months
    BY <1>0, <2>1, <2>2
  <2>5. writer' \in [Writers -> Job] /\ WritersKnowTheMonth'
    BY <2>2, <2>3, <2>4, IdleKnows, WritersByParts DEF Idle
  <2>6. QED
    BY <1>0, <2>2, <2>3, <2>4, <2>5, TypeByParts
<1>9. CASE Dies(w)
  <2>1. disturbed' \subseteq Disturbances
    BY <1>9, DisturbType DEF Dies, Disturbances
  <2>2. writer' \in [Writers -> Job] /\ WritersKnowTheMonth'
    BY <1>0, <1>9, IdleKnows, WritersByParts DEF Dies, Idle
  <2>3. QED
    BY <1>0, <1>9, <2>1, <2>2, TypeByParts DEF Dies
<1>10. QED
  BY <1>1, <1>2, <1>3, <1>4, <1>5, <1>6, <1>7, <1>8, <1>9 DEF WriterStep

LEMMA AccountType ==
    ASSUME TypeOK, WritersKnowTheMonth,
           Subscribe \/ JoinOrganization \/ DowngradeToBasic \/ Tomorrow
    PROVE  TypeOK' /\ WritersKnowTheMonth'
<1>0. /\ user \in Accounts /\ today \in Dates /\ today.m \in LivedMonths
      /\ disturbed \subseteq Disturbances
  BY DEF TypeOK, WritersKnowTheMonth, Accounts
<1>1. disturbed' \subseteq Disturbances
  BY <1>0, DisturbType
     DEF Subscribe, JoinOrganization, DowngradeToBasic, Tomorrow, Disturbances
<1>2. CASE Tomorrow
  <2>1. today' \in Dates /\ today'.m \in LivedMonths
    BY <1>0, <1>2, DayAfterType DEF Tomorrow
  <2>2. UNCHANGED <<user, usage, live, writer>>
    BY <1>2 DEF Tomorrow
  <2>3. QED
    BY <1>1, <2>1, <2>2 DEF TypeOK, WritersKnowTheMonth
<1>3. CASE Subscribe \/ JoinOrganization \/ DowngradeToBasic
  <2>1. user' \in Accounts
    <3>1. CASE Subscribe
      <4>1. \A day \in 1..MonthDays[today.m] : day \in Nat
        BY MonthsHaveDays, <1>0
      <4>2. QED
        BY <3>1, <4>1 DEF Subscribe, Accounts, Paid
    <3>2. CASE JoinOrganization
      BY <1>0, <3>2 DEF JoinOrganization, Accounts, Paid
    <3>3. CASE DowngradeToBasic
      BY <1>0, <3>3, DateType DEF DowngradeToBasic, Accounts
    <3>4. QED
      BY <1>3, <3>1, <3>2, <3>3
  <2>2. UNCHANGED <<today, usage, live, writer>>
    BY <1>3 DEF Subscribe, JoinOrganization, DowngradeToBasic
  <2>3. QED
    BY <1>1, <2>1, <2>2 DEF TypeOK, WritersKnowTheMonth, Accounts
<1>4. QED
  BY <1>2, <1>3

-----------------------------------------------------------------------------
(* The counters: requests that come one at a time.                         *)

LEMMA DisturbedGrows ==
    ASSUME Next
    PROVE  disturbed \subseteq disturbed' /\ (Undisturbed' => Undisturbed)
BY DEF Next, WriterStep, CanAddExpense, InsertExpense, ReadForIncrement, SaveIncrement,
       DeleteExpense, ReadForDecrement, SaveDecrement, CountRecords, SaveRecount, DryRun,
       Dies, Subscribe, JoinOrganization, DowngradeToBasic, Tomorrow, Begins, Disturb,
       Undisturbed

LEMMA BeginsAlone == ASSUME Begins, Undisturbed' PROVE Busy = {}
BY DEF Begins, Disturb, Undisturbed

\* Nobody else is at work, before and after.
OnlyWriter(w) ==
    \A v \in Writers : v # w => writer[v].pc = "idle" /\ writer'[v] = writer[v]

LEMMA OthersAreIdle ==
    ASSUME TypeOK, OneAtATime, NEW w \in Writers, WriterStep(w), Undisturbed', Undisturbed
    PROVE  OnlyWriter(w) /\ ~Dies(w)
<1>1. ~Dies(w)
  BY DEF Dies, Disturb, Undisturbed
<1>2. Busy = {} \/ writer[w].pc # "idle"
  <2>1. CASE CanAddExpense(w) \/ DeleteExpense(w) \/ CountRecords(w)
    BY <2>1, BeginsAlone DEF CanAddExpense, DeleteExpense, CountRecords
  <2>2. CASE \/ InsertExpense(w) \/ ReadForIncrement(w) \/ SaveIncrement(w)
             \/ ReadForDecrement(w) \/ SaveDecrement(w) \/ SaveRecount(w) \/ DryRun(w)
    BY <2>2 DEF InsertExpense, ReadForIncrement, SaveIncrement, ReadForDecrement,
                SaveDecrement, SaveRecount, DryRun
  <2>3. QED
    BY <1>1, <2>1, <2>2 DEF WriterStep
<1>3. \A v \in Writers : v # w => writer[v].pc = "idle"
  BY <1>2 DEF OneAtATime, Busy
<1>4. \E j : writer' = [writer EXCEPT ![w] = j]
  <2>1. CASE InsertExpense(w)
    <3>1. writer' = [writer EXCEPT ![w] = [writer[w] EXCEPT !.pc = "inserted"]]
      BY <2>1 DEF InsertExpense
    <3>2. QED
      BY <3>1
  <2>2. CASE CanAddExpense(w) \/ ReadForIncrement(w) \/ SaveIncrement(w)
    BY <2>2 DEF CanAddExpense, ReadForIncrement, SaveIncrement
  <2>3. CASE DeleteExpense(w) \/ ReadForDecrement(w) \/ SaveDecrement(w)
    BY <2>3 DEF DeleteExpense, ReadForDecrement, SaveDecrement
  <2>4. CASE CountRecords(w) \/ SaveRecount(w) \/ DryRun(w)
    BY <2>4 DEF CountRecords, SaveRecount, DryRun
  <2>5. QED
    BY <1>1, <2>1, <2>2, <2>3, <2>4 DEF WriterStep
<1>5. \A v \in Writers : v # w => writer'[v] = writer[v]
  BY <1>4 DEF TypeOK
<1>6. QED
  BY <1>1, <1>3, <1>5 DEF OnlyWriter

\* What is due and over is the only writer's.
LEMMA DueOfOne ==
    ASSUME NEW w \in Writers, OnlyWriter(w), NEW m
    PROVE  /\ Due(m) = IF \/ writer[w].pc = "inserted" /\ m = today.m
                          \/ writer[w].pc = "counting" /\ m = writer[w].month
                       THEN 1 ELSE 0
           /\ Due(m)' = IF \/ writer'[w].pc = "inserted" /\ m = today'.m
                           \/ writer'[w].pc = "counting" /\ m = writer'[w].month
                        THEN 1 ELSE 0
           /\ Over(m) = IF /\ writer[w].pc \in {"deleted", "discounting"}
                           /\ m = writer[w].month
                        THEN 1 ELSE 0
           /\ Over(m)' = IF /\ writer'[w].pc \in {"deleted", "discounting"}
                            /\ m = writer'[w].month
                         THEN 1 ELSE 0
BY DEF Due, Over, OnlyWriter

\* A step keeps the balance of a month or makes it even, or the month is past
\* and its counter was already off.
Balanced(m) ==
    \/ live'[m] + Over(m)' + Count(m) + Due(m) = live[m] + Over(m) + Count(m)' + Due(m)'
    \/ live'[m] + Over(m)' = Count(m)' + Due(m)'
    \/ m < today.m /\ disturbed # {}

LEMMA CountType ==
    ASSUME TypeOK, WritersKnowTheMonth, NEW m \in Months
    PROVE  Count(m) \in Nat /\ Due(m) \in Nat /\ Over(m) \in Nat /\ live[m] \in Nat /\ m \in Nat
BY MonthsHaveDays DEF TypeOK, WritersKnowTheMonth, Count, Due, Over

LEMMA CountTypeNext ==
    ASSUME TypeOK', WritersKnowTheMonth', NEW m \in Months
    PROVE  Count(m)' \in Nat /\ Due(m)' \in Nat /\ Over(m)' \in Nat /\ live'[m] \in Nat
BY MonthsHaveDays DEF TypeOK, WritersKnowTheMonth, Count, Due, Over

LEMMA BalancedIsEnough ==
    ASSUME UsageInv, TypeOK', WritersKnowTheMonth', Undisturbed', Undisturbed,
           disturbed \subseteq disturbed', UNCHANGED today,
           \A m \in Months : Balanced(m),
           \A m \in Months : live'[m] <= MaxExpenses /\ (m > today.m => live'[m] = 0)
    PROVE  MonthsAreBounded' /\ MonthsAreCounted'
<1>1. today'.m = today.m /\ today.m \in Nat
  BY MonthsHaveDays DEF UsageInv, WritersKnowTheMonth
<1>2. ASSUME NEW m \in Months, m >= today.m
      PROVE  live'[m] + Over(m)' <= Count(m)' + Due(m)'
  <2>1. Balanced(m) /\ ~(m < today.m) /\ live[m] + Over(m) <= Count(m) + Due(m)
    BY <1>1, <1>2, CountType DEF UsageInv, MonthsAreBounded
  <2>2. /\ Count(m) \in Nat /\ Due(m) \in Nat /\ Over(m) \in Nat /\ live[m] \in Nat
        /\ Count(m)' \in Nat /\ Due(m)' \in Nat /\ Over(m)' \in Nat /\ live'[m] \in Nat
    BY CountType, CountTypeNext DEF UsageInv
  <2>3. QED
    BY <2>1, <2>2, SMT DEF Balanced
<1>3. ASSUME disturbed' = {}, NEW m \in Months
      PROVE  live'[m] + Over(m)' = Count(m)' + Due(m)'
  <2>1. Balanced(m) /\ disturbed = {} /\ live[m] + Over(m) = Count(m) + Due(m)
    BY <1>3 DEF UsageInv, MonthsAreCounted
  <2>2. /\ Count(m) \in Nat /\ Due(m) \in Nat /\ Over(m) \in Nat /\ live[m] \in Nat
        /\ Count(m)' \in Nat /\ Due(m)' \in Nat /\ Over(m)' \in Nat /\ live'[m] \in Nat
    BY CountType, CountTypeNext DEF UsageInv
  <2>3. \/ live'[m] + Over(m)' + Count(m) + Due(m) = live[m] + Over(m) + Count(m)' + Due(m)'
        \/ live'[m] + Over(m)' = Count(m)' + Due(m)'
    BY <2>1, Zenon DEF Balanced
  <2>4. QED
    BY <2>1, <2>2, <2>3, SMT
<1>4. QED
  BY <1>1, <1>2, <1>3 DEF MonthsAreBounded, MonthsAreCounted

\* What the only writer has read still stands.
Still(w) ==
    /\ writer'[w].pc \in {"counting", "discounting"} =>
         writer'[w].count = usage'[writer'[w].month]
    /\ writer'[w].pc = "recounting" => writer'[w].count = live'[writer'[w].month]
    /\ writer'[w].pc = "allowed" => live'[today'.m] < MaxExpenses

LEMMA OneByParts ==
    ASSUME NEW w \in Writers, OnlyWriter(w), user'.plan \notin Paid, Still(w)
    PROVE  OneAtATime'
BY DEF OneAtATime, OnlyWriter, Still, Busy

\* How the rows change.
LEMMA RowKeepsCounts ==
    ASSUME WritersKnowTheMonth, NEW month \in Months, usage' = WithRow(month), NEW m \in Months
    PROVE  Count(m)' = Count(m)
BY DEF WritersKnowTheMonth, WithRow, Count

LEMMA SavedCount ==
    ASSUME WritersKnowTheMonth, NEW k \in DOMAIN usage, NEW n,
           usage' = [usage EXCEPT ![k] = n], NEW m \in Months
    PROVE  Count(m)' = IF m = k THEN n ELSE Count(m)
BY DEF WritersKnowTheMonth, Count

LEMMA RecountedCount ==
    ASSUME WritersKnowTheMonth, NEW k \in Months, NEW n,
           usage' = [WithRow(k) EXCEPT ![k] = n], NEW m \in Months
    PROVE  Count(m)' = IF m = k THEN n ELSE Count(m)
<1> DEFINE rows == WithRow(k)
<1>1. /\ DOMAIN rows = DOMAIN usage \cup {k}
      /\ \A i \in DOMAIN rows : rows[i] = Count(i)
      /\ rows = [i \in DOMAIN rows |-> rows[i]]
  BY DEF WithRow, Count
<1>2. usage' = [rows EXCEPT ![k] = n]
  OBVIOUS
<1> HIDE DEF rows
<1>3. DOMAIN usage' = DOMAIN rows /\ \A i \in DOMAIN rows : usage'[i] = IF i = k THEN n ELSE rows[i]
  BY <1>1, <1>2
<1>4. QED
  BY <1>1, <1>3 DEF Count

\* The step of the only writer: nothing it read is stale, every month stays
\* balanced, and no month but the present one grows.
Orderly(w) ==
    /\ Still(w)
    /\ \A m \in Months : Balanced(m)
    /\ \A m \in Months : live'[m] <= MaxExpenses /\ (m > today.m => live'[m] = 0)

Steady ==
    UsageInv /\ TypeOK' /\ WritersKnowTheMonth' /\ Undisturbed /\ Undisturbed'

LEMMA SteadyFacts ==
    ASSUME Steady
    PROVE  /\ user.plan \notin Paid
           /\ today.m \in Months /\ MaxExpenses \in Nat
           /\ writer \in [Writers -> Job] /\ live \in [Months -> Nat]
           /\ \A m \in Months :
                /\ m \in Nat /\ live[m] \in Nat /\ live[m] <= MaxExpenses
                /\ m > today.m => live[m] = 0
                /\ m >= today.m => live[m] + Over(m) <= Count(m) + Due(m)
                /\ Count(m) \in Nat /\ Due(m) \in Nat /\ Over(m) \in Nat
BY MonthsHaveDays, LimitAssumption, CountType
   DEF Steady, UsageInv, OneAtATime, MonthsAreBounded, TypeOK, WritersKnowTheMonth, Job

LEMMA AllowedOrderly ==
    ASSUME Steady, NEW w \in Writers, OnlyWriter(w), CanAddExpense(w)
    PROVE  Orderly(w) /\ user'.plan \notin Paid
<1> DEFINE month == UsageMonth(WithPlan, today)
<1>1. month = today.m /\ user'.plan \notin Paid
  BY SteadyFacts, UsageMonthType, WithPlanType DEF CanAddExpense, Steady, UsageInv
<1>2. /\ writer[w].pc = "idle" /\ usage' = WithRow(month) /\ UNCHANGED <<today, live>>
      /\ writer' = [writer EXCEPT ![w] = IF Allowed(usage'[month])
                      THEN [Idle EXCEPT !.pc = "allowed"] ELSE Idle]
  BY DEF CanAddExpense
<1> HIDE DEF month
<1>3. /\ writer'[w].pc \in {"idle", "allowed"}
      /\ writer'[w].pc = "allowed" => Allowed(usage'[month])
  BY <1>2, SteadyFacts DEF Idle
<1>4. usage'[month] = Count(month)
  BY <1>1, <1>2, SteadyFacts, WithRowType DEF Steady, UsageInv
<1>5. \A m \in Months : /\ Count(m)' = Count(m)
                        /\ Due(m) = 0 /\ Due(m)' = 0 /\ Over(m) = 0 /\ Over(m)' = 0
  BY <1>1, <1>2, <1>3, SteadyFacts, RowKeepsCounts, DueOfOne DEF Steady, UsageInv
<1>6. \A m \in Months : Balanced(m)
  BY <1>2, <1>5, SteadyFacts DEF Balanced
<1>7. writer'[w].pc = "allowed" => live[today.m] < MaxExpenses
  BY <1>1, <1>3, <1>4, <1>5, SteadyFacts DEF Allowed
<1>8. Still(w)
  BY <1>2, <1>3, <1>7 DEF Still
<1>9. QED
  BY <1>1, <1>2, <1>6, <1>8, SteadyFacts DEF Orderly

LEMMA InsertedOrderly ==
    ASSUME Steady, NEW w \in Writers, OnlyWriter(w), InsertExpense(w)
    PROVE  Orderly(w) /\ user'.plan \notin Paid
<1>1. /\ writer[w].pc = "allowed" /\ live' = [live EXCEPT ![today.m] = @ + 1]
      /\ writer' = [writer EXCEPT ![w].pc = "inserted"]
      /\ UNCHANGED <<today, user, usage>>
  BY DEF InsertExpense
<1>2. writer'[w].pc = "inserted"
  BY <1>1, SteadyFacts DEF Job
<1>3. live[today.m] < MaxExpenses
  BY <1>1 DEF Steady, UsageInv, OneAtATime, Busy
<1>4. \A m \in Months : /\ Count(m)' = Count(m) /\ Due(m) = 0 /\ Over(m) = 0 /\ Over(m)' = 0
                        /\ Due(m)' = IF m = today.m THEN 1 ELSE 0
                        /\ live'[m] = IF m = today.m THEN live[m] + 1 ELSE live[m]
  BY <1>1, <1>2, SteadyFacts, DueOfOne DEF Count
<1>5. \A m \in Months : Balanced(m)
  BY <1>4, SteadyFacts DEF Balanced
<1>6. \A m \in Months : live'[m] <= MaxExpenses /\ (m > today.m => live'[m] = 0)
  BY <1>3, <1>4, SteadyFacts
<1>7. QED
  BY <1>1, <1>2, <1>5, <1>6, SteadyFacts DEF Orderly, Still

LEMMA CountingOrderly ==
    ASSUME Steady, NEW w \in Writers, OnlyWriter(w), ReadForIncrement(w)
    PROVE  Orderly(w) /\ user'.plan \notin Paid
<1> DEFINE month == UsageMonth(user, today)
<1>1. month = today.m
  BY SteadyFacts, UsageMonthType DEF Steady, UsageInv, TypeOK
<1>2. /\ writer[w].pc = "inserted" /\ usage' = WithRow(month) /\ UNCHANGED <<today, user, live>>
      /\ writer' = [writer EXCEPT ![w] =
                      [pc |-> "counting", month |-> month, count |-> usage'[month]]]
  BY DEF ReadForIncrement
<1> HIDE DEF month
<1>3. writer'[w] = [pc |-> "counting", month |-> month, count |-> usage'[month]]
  BY <1>2, SteadyFacts
<1>4. \A m \in Months : /\ Count(m)' = Count(m) /\ Due(m)' = Due(m)
                        /\ Over(m) = 0 /\ Over(m)' = 0
  BY <1>1, <1>2, <1>3, SteadyFacts, RowKeepsCounts, DueOfOne DEF Steady, UsageInv
<1>5. \A m \in Months : Balanced(m)
  BY <1>2, <1>4, SteadyFacts DEF Balanced
<1>6. QED
  BY <1>2, <1>3, <1>5, SteadyFacts DEF Orderly, Still

LEMMA CountedOrderly ==
    ASSUME Steady, NEW w \in Writers, OnlyWriter(w), SaveIncrement(w)
    PROVE  Orderly(w) /\ user'.plan \notin Paid
<1> DEFINE k == writer[w].month
<1>1. /\ writer[w].pc = "counting" /\ usage' = [usage EXCEPT ![k] = writer[w].count + 1]
      /\ writer' = [writer EXCEPT ![w] = Idle] /\ UNCHANGED <<today, user, live>>
  BY DEF SaveIncrement
<1>2. k \in DOMAIN usage /\ writer[w].count = usage[k] /\ usage[k] = Count(k)
  BY <1>1 DEF Steady, UsageInv, WritersKnowTheMonth, OneAtATime, Busy, Count
<1>3. writer'[w].pc = "idle"
  BY <1>1, SteadyFacts DEF Idle
<1>4. \A m \in Months : /\ Count(m)' = IF m = k THEN Count(k) + 1 ELSE Count(m)
                        /\ Due(m) = IF m = k THEN 1 ELSE 0
                        /\ Due(m)' = 0 /\ Over(m) = 0 /\ Over(m)' = 0
  BY <1>1, <1>2, <1>3, SavedCount, DueOfOne DEF Steady, UsageInv
<1> HIDE DEF k
<1>5. \A m \in Months : Balanced(m)
  BY <1>1, <1>4, SteadyFacts DEF Balanced
<1>6. QED
  BY <1>1, <1>3, <1>5, SteadyFacts DEF Orderly, Still

LEMMA DeletedOrderly ==
    ASSUME Steady, NEW w \in Writers, OnlyWriter(w), DeleteExpense(w)
    PROVE  Orderly(w) /\ user'.plan \notin Paid
<1>1. PICK k \in Months :
        /\ live[k] > 0 /\ live' = [live EXCEPT ![k] = @ - 1]
        /\ writer' = [writer EXCEPT ![w] = [Idle EXCEPT !.pc = "deleted", !.month = k]]
  BY DEF DeleteExpense
<1>2. writer[w].pc = "idle" /\ UNCHANGED <<today, user, usage>>
  BY DEF DeleteExpense
<1>3. writer'[w].pc = "deleted" /\ writer'[w].month = k
  BY <1>1, SteadyFacts DEF Idle
<1>4. \A m \in Months : /\ Count(m)' = Count(m) /\ Due(m) = 0 /\ Due(m)' = 0 /\ Over(m) = 0
                        /\ Over(m)' = IF m = k THEN 1 ELSE 0
                        /\ live'[m] = IF m = k THEN live[m] - 1 ELSE live[m]
  BY <1>1, <1>2, <1>3, SteadyFacts, DueOfOne DEF Count
<1>5. \A m \in Months : Balanced(m)
  BY <1>4, SteadyFacts DEF Balanced
<1>6. \A m \in Months : live'[m] <= MaxExpenses /\ (m > today.m => live'[m] = 0)
  BY <1>1, <1>4, SteadyFacts
<1>7. QED
  BY <1>2, <1>3, <1>5, <1>6, SteadyFacts DEF Orderly, Still

LEMMA DiscountingOrderly ==
    ASSUME Steady, NEW w \in Writers, OnlyWriter(w), ReadForDecrement(w)
    PROVE  Orderly(w) /\ user'.plan \notin Paid
<1> DEFINE k == writer[w].month
           new == [pc |-> "discounting", month |-> k, count |-> usage[k]]
<1>1. /\ writer[w].pc = "deleted" /\ UNCHANGED <<today, user, usage, live>>
      /\ writer' = [writer EXCEPT ![w] = IF k \in DOMAIN usage /\ usage[k] > 0
                                         THEN new ELSE Idle]
  BY DEF ReadForDecrement
<1>2. k \in Months
  BY <1>1 DEF Steady, UsageInv, WritersKnowTheMonth
<1>3. \A m \in Months : /\ Count(m)' = Count(m) /\ Due(m) = 0
                        /\ Over(m) = IF m = k THEN 1 ELSE 0
  BY <1>1, DueOfOne DEF Count
<1>4. CASE k \in DOMAIN usage /\ usage[k] > 0
  <2>1. writer'[w] = new
    BY <1>1, <1>4, SteadyFacts
  <2>2. \A m \in Months : Due(m)' = 0 /\ Over(m)' = IF m = k THEN 1 ELSE 0
    BY <2>1, DueOfOne
  <2> HIDE DEF k
  <2>3. \A m \in Months : Balanced(m)
    BY <1>1, <1>3, <2>2, SteadyFacts DEF Balanced
  <2>4. QED
    BY <1>1, <2>1, <2>3, SteadyFacts DEF Orderly, Still
<1>5. CASE ~(k \in DOMAIN usage /\ usage[k] > 0)
  <2>1. writer'[w] = Idle
    BY <1>1, <1>5, SteadyFacts
  <2>2. Count(k) = 0
    BY <1>2, <1>5 DEF Count, Steady, UsageInv, WritersKnowTheMonth
  <2>3. \A m \in Months : Due(m)' = 0 /\ Over(m)' = 0
    BY <2>1, DueOfOne DEF Idle
  <2>4. k < today.m
    <3>1. ~(live[k] + Over(k) <= Count(k) + Due(k)) /\ k \in Nat
      BY <1>2, <1>3, <2>2, SteadyFacts
    <3>2. today.m \in Nat /\ ~(k >= today.m)
      BY <1>2, <3>1, SteadyFacts
    <3>3. QED
      BY <3>1, <3>2
  <2>5. disturbed # {}
    <3>1. ~(live[k] + Over(k) = Count(k) + Due(k))
      BY <1>2, <1>3, <2>2, SteadyFacts
    <3>2. QED
      BY <1>2, <3>1 DEF Steady, UsageInv, MonthsAreCounted
  <2> HIDE DEF k
  <2>6. \A m \in Months : Balanced(m)
    BY <1>1, <1>3, <2>3, <2>4, <2>5, SteadyFacts DEF Balanced
  <2>7. QED
    BY <1>1, <2>1, <2>6, SteadyFacts DEF Orderly, Still, Idle
<1>6. QED
  BY <1>4, <1>5

LEMMA DiscountedOrderly ==
    ASSUME Steady, NEW w \in Writers, OnlyWriter(w), SaveDecrement(w)
    PROVE  Orderly(w) /\ user'.plan \notin Paid
<1> DEFINE k == writer[w].month
<1>1. /\ writer[w].pc = "discounting" /\ usage' = [usage EXCEPT ![k] = writer[w].count - 1]
      /\ writer' = [writer EXCEPT ![w] = Idle] /\ UNCHANGED <<today, user, live>>
  BY DEF SaveDecrement
<1>2. k \in DOMAIN usage /\ writer[w].count = usage[k] /\ usage[k] = Count(k)
  BY <1>1 DEF Steady, UsageInv, WritersKnowTheMonth, OneAtATime, Busy, Count
<1>3. writer'[w].pc = "idle"
  BY <1>1, SteadyFacts DEF Idle
<1>4. \A m \in Months : /\ Count(m)' = IF m = k THEN Count(k) - 1 ELSE Count(m)
                        /\ Over(m) = IF m = k THEN 1 ELSE 0
                        /\ Due(m)' = 0 /\ Due(m) = 0 /\ Over(m)' = 0
  BY <1>1, <1>2, <1>3, SavedCount, DueOfOne DEF Steady, UsageInv
<1> HIDE DEF k
<1>5. \A m \in Months : Balanced(m)
  BY <1>1, <1>4, SteadyFacts DEF Balanced
<1>6. QED
  BY <1>1, <1>3, <1>5, SteadyFacts DEF Orderly, Still

LEMMA RecountingOrderly ==
    ASSUME Steady, NEW w \in Writers, OnlyWriter(w), CountRecords(w)
    PROVE  Orderly(w) /\ user'.plan \notin Paid
<1>1. PICK k \in LivedMonths :
        writer' = [writer EXCEPT ![w] = [pc |-> "recounting", month |-> k, count |-> live[k]]]
  BY DEF CountRecords
<1>2. writer[w].pc = "idle" /\ user' = WithPlan /\ UNCHANGED <<today, usage, live>>
  BY DEF CountRecords
<1>3. writer'[w] = [pc |-> "recounting", month |-> k, count |-> live[k]]
  BY <1>1, SteadyFacts
<1>4. user'.plan \notin Paid
  BY <1>2, SteadyFacts, WithPlanType DEF Steady, UsageInv
<1>5. \A m \in Months : /\ Count(m)' = Count(m)
                        /\ Due(m) = 0 /\ Due(m)' = 0 /\ Over(m) = 0 /\ Over(m)' = 0
  BY <1>2, <1>3, DueOfOne DEF Count
<1>6. \A m \in Months : Balanced(m)
  BY <1>2, <1>5, SteadyFacts DEF Balanced
<1>7. QED
  BY <1>2, <1>3, <1>4, <1>6, SteadyFacts DEF Orderly, Still

LEMMA RecountedOrderly ==
    ASSUME Steady, NEW w \in Writers, OnlyWriter(w), SaveRecount(w) \/ DryRun(w)
    PROVE  Orderly(w) /\ user'.plan \notin Paid
<1> DEFINE k == writer[w].month
<1>1. /\ writer[w].pc = "recounting" /\ writer' = [writer EXCEPT ![w] = Idle]
      /\ UNCHANGED <<today, user, live>>
  BY DEF SaveRecount, DryRun
<1>2. k \in Months /\ writer[w].count = live[k]
  BY <1>1 DEF Steady, UsageInv, WritersKnowTheMonth, OneAtATime, Busy
<1>3. writer'[w].pc = "idle"
  BY <1>1, SteadyFacts DEF Idle
<1>4. \A m \in Months : Count(m)' = Count(m) \/ Count(m)' = live[m]
  <2>1. CASE SaveRecount(w)
    <3>1. usage' = [WithRow(k) EXCEPT ![k] = live[k]]
      BY <1>2, <2>1 DEF SaveRecount
    <3>2. WritersKnowTheMonth
      BY DEF Steady, UsageInv
    <3>3. \A m \in Months : Count(m)' = IF m = k THEN live[k] ELSE Count(m)
      BY <1>2, <3>1, <3>2, RecountedCount
    <3> HIDE DEF k
    <3>4. QED
      BY <3>3, Zenon
  <2>2. CASE DryRun(w)
    <3>1. usage' = [m \in DOMAIN usage \cup {k} |-> IF m \in DOMAIN usage THEN usage[m] ELSE live[k]]
      BY <1>2, <2>2 DEF DryRun
    <3> HIDE DEF k
    <3>2. DOMAIN usage' = DOMAIN usage \cup {k}
          /\ \A m \in DOMAIN usage' : usage'[m] = IF m \in DOMAIN usage THEN usage[m] ELSE live[k]
      BY <3>1
    <3>3. QED
      BY <3>2 DEF Count
  <2>3. QED
    BY <2>1, <2>2
<1>5. \A m \in Months : Due(m) = 0 /\ Due(m)' = 0 /\ Over(m) = 0 /\ Over(m)' = 0
  BY <1>1, <1>3, DueOfOne
<1> HIDE DEF k
<1>6. \A m \in Months : Balanced(m)
  BY <1>1, <1>4, <1>5, SteadyFacts DEF Balanced
<1>7. QED
  BY <1>1, <1>3, <1>6, SteadyFacts DEF Orderly, Still

LEMMA WriterCounts ==
    ASSUME UsageInv, NEW w \in Writers, WriterStep(w)
    PROVE  UsageInv'
<1>1. TypeOK' /\ WritersKnowTheMonth'
  BY WriterType DEF UsageInv
<1>2. disturbed \subseteq disturbed' /\ (Undisturbed' => Undisturbed)
  BY DisturbedGrows DEF Next
<1>3. CASE ~Undisturbed'
  <2>1. disturbed' # {}
    BY <1>3 DEF Undisturbed
  <2>2. QED
    BY <1>1, <1>3, <2>1 DEF UsageInv, OneAtATime, MonthsAreBounded, MonthsAreCounted
<1>4. CASE Undisturbed'
  <2>1. OnlyWriter(w) /\ ~Dies(w)
    BY <1>2, <1>4, OthersAreIdle DEF UsageInv
  <2>2. Steady
    BY <1>1, <1>2, <1>4 DEF Steady
  <2>3. Orderly(w) /\ user'.plan \notin Paid
    BY <2>1, <2>2, AllowedOrderly, InsertedOrderly, CountingOrderly, CountedOrderly,
       DeletedOrderly, DiscountingOrderly, DiscountedOrderly, RecountingOrderly,
       RecountedOrderly DEF WriterStep
  <2>4. UNCHANGED today
    BY <2>1 DEF WriterStep, CanAddExpense, InsertExpense, ReadForIncrement, SaveIncrement,
       DeleteExpense, ReadForDecrement, SaveDecrement, CountRecords, SaveRecount, DryRun
  <2>5. MonthsAreBounded' /\ MonthsAreCounted'
    BY <1>1, <1>2, <1>4, <2>3, <2>4, BalancedIsEnough DEF Orderly
  <2>6. QED
    BY <1>1, <2>1, <2>3, <2>5, OneByParts DEF Orderly, UsageInv
<1>5. QED
  BY <1>3, <1>4

-----------------------------------------------------------------------------
(* The counters: plans and days.                                           *)

LEMMA PlanCounts ==
    ASSUME UsageInv, Subscribe \/ JoinOrganization \/ DowngradeToBasic
    PROVE  UsageInv'
<1>1. TypeOK' /\ WritersKnowTheMonth'
  BY AccountType DEF UsageInv
<1>2. CASE Subscribe \/ JoinOrganization
  <2>1. disturbed' # {} /\ ~Undisturbed'
    BY <1>2 DEF Subscribe, JoinOrganization, Disturb, Undisturbed
  <2>2. QED
    BY <1>1, <2>1 DEF UsageInv, OneAtATime, MonthsAreBounded, MonthsAreCounted
<1>3. CASE DowngradeToBasic
  <2>1. user'.plan = "BASIC" /\ UNCHANGED <<today, usage, live, writer, disturbed>>
    BY <1>3 DEF DowngradeToBasic
  <2>2. UNCHANGED Busy
    BY <2>1 DEF Busy
  <2>3. OneAtATime'
    BY <2>1, <2>2 DEF UsageInv, OneAtATime, Undisturbed, Paid
  <2>4. MonthsAreBounded' /\ MonthsAreCounted'
    BY <2>1 DEF UsageInv, MonthsAreBounded, MonthsAreCounted, Undisturbed, Count, Due, Over
  <2>5. QED
    BY <1>1, <2>3, <2>4 DEF UsageInv
<1>4. QED
  BY <1>2, <1>3

LEMMA TomorrowCounts ==
    ASSUME UsageInv, Tomorrow
    PROVE  UsageInv'
<1>1. TypeOK' /\ WritersKnowTheMonth'
  BY AccountType DEF UsageInv
<1>2. disturbed \subseteq disturbed' /\ (Undisturbed' => Undisturbed)
  BY DisturbedGrows DEF Next
<1>3. CASE ~Undisturbed'
  <2>1. disturbed' # {}
    BY <1>3 DEF Undisturbed
  <2>2. QED
    BY <1>1, <1>3, <2>1 DEF UsageInv, OneAtATime, MonthsAreBounded, MonthsAreCounted
<1>4. CASE Undisturbed'
  <2>1. Steady
    BY <1>1, <1>2, <1>4 DEF Steady
  <2>2. /\ today'.m \in {today.m, today.m + 1} /\ today'.m \in Months
        /\ UNCHANGED <<user, usage, live, writer>>
    BY <1>1, DayAfterType, MonthsHaveDays DEF Tomorrow, UsageInv, TypeOK, WritersKnowTheMonth
  <2>3. UNCHANGED Busy /\ user'.plan \notin Paid
    BY <2>1, <2>2, SteadyFacts DEF Busy
  <2>4. live[today.m] < MaxExpenses => live'[today'.m] < MaxExpenses
    <3>1. CASE today'.m = today.m
      BY <2>2, <3>1
    <3>2. CASE today'.m = today.m + 1
      BY <2>1, <2>2, <3>2, SteadyFacts, LimitAssumption
    <3>3. QED
      BY <2>2, <3>1, <3>2
  <2>5. OneAtATime'
    BY <1>2, <1>4, <2>2, <2>3, <2>4 DEF OneAtATime, UsageInv
  <2>6. \A m \in Months : Count(m)' = Count(m) /\ Over(m)' = Over(m) /\ live'[m] = live[m]
    BY <2>2 DEF Count, Over
  <2>7. ASSUME NEW m \in Months
        PROVE  /\ live'[m] <= MaxExpenses
               /\ m > today'.m => live'[m] = 0
    BY <2>1, <2>2, <2>7, SteadyFacts
  <2>8. CASE \E w \in Writers : writer[w].pc = "inserted"
    <3>1. disturbed' # {}
      BY <2>8 DEF Tomorrow, Disturb
    <3>2. \A m : Over(m) = 0
      BY <1>2, <1>4, <2>8 DEF UsageInv, OneAtATime, Busy, Over
    <3>3. ASSUME NEW m \in Months, m >= today'.m
          PROVE  live'[m] + Over(m)' <= Count(m)' + Due(m)'
      <4>1. CASE today'.m = today.m
        <5>1. Due(m)' = Due(m)
          BY <2>2, <4>1 DEF Due
        <5>2. QED
          BY <2>1, <2>6, <3>3, <4>1, <5>1, SteadyFacts
      <4>2. CASE today'.m = today.m + 1
        <5>1. live'[m] = 0 /\ Over(m)' = 0
          BY <2>1, <2>6, <3>2, <3>3, <4>2, SteadyFacts
        <5>2. QED
          BY <1>1, <5>1, CountTypeNext
      <4>3. QED
        BY <2>2, <4>1, <4>2
    <3>4. QED
      BY <1>1, <2>5, <2>7, <3>1, <3>3 DEF UsageInv, MonthsAreBounded, MonthsAreCounted
  <2>9. CASE ~(\E w \in Writers : writer[w].pc = "inserted")
    <3>1. \A m : Due(m)' = Due(m)
      BY <2>2, <2>9 DEF Due
    <3>2. disturbed' = disturbed
      BY <2>9 DEF Tomorrow
    <3>3. ASSUME NEW m \in Months, m >= today'.m
          PROVE  live'[m] + Over(m)' <= Count(m)' + Due(m)'
      <4>1. m >= today.m
        BY <2>1, <2>2, <3>3, SteadyFacts
      <4>2. QED
        BY <2>1, <2>6, <3>1, <4>1, SteadyFacts
    <3>4. MonthsAreCounted'
      BY <2>6, <3>1, <3>2 DEF UsageInv, MonthsAreCounted
    <3>5. QED
      BY <1>1, <2>5, <2>7, <3>3, <3>4 DEF UsageInv, MonthsAreBounded
  <2>10. QED
    BY <2>8, <2>9
<1>5. QED
  BY <1>3, <1>4

LEMMA UsageInit == Init => UsageInv
<1> SUFFICES ASSUME Init PROVE UsageInv
  OBVIOUS
<1>1. /\ today = [m |-> 2, d |-> 1] /\ disturbed = {} /\ usage = [m \in {} |-> 0]
      /\ live = [m \in Months |-> 0] /\ writer = [w \in Writers |-> Idle]
      /\ user \in [plan : {"NONE", "BASIC"}, billing : {0}]
  BY DEF Init
<1>2. today.m \in LivedMonths /\ today.m \in Months /\ today \in Dates
  BY <1>1, MonthsHaveDays DEF Dates
<1>3. TypeOK
  <2>1. Idle \in Job
    BY DEF Idle, Job
  <2>2. writer \in [Writers -> Job] /\ live \in [Months -> Nat]
    BY <1>1, <2>1
  <2>3. {} \in SUBSET Months /\ usage \in [{} -> Nat]
    BY <1>1
  <2>4. user \in [plan : Paid \cup {"NONE", "BASIC"}, billing : Nat]
    BY <1>1
  <2>5. QED
    BY <1>1, <1>2, <2>2, <2>3, <2>4 DEF TypeOK, Job
<1>4. \A w \in Writers : writer[w].pc = "idle"
  BY <1>1 DEF Idle
<1>5. WritersKnowTheMonth
  BY <1>1, <1>2, <1>4 DEF WritersKnowTheMonth
<1>6. OneAtATime
  BY <1>1, <1>4 DEF OneAtATime, Busy, Paid
<1>7. \A m \in Months : Due(m) = 0 /\ Over(m) = 0 /\ Count(m) = 0 /\ live[m] = 0
  BY <1>1, <1>4 DEF Due, Over, Count
<1>8. MonthsAreBounded /\ MonthsAreCounted
  BY <1>7, LimitAssumption DEF MonthsAreBounded, MonthsAreCounted
<1>9. QED
  BY <1>3, <1>5, <1>6, <1>8 DEF UsageInv

LEMMA UsageStutter == ASSUME UsageInv, UNCHANGED vars PROVE UsageInv'
BY DEF UsageInv, vars, TypeOK, WritersKnowTheMonth, OneAtATime, MonthsAreBounded,
       MonthsAreCounted, Undisturbed, Busy, Count, Due, Over

\* The counters are what the requests that are still at work leave to do: the
\* inductive invariant of the monthly usage, for every calendar, limit, number
\* of requests and disturbance.
THEOREM UsageInvariantHolds == Spec => []UsageInv
<1>1. UsageInv /\ [Next]_vars => UsageInv'
  BY WriterCounts, PlanCounts, TomorrowCounts, UsageStutter DEF Next
<1>2. QED
  BY <1>1, UsageInit, PTL DEF Spec

-----------------------------------------------------------------------------
(* The counters: what they promise.                                        *)

LEMMA CalendarMonthContainsToday ==
    ASSUME NEW x \in Dates, x.m \in LivedMonths
    PROVE  /\ ~Before(x, CalendarMonthPeriod(x).start)
           /\ ~Before(CalendarMonthPeriod(x).end, x)
BY DateType, MonthsHaveDays DEF CalendarMonthPeriod, Before

LEMMA AnniversaryContainsToday ==
    ASSUME NEW x \in Dates, x.m \in LivedMonths, NEW b \in Nat \ {0}, EveryMonthHas(b)
    PROVE  /\ ~Before(x, AnniversaryPeriod(b, x).start)
           /\ ~Before(AnniversaryPeriod(b, x).end, x)
<1> DEFINE k == IF x.d < b THEN x.m - 1 ELSE x.m
<1>1. AnniversaryPeriod(b, x) = [start |-> [m |-> k, d |-> b],
                                 end |-> IF b > 1 THEN [m |-> k + 1, d |-> b - 1]
                                         ELSE [m |-> k, d |-> MonthDays[k]]]
  BY PeriodOfADate
<1>2. /\ x.m \in Nat \ {0} /\ x.d \in Nat \ {0} /\ x.d <= MonthDays[x.m]
      /\ MonthDays[x.m] \in Nat /\ x.m \in Months
  BY DateType, MonthsHaveDays
<1>3. CASE x.d < b
  <2>1. k = x.m - 1 /\ k + 1 = x.m /\ b > 1
    BY <1>2, <1>3
  <2> HIDE DEF k
  <2>2. QED
    BY <1>1, <1>2, <1>3, <2>1 DEF Before
<1>4. CASE ~(x.d < b)
  <2>1. k = x.m
    BY <1>4
  <2> HIDE DEF k
  <2>2. QED
    BY <1>1, <1>2, <1>4, <2>1 DEF Before
<1>5. QED
  BY <1>3, <1>4

\* The README of users says that the basic plan has 100 expenses a month, that
\* the counters follow the records by themselves and that a period is the one
\* of today: the limit holds while requests come one at a time and no plan was
\* paid, the counters are exact between undisturbed requests, and the period of
\* every plan that began on a day every month has contains today.
THEOREM UsageCounted == Spec => []UsageIsCounted
<1>1. UsageInv => LimitHolds
  BY DEF UsageInv, MonthsAreBounded, Undisturbed, LimitHolds
<1>2. UsageInv => CountersMatch
  <2> SUFFICES ASSUME UsageInv, disturbed = {}, Busy = {}, NEW m \in Months
               PROVE  Count(m) = live[m]
    BY DEF CountersMatch
  <2>1. Due(m) = 0 /\ Over(m) = 0
    BY DEF Due, Over, Busy
  <2>2. live[m] + Over(m) = Count(m) + Due(m)
    BY DEF UsageInv, MonthsAreCounted
  <2>3. QED
    BY <2>1, <2>2, CountType DEF UsageInv
<1>3. UsageInv => PeriodContainsToday
  <2> SUFFICES ASSUME UsageInv, EveryMonthHas(user.billing)
               PROVE  /\ ~Before(today, BillingPeriod(user, today).start)
                      /\ ~Before(BillingPeriod(user, today).end, today)
    BY DEF PeriodContainsToday
  <2>1. today \in Dates /\ today.m \in LivedMonths /\ user.billing \in Nat
    BY DEF UsageInv, TypeOK, WritersKnowTheMonth
  <2>2. CASE user.plan \in Paid /\ user.billing # 0
    BY <2>1, <2>2, AnniversaryContainsToday DEF BillingPeriod
  <2>3. CASE ~(user.plan \in Paid /\ user.billing # 0)
    BY <2>1, <2>3, CalendarMonthContainsToday DEF BillingPeriod
  <2>4. QED
    BY <2>2, <2>3
<1>4. UsageInv => UsageIsCounted
  BY <1>1, <1>2, <1>3 DEF UsageIsCounted
<1>5. QED
  BY <1>4, UsageInvariantHolds, PTL

LEMMA NextPeriodFollows ==
    ASSUME NEW x \in Dates, NEW y \in Dates, x.m \in LivedMonths, y.m \in LivedMonths,
           y = DayAfter(x), NEW b \in Nat \ {0}, EveryMonthHas(b)
    PROVE  \/ AnniversaryPeriod(b, y) = AnniversaryPeriod(b, x)
           \/ AnniversaryPeriod(b, y).start = DayAfter(AnniversaryPeriod(b, x).end)
<1>1. /\ x.m \in Nat \ {0} /\ x.d \in Nat \ {0} /\ x.d <= MonthDays[x.m]
      /\ x.m \in Months /\ x.m - 1 \in Months /\ b <= MonthDays[x.m]
      /\ MonthDays[x.m] \in Nat \ {0} /\ MonthDays[x.m - 1] \in Nat \ {0}
      /\ y = IF x.d < MonthDays[x.m] THEN [m |-> x.m, d |-> x.d + 1]
             ELSE [m |-> x.m + 1, d |-> 1]
  BY DateType, MonthsHaveDays, DayAfterType DEF EveryMonthHas
<1> DEFINE k == IF x.d < b THEN x.m - 1 ELSE x.m
           l == IF y.d < b THEN y.m - 1 ELSE y.m
           End(i) == IF b > 1 THEN [m |-> i + 1, d |-> b - 1]
                     ELSE [m |-> i, d |-> MonthDays[i]]
<1>2. /\ AnniversaryPeriod(b, x) = [start |-> [m |-> k, d |-> b], end |-> End(k)]
      /\ AnniversaryPeriod(b, y) = [start |-> [m |-> l, d |-> b], end |-> End(l)]
  BY PeriodOfADate
<1>3. l = k \/ l = k + 1
  <2>1. CASE x.d < MonthDays[x.m]
    BY <1>1, <2>1
  <2>2. CASE ~(x.d < MonthDays[x.m])
    BY <1>1, <2>2
  <2>3. QED
    BY <2>1, <2>2
<1>4. /\ k \in Nat /\ k \in Months /\ MonthDays[k] \in Nat
      /\ b <= MonthDays[k + 1] /\ MonthDays[k + 1] \in Nat
  <2>1. k \in {x.m, x.m - 1} /\ x.m + 1 \in Months
    BY <1>1, MonthsHaveDays
  <2>2. k \in Months /\ k + 1 \in Months
    BY <1>1, <2>1
  <2> HIDE DEF k
  <2>3. QED
    BY <2>2, MonthsHaveDays DEF EveryMonthHas
<1> HIDE DEF k, l
<1>5. DayAfter(End(k)) = [m |-> k + 1, d |-> b]
  <2>1. CASE b > 1
    <3>1. End(k) = [m |-> k + 1, d |-> b - 1]
      BY <2>1
    <3>2. b - 1 < MonthDays[k + 1] /\ (b - 1) + 1 = b
      BY <1>4
    <3>3. QED
      BY <3>1, <3>2 DEF DayAfter
  <2>2. CASE ~(b > 1)
    <3>1. End(k) = [m |-> k, d |-> MonthDays[k]] /\ b = 1
      BY <2>2
    <3>2. QED
      BY <1>4, <3>1 DEF DayAfter
  <2>3. QED
    BY <2>1, <2>2
<1>6. QED
  BY <1>2, <1>3, <1>5

LEMMA NextMonthFollows ==
    ASSUME NEW x \in Dates, NEW y \in Dates, x.m \in LivedMonths, y = DayAfter(x)
    PROVE  \/ CalendarMonthPeriod(y) = CalendarMonthPeriod(x)
           \/ CalendarMonthPeriod(y).start = DayAfter(CalendarMonthPeriod(x).end)
<1>1. MonthDays[x.m] \in Nat /\ x.d \in Nat /\ x.d <= MonthDays[x.m]
  BY DateType, MonthsHaveDays
<1>2. y = IF x.d < MonthDays[x.m] THEN [m |-> x.m, d |-> x.d + 1]
          ELSE [m |-> x.m + 1, d |-> 1]
  BY DayAfterType
<1>3. DayAfter([m |-> x.m, d |-> MonthDays[x.m]]) = [m |-> x.m + 1, d |-> 1]
  BY <1>1 DEF DayAfter
<1>4. CASE x.d < MonthDays[x.m]
  BY <1>2, <1>4 DEF CalendarMonthPeriod
<1>5. CASE ~(x.d < MonthDays[x.m])
  BY <1>2, <1>3, <1>5 DEF CalendarMonthPeriod
<1>6. QED
  BY <1>4, <1>5

\* MonthlyUsage.get_current_period gives periods that follow one another without
\* gap or overlap as the days pass, for every plan that began on a day every
\* month has.
THEOREM PeriodsFollow == Spec => PeriodsTile
<1>1. UsageInv /\ UsageInv' /\ [Next]_vars => PeriodFollows
  <2> SUFFICES ASSUME UsageInv, UsageInv', [Next]_vars, today' # today,
                      EveryMonthHas(user.billing)
               PROVE  \/ BillingPeriod(user, today') = BillingPeriod(user, today)
                      \/ BillingPeriod(user, today').start
                           = DayAfter(BillingPeriod(user, today).end)
    BY DEF PeriodFollows
  <2>1. Tomorrow
    BY DEF Next, vars, WriterStep, CanAddExpense, InsertExpense, ReadForIncrement,
           SaveIncrement, DeleteExpense, ReadForDecrement, SaveDecrement, CountRecords,
           SaveRecount, DryRun, Dies, Subscribe, JoinOrganization, DowngradeToBasic
  <2>2. /\ today \in Dates /\ today.m \in LivedMonths /\ today' \in Dates
        /\ today'.m \in LivedMonths /\ today' = DayAfter(today) /\ user.billing \in Nat
    BY <2>1 DEF UsageInv, TypeOK, WritersKnowTheMonth, Tomorrow
  <2>3. CASE user.plan \in Paid /\ user.billing # 0
    BY <2>2, <2>3, NextPeriodFollows DEF BillingPeriod
  <2>4. CASE ~(user.plan \in Paid /\ user.billing # 0)
    BY <2>2, <2>4, NextMonthFollows DEF BillingPeriod
  <2>5. QED
    BY <2>3, <2>4
<1>2. QED
  BY <1>1, UsageInvariantHolds, PTL DEF PeriodsTile, Spec

-----------------------------------------------------------------------------
(* The kill switch.                                                        *)

\* What the views assume: durations are shorter than the one of a revocation,
\* which lasts longer than the time looked at, and a user's requests are served
\* one at a time.  (Connect, OfferResume and time are nobody's.)
PauseAssumption ==
    /\ Pause!DurationAssumption /\ Pause!HorizonAssumption /\ Pause!RevokedAssumption
    /\ Horizon <= RevokedHours
    /\ \A v, w \in PauseWorkers : v = w

\* A request that pauses read an end no earlier than the present one, since only
\* a connection clears it meanwhile; one that resumes or confirms found the
\* account connected, and it still is; a revocation lasts to the end.
RequestsKnowTheRow ==
    \A w \in PauseWorkers :
       /\ proc[w].pc = "pausing" => until <= proc[w].read
       /\ proc[w].pc \in {"resuming", "confirming"} => status = "connected"
       /\ proc[w].pc = "revoking" => proc[w].new > Horizon
RevokedToTheEnd == status = "revoked" => until > Horizon

PauseInv == Pause!TypeOK /\ RequestsKnowTheRow /\ RevokedToTheEnd

Proc == [pc : Pause!PCs, read : 0..Pause!Longest, new : 0..Pause!Longest]

LEMMA PauseTypes ==
    ASSUME PauseAssumption
    PROVE  /\ Horizon \in Nat /\ RevokedHours \in Nat /\ Pause!Longest = Horizon + RevokedHours
           /\ \A h \in Durations : h \in Nat /\ h < RevokedHours
           /\ Pause!TypeOK <=> /\ now \in 1..Horizon
                               /\ status \in {"absent", "connected", "revoked"}
                               /\ until \in 0..Pause!Longest /\ offer \in BOOLEAN
                               /\ proc \in [PauseWorkers -> Proc]
BY DEF PauseAssumption, Pause!DurationAssumption, Pause!HorizonAssumption,
       Pause!RevokedAssumption, Pause!Longest, Pause!TypeOK, Pause!None, Proc

\* A request that begins: what it read and what it will save.
LEMMA RequestBegins ==
    ASSUME PauseAssumption, PauseInv, NEW w \in PauseWorkers, NEW pc \in Pause!PCs \ {"idle"},
           NEW new \in 0..Pause!Longest, Pause!Start(w, pc, new), offer' \in BOOLEAN,
           pc \in {"resuming", "confirming"} => status = "connected",
           pc = "revoking" => new > Horizon
    PROVE  PauseInv' /\ UNCHANGED until
<1> DEFINE begun == [pc |-> pc, read |-> until, new |-> new]
<1>1. /\ proc \in [PauseWorkers -> Proc] /\ until \in 0..Pause!Longest
      /\ proc' = [proc EXCEPT ![w] = begun] /\ UNCHANGED <<now, status, until>>
  BY PauseTypes DEF Pause!Start, PauseInv
<1>2. begun \in Proc
  BY <1>1 DEF Proc
<1>3. Pause!TypeOK'
  <2>1. proc' \in [PauseWorkers -> Proc]
    BY <1>1, <1>2
  <2>2. QED
    BY <1>1, <2>1 DEF PauseInv, Pause!TypeOK, Proc, Pause!None
<1>4. \A v \in PauseWorkers : proc'[v] = begun
  BY <1>1 DEF PauseAssumption
<1>5. until <= until
  BY <1>1, PauseTypes
<1>6. RequestsKnowTheRow' /\ RevokedToTheEnd'
  BY <1>1, <1>4, <1>5 DEF RequestsKnowTheRow, RevokedToTheEnd, PauseInv
<1>7. QED
  BY <1>1, <1>3, <1>6 DEF PauseInv

\* A request that ends, having saved an end of the kill switch.
LEMMA RequestEnds ==
    ASSUME PauseAssumption, PauseInv, NEW w \in PauseWorkers, NEW pc, Pause!Finish(w, pc),
           UNCHANGED <<now, offer>>, until' \in 0..Pause!Longest,
           status' \in {"absent", "connected", "revoked"},
           status' = "revoked" => until' > Horizon
    PROVE  PauseInv'
<1>1. proc \in [PauseWorkers -> Proc] /\ proc' = [proc EXCEPT ![w] = Pause!Idle]
  BY PauseTypes DEF Pause!Finish, PauseInv
<1>2. Pause!Idle \in Proc
  <2>1. 0 \in 0..Pause!Longest
    BY PauseTypes
  <2>2. QED
    BY <2>1 DEF Pause!Idle, Proc, Pause!PCs, Pause!None
<1>3. Pause!TypeOK'
  <2>1. proc' \in [PauseWorkers -> Proc]
    BY <1>1, <1>2
  <2>2. QED
    BY <2>1 DEF PauseInv, Pause!TypeOK, Proc, Pause!None
<1>4. \A v \in PauseWorkers : proc'[v].pc = "idle"
  BY <1>1 DEF PauseAssumption, Pause!Idle
<1>5. RequestsKnowTheRow' /\ RevokedToTheEnd'
  BY <1>4 DEF RequestsKnowTheRow, RevokedToTheEnd
<1>6. QED
  BY <1>3, <1>5 DEF PauseInv

LEMMA PauseSaved ==
    ASSUME PauseAssumption, PauseInv, NEW w \in PauseWorkers, Pause!SavePause(w)
    PROVE  until' >= until /\ PauseInv'
<1>1. /\ proc[w].pc = "pausing" /\ until' = Pause!Longer(w)
      /\ Pause!Finish(w, "pausing") /\ UNCHANGED <<now, status, offer>>
  BY DEF Pause!SavePause, Pause!Finish
<1>2. /\ proc[w] \in Proc /\ until \in 0..Pause!Longest /\ until <= proc[w].read
      /\ status = "revoked" => until > Horizon
  BY <1>1, PauseTypes DEF PauseInv, RequestsKnowTheRow, RevokedToTheEnd
<1>3. until' \in 0..Pause!Longest /\ until' >= until
  <2>1. CASE proc[w].read > proc[w].new
    BY <1>1, <1>2, <2>1, PauseTypes DEF Pause!Longer
  <2>2. CASE ~(proc[w].read > proc[w].new)
    <3>1. until' = proc[w].new
      BY <1>1, <2>2 DEF Pause!Longer
    <3>2. proc[w].new \in 0..Pause!Longest /\ proc[w].read \in 0..Pause!Longest
      BY <1>2 DEF Proc
    <3>3. QED
      BY <1>2, <2>2, <3>1, <3>2, PauseTypes
  <2>3. QED
    BY <2>1, <2>2
<1>4. status' = "revoked" => until' > Horizon
  BY <1>1, <1>2, <1>3, PauseTypes
<1>5. status' \in {"absent", "connected", "revoked"}
  BY <1>1, PauseTypes DEF PauseInv
<1>6. QED
  BY <1>1, <1>3, <1>4, <1>5, RequestEnds

LEMMA RequestHolds ==
    ASSUME PauseAssumption, PauseInv, NEW w \in PauseWorkers,
           \/ Pause!ReadForPause(w) \/ Pause!ReadForResume(w) \/ Pause!SaveResume(w)
           \/ Pause!ConfirmOffer(w) \/ Pause!SaveConfirmed(w)
           \/ Pause!ReadForDisconnect(w) \/ Pause!SaveDisconnect(w)
    PROVE  PauseInv'
<1>0. /\ Horizon \in Nat /\ RevokedHours \in Nat /\ Pause!Longest = Horizon + RevokedHours
      /\ Horizon <= RevokedHours /\ now \in 1..Horizon
      /\ offer \in BOOLEAN /\ status \in {"absent", "connected", "revoked"}
      /\ proc \in [PauseWorkers -> Proc]
  BY PauseTypes DEF PauseInv, PauseAssumption
<1>1. CASE Pause!ReadForPause(w)
  <2>1. PICK h \in Durations : Pause!Start(w, "pausing", now + h) /\ UNCHANGED offer
    BY <1>1 DEF Pause!ReadForPause
  <2>2. now + h \in 0..Pause!Longest
    BY <1>0, PauseTypes
  <2>3. QED
    BY <1>0, <2>1, <2>2, RequestBegins DEF Pause!PCs
<1>2. CASE Pause!ReadForResume(w)
  <2>1. 0 \in 0..Pause!Longest
    BY <1>0
  <2>2. Pause!Start(w, "resuming", 0) /\ status = "connected" /\ UNCHANGED offer
    BY <1>2 DEF Pause!ReadForResume, Pause!None
  <2>3. QED
    BY <1>0, <2>1, <2>2, RequestBegins DEF Pause!PCs
<1>3. CASE Pause!ConfirmOffer(w)
  <2>1. CASE status = "connected"
    <3>1. 0 \in 0..Pause!Longest
      BY <1>0
    <3>2. Pause!Start(w, "confirming", 0) /\ offer' = FALSE
      BY <1>3, <2>1 DEF Pause!ConfirmOffer, Pause!None
    <3>3. QED
      BY <1>0, <2>1, <3>1, <3>2, RequestBegins DEF Pause!PCs
  <2>2. CASE status # "connected"
    <3>1. UNCHANGED <<now, status, until, proc>> /\ offer' = FALSE
      BY <1>3, <2>2 DEF Pause!ConfirmOffer
    <3>2. QED
      BY <3>1 DEF PauseInv, Pause!TypeOK, RequestsKnowTheRow, RevokedToTheEnd
  <2>3. QED
    BY <2>1, <2>2
<1>4. CASE Pause!SaveResume(w) \/ Pause!SaveConfirmed(w)
  <2>1. PICK pc \in {"resuming", "confirming"} :
          /\ proc[w].pc = pc /\ Pause!Finish(w, pc) /\ until' = 0
          /\ UNCHANGED <<now, status, offer>>
    BY <1>4 DEF Pause!SaveResume, Pause!SaveConfirmed, Pause!Finish, Pause!None
  <2>2. status' = "connected" /\ until' \in 0..Pause!Longest
    BY <1>0, <2>1 DEF PauseInv, RequestsKnowTheRow
  <2>3. QED
    BY <2>1, <2>2, RequestEnds
<1>5. CASE Pause!ReadForDisconnect(w)
  <2>1. now + RevokedHours \in 0..Pause!Longest /\ now + RevokedHours > Horizon
    BY <1>0
  <2>2. Pause!Start(w, "revoking", now + RevokedHours) /\ UNCHANGED offer
    BY <1>5 DEF Pause!ReadForDisconnect
  <2>3. QED
    BY <1>0, <2>1, <2>2, RequestBegins DEF Pause!PCs
<1>6. CASE Pause!SaveDisconnect(w)
  <2>1. /\ Pause!Finish(w, "revoking") /\ proc[w].pc = "revoking"
        /\ status' = "revoked" /\ until' = proc[w].new /\ UNCHANGED <<now, offer>>
    BY <1>6 DEF Pause!SaveDisconnect, Pause!Finish
  <2>2. until' \in 0..Pause!Longest
    BY <1>0, <2>1 DEF Proc
  <2>3. until' > Horizon
    BY <2>1 DEF PauseInv, RequestsKnowTheRow
  <2>4. QED
    BY <2>1, <2>2, <2>3, RequestEnds
<1>7. QED
  BY <1>1, <1>2, <1>3, <1>4, <1>5, <1>6

LEMMA RowHolds ==
    ASSUME PauseAssumption, PauseInv, Pause!Connect \/ Pause!OfferResume \/ Pause!Tick
    PROVE  PauseInv'
<1>0. /\ Horizon \in Nat /\ RevokedHours \in Nat /\ Pause!Longest = Horizon + RevokedHours
      /\ now \in 1..Horizon /\ proc \in [PauseWorkers -> Proc]
  BY PauseTypes DEF PauseInv
<1>1. CASE Pause!Connect
  <2>1. status' = "connected" /\ until' = 0 /\ UNCHANGED <<now, offer, proc>>
    BY <1>1 DEF Pause!Connect, Pause!None
  <2>2. Pause!TypeOK'
    BY <1>0, <2>1 DEF PauseInv, Pause!TypeOK, Pause!None
  <2>3. \A w \in PauseWorkers : proc[w].pc = "pausing" => 0 <= proc[w].read
    BY <1>0 DEF Proc
  <2>4. QED
    BY <2>1, <2>2, <2>3 DEF PauseInv, RequestsKnowTheRow, RevokedToTheEnd
<1>2. CASE Pause!OfferResume
  BY <1>2 DEF Pause!OfferResume, PauseInv, Pause!TypeOK, RequestsKnowTheRow, RevokedToTheEnd
<1>3. CASE Pause!Tick
  <2>1. now' \in 1..Horizon /\ UNCHANGED <<status, until, offer, proc>>
    BY <1>0, <1>3 DEF Pause!Tick
  <2>2. QED
    BY <2>1 DEF PauseInv, Pause!TypeOK, RequestsKnowTheRow, RevokedToTheEnd
<1>4. QED
  BY <1>1, <1>2, <1>3

\* The row of the kill switch is what its requests believe it to be.
THEOREM PauseInvariantHolds == ASSUME PauseAssumption, Horizon > 0 PROVE Pause!Spec => []PauseInv
<1>1. Pause!Init => PauseInv
  <2> SUFFICES ASSUME Pause!Init PROVE PauseInv
    OBVIOUS
  <2>1. /\ now = 1 /\ status = "absent" /\ until = 0 /\ offer = FALSE
        /\ proc = [w \in PauseWorkers |-> Pause!Idle]
    BY DEF Pause!Init, Pause!None
  <2>2. 0 \in 0..Pause!Longest /\ 1 \in 1..Horizon
    BY PauseTypes
  <2>3. Pause!Idle \in Proc
    BY <2>2 DEF Pause!Idle, Proc, Pause!PCs, Pause!None
  <2>4. Pause!TypeOK
    BY <2>1, <2>2, <2>3, PauseTypes
  <2>5. QED
    BY <2>1, <2>4 DEF PauseInv, RequestsKnowTheRow, RevokedToTheEnd, Pause!Idle
<1>2. PauseInv /\ [Pause!Next]_(Pause!vars) => PauseInv'
  <2>1. ASSUME PauseInv, Pause!Next PROVE PauseInv'
    BY <2>1, PauseSaved, RequestHolds, RowHolds DEF Pause!Next
  <2>2. ASSUME PauseInv, UNCHANGED Pause!vars PROVE PauseInv'
    BY <2>2 DEF Pause!vars, PauseInv, Pause!TypeOK, RequestsKnowTheRow, RevokedToTheEnd
  <2>3. QED
    BY <2>1, <2>2
<1>3. QED
  BY <1>1, <1>2, PTL DEF Pause!Spec

\* A behaviour of Accounts about the kill switch is one of KillSwitch.
AboutPause == focus = "pause"

LEMMA PauseSteps ==
    [AccountsNext]_allVars =>
      (AboutPause => AboutPause' /\ [Pause!Next]_(Pause!vars)) /\ (~AboutPause => ~AboutPause')
BY DEF AboutPause, AccountsNext, UsageStep, PauseStep, OrganizationStep, RiskStep, LimitStep,
       allVars, pauseVars, Pause!vars

\* "never weaken an existing pause", and a disconnected account stays under the
\* kill switch until it is connected again: no pause a user asks for brings the
\* end nearer and nothing lifts a revocation but a connection.
THEOREM PausesKept == ASSUME PauseAssumption, Horizon > 0 PROVE AccountsSpec => PausesHold
<1>1. PauseInv /\ PauseInv' /\ [Pause!Next]_(Pause!vars) =>
        [Pause!NotWeakened /\ Pause!RevokedStaysPaused']_(Pause!vars)
  <2> SUFFICES ASSUME PauseInv, PauseInv'
               PROVE  Pause!NotWeakened /\ Pause!RevokedStaysPaused'
    OBVIOUS
  <2>1. Pause!NotWeakened
    BY PauseSaved DEF Pause!NotWeakened
  <2>2. now' \in 1..Horizon /\ until' \in 0..Pause!Longest
    BY DEF PauseInv, Pause!TypeOK, Pause!None
  <2>3. Pause!RevokedStaysPaused'
    BY <2>2, PauseTypes DEF PauseInv, RevokedToTheEnd, Pause!RevokedStaysPaused
  <2>4. QED
    BY <2>1, <2>3
<1>2. PauseInv /\ PauseInv' /\ AboutPause /\ [AccountsNext]_allVars =>
        [AboutPause => Pause!NotWeakened /\ Pause!RevokedStaysPaused']_pauseVars
  BY <1>1, PauseSteps DEF pauseVars, Pause!vars
<1>3. ~AboutPause => [AboutPause => Pause!NotWeakened /\ Pause!RevokedStaysPaused']_pauseVars
  OBVIOUS
<1>4. AccountsInit /\ AboutPause => Pause!Init
  BY DEF AccountsInit, AboutPause
<1>5. QED
  BY <1>2, <1>3, <1>4, PauseSteps, PauseInvariantHolds, PTL
     DEF AccountsSpec, PausesHold, Pause!Spec, AboutPause

-----------------------------------------------------------------------------
(* Organizations and their members.                                        *)

LEMMA SameSets ==
    \A S : Org!Cardinality(S) = Cardinality(S) /\ (Org!IsFiniteSet(S) <=> IsFiniteSet(S))
BY Zenon DEF Org!Cardinality, Cardinality, Org!IsFiniteSet, IsFiniteSet

OrgJob == [pc : {"idle", "plan_admin", "founding", "accepting", "adding", "creating",
                 "planning", "accepted", "settling", "downgrading"},
           org : Orgs \cup {NoOne}, user : Users \cup {NoOne}, role : {"MEMBER"},
           invite : Invitations \cup {NoOne}, ends : {"never", "later", "past"},
           status : Org!Statuses]
Invite == [org : Orgs, status : Org!Statuses, overdue : BOOLEAN]
Founding == {"plan_admin", "founding"}

\* An organization that is founded: its administrator is a member.
Led(o) == o \in orgs /\ Org!IsAdmin(o, Admin[o])

OrgTypes ==
    /\ Org!TypeOK
    /\ orgJob \in [Workers -> OrgJob]
    /\ DOMAIN invitation \subseteq Invitations
    /\ invitation \in [DOMAIN invitation -> Invite]

\* What a request has read still stands: its organization, its invitation.
JobFits(j) ==
    /\ j.pc # "idle" => j.org \in Orgs
    /\ j.pc \notin {"idle", "settling"} => j.user \in Users
    /\ j.invite # NoOne => j.invite \in DOMAIN invitation /\ invitation[j.invite].org = j.org
    /\ j.pc \in {"accepting", "accepted", "settling"} => j.invite # NoOne
    /\ j.pc = "settling" => j.status \in {"REJECTED", "EXPIRED"}
    /\ j.pc = "plan_admin" => j.org \notin orgs
    /\ j.pc = "founding" => j.org \in orgs
    /\ j.pc \in Founding => j.user = Admin[j.org] /\ Org!MembersOf(j.org) = {}
    /\ j.pc \in {"accepting", "adding", "creating"} => Led(j.org)
JobsFit == \A w \in Workers : JobFits(orgJob[w])

\* Nobody else works on an organization before its administrator is a member.
FoundersAreAlone ==
    \A v, w \in Workers : orgJob[w].pc \in Founding /\ orgJob[v].org = orgJob[w].org => v = w

\* Whoever is a member or invited is so of an organization that is founded.
EveryoneIsLed ==
    /\ \A i \in DOMAIN invitation : Led(invitation[i].org)
    /\ \A m \in members : Led(m.org)

\* A request that counted the members holds a seat until it adds one.
Creators(o) == {w \in Workers : orgJob[w].pc = "creating" /\ orgJob[w].org = o}
SeatsCounted ==
    \A o \in Orgs : Cardinality(Org!MembersOf(o)) + Cardinality(Creators(o))
                      <= MaxMembers - 1 + Cardinality(Workers)

OrgInv == OrgTypes /\ JobsFit /\ FoundersAreAlone /\ EveryoneIsLed /\ SeatsCounted

OrgAssumption == Org!OrganizationsAssumption

LEMMA OrgConstants ==
    ASSUME OrgAssumption
    PROVE  /\ \A o \in Orgs : Admin[o] \in Users
           /\ MaxMembers \in Nat \ {0}
           /\ IsFiniteSet(Users) /\ IsFiniteSet(Workers)
           /\ NoOne \notin Users /\ NoOne \notin Orgs /\ NoOne \notin Invitations
BY SameSets DEF OrgAssumption, Org!OrganizationsAssumption

LEMMA SeatsAreFinite ==
    ASSUME OrgAssumption, NEW o
    PROVE  /\ members \subseteq Org!Memberships =>
                /\ Org!MembersOf(o) \subseteq Users /\ IsFiniteSet(Org!MembersOf(o))
                /\ Cardinality(Org!MembersOf(o)) \in Nat
           /\ Creators(o) \subseteq Workers /\ IsFiniteSet(Creators(o))
           /\ Cardinality(Creators(o)) \in Nat
           /\ Cardinality(Creators(o)) <= Cardinality(Workers)
           /\ Cardinality(Workers) \in Nat
<1>1. Creators(o) \subseteq Workers
  BY DEF Creators
<1>2. members \subseteq Org!Memberships => Org!MembersOf(o) \subseteq Users
  BY DEF Org!MembersOf, Org!Memberships
<1>3. QED
  BY <1>1, <1>2, OrgConstants, FS_Subset, FS_CardinalityType

LEMMA MembersHaveOrgs ==
    ASSUME OrgTypes
    PROVE  /\ members \subseteq Org!Memberships
           /\ \A m \in members : /\ m.org \in orgs /\ m.org \in Orgs /\ m.user \in Users
                                 /\ m = [org |-> m.org, user |-> m.user, role |-> m.role]
           /\ orgs \subseteq Orgs
BY DEF OrgTypes, Org!TypeOK, Org!Memberships

LEMMA OrgTypeByParts ==
    ASSUME orgs' \subseteq Orgs, members' \subseteq {m \in Org!Memberships : m.org \in orgs'},
           \A a, b \in members' : (a.org = b.org /\ a.user = b.user) => a = b,
           plan' \in [Users -> [name : Org!Plans, ends : {"never", "later", "past"}]],
           DOMAIN invitation' \subseteq Invitations, invitation' \in [DOMAIN invitation' -> Invite],
           orgJob' \in [Workers -> OrgJob], JobsFit'
    PROVE  OrgTypes'
<1>1. \A w \in Workers : orgJob'[w].pc \in
        {"idle", "plan_admin", "founding", "accepting", "adding", "creating",
         "planning", "accepted", "settling", "downgrading"}
  BY DEF OrgJob
<1>2. \A w \in Workers : orgJob'[w].invite \in DOMAIN invitation' \cup {NoOne}
  BY DEF JobsFit, JobFits
<1>3. Org!TypeOK'
  BY <1>1, <1>2 DEF Org!TypeOK, Invite
<1>4. QED
  BY <1>3 DEF OrgTypes

LEMMA IdleFits == Org!Idle \in OrgJob /\ (OrgAssumption => JobFits(Org!Idle) /\ JobFits(Org!Idle)')
                  /\ Org!Idle.org = NoOne /\ Org!Idle.pc = "idle"
BY DEF Org!Idle, OrgJob, Org!Statuses, JobFits, Founding

\* A request takes a step and the others stay where they are.
LEMMA JobStep ==
    ASSUME OrgInv, NEW w \in Workers, NEW j \in OrgJob, JobFits(j)',
           orgJob' = [orgJob EXCEPT ![w] = j],
           \A v \in Workers : v # w => JobFits(orgJob[v])',
           \A v \in Workers : v # w /\ (j.pc \in Founding \/ orgJob[v].pc \in Founding)
                                => orgJob[v].org # j.org
    PROVE  orgJob' \in [Workers -> OrgJob] /\ JobsFit' /\ FoundersAreAlone'
<1>1. orgJob \in [Workers -> OrgJob]
  BY DEF OrgInv, OrgTypes
<1>2. \A v \in Workers : orgJob'[v] = IF v = w THEN j ELSE orgJob[v]
  BY <1>1
<1>3. orgJob' \in [Workers -> OrgJob]
  BY <1>1
<1>4. JobsFit'
  BY <1>2 DEF JobsFit
<1>5. FoundersAreAlone'
  BY <1>2 DEF FoundersAreAlone, OrgInv
<1>6. QED
  BY <1>3, <1>4, <1>5

LEMMA SeatsFewer ==
    ASSUME OrgAssumption, OrgInv, members' \subseteq members,
           \A o \in Orgs : Creators(o)' \subseteq Creators(o)
    PROVE  SeatsCounted'
<1> SUFFICES ASSUME NEW o \in Orgs
             PROVE  Cardinality(Org!MembersOf(o)') + Cardinality(Creators(o)')
                      <= MaxMembers - 1 + Cardinality(Workers)
  BY DEF SeatsCounted
<1>1. Org!MembersOf(o)' \subseteq Org!MembersOf(o)
  BY DEF Org!MembersOf
<1>2. /\ IsFiniteSet(Org!MembersOf(o)) /\ IsFiniteSet(Creators(o))
      /\ Cardinality(Org!MembersOf(o)) \in Nat /\ Cardinality(Creators(o)) \in Nat
      /\ Cardinality(Workers) \in Nat
  BY SeatsAreFinite, MembersHaveOrgs DEF OrgInv
<1>3. /\ Cardinality(Org!MembersOf(o)') <= Cardinality(Org!MembersOf(o))
      /\ Cardinality(Creators(o)') <= Cardinality(Creators(o))
      /\ Cardinality(Org!MembersOf(o)') \in Nat /\ Cardinality(Creators(o)') \in Nat
  BY <1>1, <1>2, FS_Subset, FS_CardinalityType
<1>4. Cardinality(Org!MembersOf(o)) + Cardinality(Creators(o)) <= MaxMembers - 1 + Cardinality(Workers)
  BY DEF OrgInv, SeatsCounted
<1>5. QED
  BY <1>2, <1>3, <1>4, OrgConstants, SMT

\* What keeps a request's reading true.
LEMMA StillFits ==
    ASSUME NEW j, JobFits(j),
           j.org \in Orgs => /\ Led(j.org) => Led(j.org)'
                             /\ j.org \in orgs <=> j.org \in orgs'
                             /\ j.pc \in Founding /\ Org!MembersOf(j.org) = {}
                                  => Org!MembersOf(j.org)' = {},
           j.invite \in DOMAIN invitation =>
             j.invite \in DOMAIN invitation' /\ invitation'[j.invite].org = invitation[j.invite].org
    PROVE  JobFits(j)'
<1>1. j.pc \in Founding \cup {"accepting", "adding", "creating"} => j.org \in Orgs
  BY DEF JobFits, Founding
<1>2. j.pc = "plan_admin" => j.org \notin orgs'
  BY <1>1 DEF JobFits, Founding
<1>3. j.pc = "founding" => j.org \in orgs'
  BY <1>1 DEF JobFits, Founding
<1>4. j.pc \in Founding => j.user = Admin[j.org] /\ Org!MembersOf(j.org)' = {}
  BY <1>1 DEF JobFits
<1>5. j.pc \in {"accepting", "adding", "creating"} => Led(j.org)'
  BY <1>1 DEF JobFits
<1>6. j.invite # NoOne => j.invite \in DOMAIN invitation' /\ invitation'[j.invite].org = j.org
  BY DEF JobFits
<1>7. QED
  BY <1>2, <1>3, <1>4, <1>5, <1>6 DEF JobFits

\* The organizations, the members and who is invited where are as before.
RowsKept ==
    /\ UNCHANGED <<orgs, members>>
    /\ DOMAIN invitation \subseteq DOMAIN invitation'
    /\ \A i \in DOMAIN invitation : invitation'[i].org = invitation[i].org

LEMMA RowsKeptFit ==
    ASSUME RowsKept, NEW j, JobFits(j)
    PROVE  JobFits(j)'
<1>1. UNCHANGED <<orgs, members>>
  BY DEF RowsKept
<1>2. \A o : /\ Led(o) <=> Led(o)'
             /\ Org!MembersOf(o) = Org!MembersOf(o)'
  BY <1>1 DEF Led, Org!IsAdmin, Org!MembersOf
<1>3. j.invite \in DOMAIN invitation =>
        j.invite \in DOMAIN invitation' /\ invitation'[j.invite].org = invitation[j.invite].org
  BY DEF RowsKept
<1>4. QED
  BY <1>1, <1>2, <1>3, StillFits

\* A request that goes on, ends or begins does not meet a founder.
LEMMA GoesOnAlone ==
    ASSUME OrgAssumption, OrgInv, NEW w \in Workers, NEW j \in OrgJob,
           \/ j.org = NoOne /\ j.pc \notin Founding
           \/ /\ j.org = orgJob[w].org /\ orgJob[w].pc # "idle"
              /\ j.pc \in Founding => orgJob[w].pc \in Founding
           \/ Led(j.org) /\ j.pc \notin Founding
           \/ \A v \in Workers : orgJob[v].org # j.org
    PROVE  \A v \in Workers : v # w /\ (j.pc \in Founding \/ orgJob[v].pc \in Founding)
                                => orgJob[v].org # j.org
<1> SUFFICES ASSUME NEW v \in Workers, v # w, j.pc \in Founding \/ orgJob[v].pc \in Founding,
                    orgJob[v].org = j.org
             PROVE  FALSE
  OBVIOUS
<1>1. JobFits(orgJob[v]) /\ FoundersAreAlone
  BY DEF OrgInv, JobsFit
<1>2. orgJob[v].pc \in Founding => orgJob[v].org \in Orgs /\ Org!MembersOf(orgJob[v].org) = {}
  BY <1>1 DEF JobFits, Founding
<1>3. Led(j.org) => Org!MembersOf(j.org) # {}
  <2>1. Led(j.org) => Admin[j.org] \in Org!MembersOf(j.org)
    BY DEF Led, Org!IsAdmin, Org!MembersOf
  <2>2. QED
    BY <2>1
<1>4. NoOne \notin Orgs
  BY OrgConstants
<1>5. QED
  BY <1>1, <1>2, <1>3, <1>4 DEF FoundersAreAlone

PlansType == [Users -> [name : Org!Plans, ends : {"never", "later", "past"}]]

\* The steps that add no row but to the plans.
LEMMA JobOnly ==
    ASSUME OrgAssumption, OrgInv, NEW w \in Workers, NEW j \in OrgJob, JobFits(j),
           orgJob' = [orgJob EXCEPT ![w] = j], RowsKept, plan' \in PlansType,
           DOMAIN invitation' = DOMAIN invitation,
           invitation' \in [DOMAIN invitation' -> Invite],
           \/ j.org = NoOne /\ j.pc \notin Founding
           \/ /\ j.org = orgJob[w].org /\ orgJob[w].pc # "idle"
              /\ j.pc \in Founding => orgJob[w].pc \in Founding
           \/ Led(j.org) /\ j.pc \notin Founding
           \/ \A v \in Workers : orgJob[v].org # j.org
    PROVE  /\ OrgTypes' /\ JobsFit' /\ FoundersAreAlone' /\ EveryoneIsLed'
           /\ j.pc # "creating" => SeatsCounted'
<1>1. /\ orgJob \in [Workers -> OrgJob] /\ UNCHANGED <<orgs, members>>
      /\ \A i \in DOMAIN invitation : invitation'[i].org = invitation[i].org
      /\ DOMAIN invitation \subseteq Invitations
  BY DEF OrgInv, OrgTypes, RowsKept
<1>2. JobFits(j)'
  BY RowsKeptFit
<1>3. ASSUME NEW v \in Workers, v # w PROVE JobFits(orgJob[v])'
  <2>1. PICK k : k = orgJob[v] /\ k = orgJob'[v]
    BY <1>1, <1>3
  <2>2. JobFits(k)
    BY <2>1 DEF OrgInv, JobsFit
  <2>3. JobFits(k)'
    BY <2>2, RowsKeptFit
  <2>4. QED
    BY <2>1, <2>3
<1>4. orgJob' \in [Workers -> OrgJob] /\ JobsFit' /\ FoundersAreAlone'
  <2>1. \A v \in Workers : v # w /\ (j.pc \in Founding \/ orgJob[v].pc \in Founding)
                             => orgJob[v].org # j.org
    BY GoesOnAlone
  <2>2. \A v \in Workers : v # w => JobFits(orgJob[v])'
    BY <1>3
  <2>3. QED
    BY <1>2, <2>1, <2>2, JobStep
<1>5. \A o : Led(o)' <=> Led(o)
  BY <1>1 DEF Led, Org!IsAdmin
<1>6. EveryoneIsLed'
  BY <1>1, <1>5 DEF OrgInv, EveryoneIsLed
<1>7. OrgTypes'
  BY <1>1, <1>4, OrgTypeByParts DEF OrgInv, OrgTypes, Org!TypeOK, PlansType
<1>8. ASSUME j.pc # "creating" PROVE SeatsCounted'
  <2>1. \A o \in Orgs : Creators(o)' \subseteq Creators(o)
    BY <1>1, <1>8 DEF Creators
  <2>2. QED
    BY <1>1, <2>1, SeatsFewer
<1>9. QED
  BY <1>4, <1>6, <1>7, <1>8

\* The orgJob of a request that begins, or goes on.
LEMMA Begun ==
    ASSUME OrgTypes, NEW w \in Workers, NEW o \in Orgs, NEW u \in Users,
           NEW pc \in {"plan_admin", "adding", "downgrading"}, Org!Begin(w, o, u, pc)
    PROVE  \E j \in OrgJob : /\ orgJob' = [orgJob EXCEPT ![w] = j]
                             /\ j.pc = pc /\ j.org = o /\ j.user = u /\ j.invite = NoOne
<1> DEFINE j == [Org!Idle EXCEPT !.pc = pc, !.org = o, !.user = u, !.ends = plan[u].ends]
<1>1. plan[u].ends \in {"never", "later", "past"}
  BY DEF OrgTypes, Org!TypeOK
<1>2. /\ j \in OrgJob /\ j.pc = pc /\ j.org = o /\ j.user = u /\ j.invite = NoOne
  BY <1>1 DEF OrgJob, Org!Statuses, Org!Idle
<1>3. orgJob' = [orgJob EXCEPT ![w] = j]
  BY DEF Org!Begin, Org!Goto
<1> HIDE DEF j
<1>4. QED
  BY <1>2, <1>3

LEMMA GoesOn ==
    ASSUME OrgTypes, NEW w \in Workers,
           NEW pc \in {"founding", "adding", "creating", "planning", "accepted"},
           Org!Goto(w, [orgJob[w] EXCEPT !.pc = pc])
    PROVE  \E j \in OrgJob : /\ orgJob' = [orgJob EXCEPT ![w] = j] /\ j.pc = pc
                             /\ j.org = orgJob[w].org /\ j.user = orgJob[w].user
                             /\ j.invite = orgJob[w].invite
<1> DEFINE j == [orgJob[w] EXCEPT !.pc = pc]
<1>1. orgJob[w] \in OrgJob
  BY DEF OrgTypes
<1>2. /\ j \in OrgJob /\ j.pc = pc /\ j.org = orgJob[w].org /\ j.user = orgJob[w].user
      /\ j.invite = orgJob[w].invite
  BY <1>1 DEF OrgJob
<1>3. orgJob' = [orgJob EXCEPT ![w] = j]
  BY DEF Org!Goto
<1>4. QED
  BY <1>2, <1>3

LEMMA SameRows ==
    ASSUME OrgInv, UNCHANGED <<orgs, members, invitation>>
    PROVE  /\ RowsKept /\ DOMAIN invitation' = DOMAIN invitation
           /\ invitation' \in [DOMAIN invitation' -> Invite]
BY DEF OrgInv, OrgTypes, RowsKept

LEMMA SettledRows ==
    ASSUME OrgInv, NEW i \in DOMAIN invitation, NEW s \in Org!Statuses,
           invitation' = [invitation EXCEPT ![i].status = s], UNCHANGED <<orgs, members>>
    PROVE  /\ RowsKept /\ DOMAIN invitation' = DOMAIN invitation
           /\ invitation' \in [DOMAIN invitation' -> Invite]
<1>1. invitation \in [DOMAIN invitation -> Invite]
  BY DEF OrgInv, OrgTypes
<1>2. PICK r \in Invite : r = [invitation[i] EXCEPT !.status = s] /\ r.org = invitation[i].org
  <2>1. [invitation[i] EXCEPT !.status = s] \in Invite
    BY <1>1 DEF Invite
  <2>2. [invitation[i] EXCEPT !.status = s].org = invitation[i].org
    BY <1>1 DEF Invite
  <2>3. QED
    BY <2>1, <2>2
<1>3. invitation' = [invitation EXCEPT ![i] = r]
  BY <1>2
<1>4. DOMAIN invitation' = DOMAIN invitation /\ invitation' \in [DOMAIN invitation' -> Invite]
  BY <1>1, <1>2, <1>3
<1>5. \A k \in DOMAIN invitation : invitation'[k].org = invitation[k].org
  BY <1>1, <1>2, <1>3
<1>6. QED
  BY <1>4, <1>5 DEF RowsKept

LEMMA PlanType ==
    ASSUME OrgInv
    PROVE  /\ plan \in PlansType
           /\ \A u \in Users : plan[u].ends \in {"never", "later", "past"}
           /\ \A u, r : r \in [name : Org!Plans, ends : {"never", "later", "past"}]
                          => [plan EXCEPT ![u] = r] \in PlansType
BY DEF OrgInv, OrgTypes, Org!TypeOK, PlansType

\* A request that ends leaves the rows it read, whatever it saved of its own.
LEMMA Ended ==
    ASSUME OrgAssumption, OrgInv, NEW w \in Workers, Org!End(w), RowsKept,
           plan' \in PlansType, DOMAIN invitation' = DOMAIN invitation,
           invitation' \in [DOMAIN invitation' -> Invite]
    PROVE  OrgInv'
<1>1. PICK j : j = Org!Idle
  OBVIOUS
<1>2. j \in OrgJob /\ JobFits(j) /\ j.org = NoOne /\ j.pc = "idle"
  BY <1>1, IdleFits
<1>3. orgJob' = [orgJob EXCEPT ![w] = j]
  BY <1>1 DEF Org!End, Org!Goto
<1>4. QED
  BY <1>2, <1>3, JobOnly DEF OrgInv, Founding

LEMMA RequestsBegin ==
    ASSUME OrgAssumption, OrgInv, NEW w \in Workers, NEW o \in Orgs, NEW actor \in Users,
           NEW u \in Users, Org!StartOrganization(w, o) \/ Org!StartAddMember(w, o, actor, u)
    PROVE  OrgInv'
<1>0. UNCHANGED <<orgs, members, plan, invitation>>
  BY DEF Org!StartOrganization, Org!StartAddMember
<1>1. /\ RowsKept /\ plan' \in PlansType /\ DOMAIN invitation' = DOMAIN invitation
      /\ invitation' \in [DOMAIN invitation' -> Invite]
  BY <1>0, SameRows, PlanType
<1>2. CASE Org!StartOrganization(w, o)
  <2>1. /\ Admin[o] \in Users /\ o \notin orgs /\ \A v \in Workers : orgJob[v].org # o
        /\ Org!Begin(w, o, Admin[o], "plan_admin")
    BY <1>2, OrgConstants DEF Org!StartOrganization
  <2>2. PICK j \in OrgJob : /\ orgJob' = [orgJob EXCEPT ![w] = j] /\ j.pc = "plan_admin"
                            /\ j.org = o /\ j.user = Admin[o] /\ j.invite = NoOne
    BY <2>1, Begun DEF OrgInv
  <2>3. Org!MembersOf(o) = {}
    BY <2>1, MembersHaveOrgs DEF OrgInv, Org!MembersOf
  <2>4. JobFits(j)
    BY <2>1, <2>2, <2>3 DEF JobFits, Founding
  <2>5. QED
    BY <1>1, <2>1, <2>2, <2>4, JobOnly DEF OrgInv
<1>3. CASE Org!StartAddMember(w, o, actor, u)
  <2>1. /\ o \in orgs /\ Org!IsAdmin(o, actor) /\ Org!Begin(w, o, u, "adding")
    BY <1>3 DEF Org!StartAddMember
  <2>2. PICK j \in OrgJob : /\ orgJob' = [orgJob EXCEPT ![w] = j] /\ j.pc = "adding"
                            /\ j.org = o /\ j.user = u /\ j.invite = NoOne
    BY <2>1, Begun DEF OrgInv
  <2>3. Led(o)
    BY <2>1 DEF OrgInv, EveryoneIsLed, Org!IsAdmin
  <2>4. JobFits(j)
    BY <2>2, <2>3 DEF JobFits, Founding
  <2>5. QED
    BY <1>1, <2>2, <2>3, <2>4, JobOnly DEF OrgInv, Founding
<1>4. QED
  BY <1>2, <1>3

LEMMA AnswersBegin ==
    ASSUME OrgAssumption, OrgInv, NEW w \in Workers, NEW i \in Invitations, NEW u \in Users,
           NEW s \in {"REJECTED", "EXPIRED"},
           Org!StartAccept(w, i, u) \/ Org!StartSettle(w, i, s)
    PROVE  OrgInv'
<1>0. /\ UNCHANGED <<orgs, members, plan, invitation>> /\ i \in DOMAIN invitation
  BY DEF Org!StartAccept, Org!StartSettle, Org!Pending
<1>1. /\ RowsKept /\ plan' \in PlansType /\ DOMAIN invitation' = DOMAIN invitation
      /\ invitation' \in [DOMAIN invitation' -> Invite]
  BY <1>0, SameRows, PlanType
<1>2. /\ invitation[i].org \in Orgs /\ Led(invitation[i].org) /\ i # NoOne
      /\ plan[u].ends \in {"never", "later", "past"}
  BY <1>0, PlanType, OrgConstants DEF OrgInv, OrgTypes, Invite, EveryoneIsLed
<1> DEFINE accepts == [Org!Idle EXCEPT !.pc = "accepting", !.org = invitation[i].org,
                         !.user = u, !.invite = i, !.ends = plan[u].ends]
           settles == [Org!Idle EXCEPT !.pc = "settling", !.org = invitation[i].org,
                         !.invite = i, !.status = s]
<1>3. PICK j \in {accepts, settles} : orgJob' = [orgJob EXCEPT ![w] = j]
  BY DEF Org!StartAccept, Org!StartSettle, Org!Goto
<1>4. /\ accepts \in OrgJob /\ accepts.org = invitation[i].org /\ accepts.invite = i
      /\ accepts.pc = "accepting" /\ accepts.user = u
      /\ settles \in OrgJob /\ settles.org = invitation[i].org /\ settles.invite = i
      /\ settles.pc = "settling" /\ settles.status = s
  BY <1>2 DEF OrgJob, Org!Statuses, Org!Idle
<1> HIDE DEF accepts, settles
<1>5. /\ j \in OrgJob /\ j.org = invitation[i].org /\ j.invite = i
      /\ j.pc \in {"accepting", "settling"}
      /\ j.pc = "accepting" => j.user = u
      /\ j.pc = "settling" => j.status = s
  BY <1>3, <1>4
<1>6. JobFits(j)
  BY <1>0, <1>2, <1>5 DEF JobFits, Founding
<1>7. QED
  BY <1>1, <1>2, <1>3, <1>5, <1>6, JobOnly DEF OrgInv, Founding

LEMMA WorkerFits ==
    ASSUME OrgInv, NEW w \in Workers
    PROVE  /\ orgJob[w] \in OrgJob /\ JobFits(orgJob[w])
           /\ orgJob[w].pc \notin {"idle", "settling"} => orgJob[w].org \in Orgs /\ orgJob[w].user \in Users
BY DEF OrgInv, OrgTypes, JobsFit, JobFits

LEMMA RequestsEnd ==
    ASSUME OrgAssumption, OrgInv, NEW w \in Workers,
           Org!Downgrade(w) \/ Org!SaveAccepted(w) \/ Org!SaveSettled(w) \/ Org!Dies(w)
    PROVE  OrgInv'
<1>0. Org!End(w) /\ UNCHANGED <<orgs, members>>
  BY DEF Org!Downgrade, Org!SaveAccepted, Org!SaveSettled, Org!Dies
<1>1. CASE Org!Downgrade(w)
  <2>1. plan' \in PlansType
    <3>1. Org!Basic \in [name : Org!Plans, ends : {"never", "later", "past"}]
      BY DEF Org!Basic, Org!Plans
    <3>2. plan' = [plan EXCEPT ![orgJob[w].user] = Org!Basic]
      BY <1>1 DEF Org!Downgrade
    <3>3. QED
      BY <3>1, <3>2, PlanType
  <2>2. UNCHANGED invitation
    BY <1>1 DEF Org!Downgrade
  <2>3. QED
    BY <1>0, <2>1, <2>2, SameRows, Ended
<1>2. CASE Org!Dies(w)
  <2>1. UNCHANGED <<plan, invitation>>
    BY <1>2 DEF Org!Dies
  <2>2. QED
    BY <1>0, <2>1, SameRows, PlanType, Ended
<1>3. CASE Org!SaveAccepted(w) \/ Org!SaveSettled(w)
  <2>1. PICK s \in Org!Statuses : invitation' = [invitation EXCEPT ![orgJob[w].invite].status = s]
    <3>1. CASE Org!SaveAccepted(w)
      <4>1. "ACCEPTED" \in Org!Statuses
        BY DEF Org!Statuses
      <4>2. invitation' = [invitation EXCEPT ![orgJob[w].invite].status = "ACCEPTED"]
        BY <3>1 DEF Org!SaveAccepted, Org!Settle
      <4>3. QED
        BY <4>1, <4>2
    <3>2. CASE Org!SaveSettled(w)
      <4>1. orgJob[w].status \in Org!Statuses
        BY WorkerFits DEF OrgJob
      <4>2. invitation' = [invitation EXCEPT ![orgJob[w].invite].status = orgJob[w].status]
        BY <3>2 DEF Org!SaveSettled, Org!Settle
      <4>3. QED
        BY <4>1, <4>2
    <3>3. QED
      BY <1>3, <3>1, <3>2
  <2>2. orgJob[w].invite \in DOMAIN invitation /\ UNCHANGED plan
    BY <1>3, WorkerFits DEF Org!SaveAccepted, Org!SaveSettled, JobFits
  <2>3. QED
    BY <1>0, <2>1, <2>2, SettledRows, PlanType, Ended
<1>4. QED
  BY <1>1, <1>2, <1>3

LEMMA PlanGiven ==
    ASSUME OrgAssumption, OrgInv, NEW w \in Workers, Org!GivePlan(w)
    PROVE  OrgInv'
<1>1. /\ orgJob[w].pc = "planning" /\ UNCHANGED <<orgs, members, invitation>>
      /\ plan' = [plan EXCEPT ![orgJob[w].user] = [name |-> "BUSINESS", ends |-> orgJob[w].ends]]
      /\ IF orgJob[w].invite = NoOne THEN Org!End(w)
         ELSE Org!Goto(w, [orgJob[w] EXCEPT !.pc = "accepted"])
  BY DEF Org!GivePlan
<1>2. [name |-> "BUSINESS", ends |-> orgJob[w].ends]
        \in [name : Org!Plans, ends : {"never", "later", "past"}]
  BY WorkerFits DEF OrgJob, Org!Plans
<1>3. plan' \in PlansType
  BY <1>1, <1>2, PlanType
<1>4. CASE orgJob[w].invite = NoOne
  BY <1>1, <1>3, <1>4, SameRows, Ended
<1>5. CASE orgJob[w].invite # NoOne
  <2>1. Org!Goto(w, [orgJob[w] EXCEPT !.pc = "accepted"])
    BY <1>1, <1>5
  <2>2. PICK j \in OrgJob : /\ orgJob' = [orgJob EXCEPT ![w] = j] /\ j.pc = "accepted"
                            /\ j.org = orgJob[w].org /\ j.user = orgJob[w].user
                            /\ j.invite = orgJob[w].invite
    BY <2>1, GoesOn DEF OrgInv
  <2>3. JobFits(j)
    BY <1>1, <1>5, <2>2, WorkerFits DEF JobFits, Founding
  <2>4. QED
    BY <1>1, <1>3, <2>2, <2>3, SameRows, JobOnly DEF OrgInv, Founding
<1>6. QED
  BY <1>4, <1>5

LEMMA AcceptChecked ==
    ASSUME OrgAssumption, OrgInv, NEW w \in Workers, Org!AcceptChecks(w)
    PROVE  OrgInv'
<1> DEFINE i == orgJob[w].invite
<1>1. orgJob[w].pc = "accepting" /\ UNCHANGED <<orgs, members, plan>> /\ i \in DOMAIN invitation
  BY WorkerFits DEF Org!AcceptChecks, JobFits
<1>2. \/ \E s \in {"EXPIRED", "REJECTED"} :
            invitation' = [invitation EXCEPT ![i].status = s] /\ Org!End(w)
      \/ UNCHANGED invitation /\ Org!Goto(w, [orgJob[w] EXCEPT !.pc = "adding"])
  BY DEF Org!AcceptChecks, Org!Settle
<1>3. ASSUME NEW s \in {"EXPIRED", "REJECTED"},
             invitation' = [invitation EXCEPT ![i].status = s], Org!End(w)
      PROVE  OrgInv'
  <2>1. s \in Org!Statuses
    BY DEF Org!Statuses
  <2> HIDE DEF i
  <2>2. QED
    BY <1>1, <1>3, <2>1, SettledRows, PlanType, Ended
<1>4. CASE UNCHANGED invitation /\ Org!Goto(w, [orgJob[w] EXCEPT !.pc = "adding"])
  <2>1. PICK j \in OrgJob : /\ orgJob' = [orgJob EXCEPT ![w] = j] /\ j.pc = "adding"
                            /\ j.org = orgJob[w].org /\ j.user = orgJob[w].user
                            /\ j.invite = orgJob[w].invite
    BY <1>4, GoesOn DEF OrgInv
  <2>2. JobFits(j)
    BY <1>1, <2>1, WorkerFits DEF JobFits, Founding
  <2>3. plan' \in PlansType
    BY <1>1, PlanType
  <2>4. QED
    BY <1>1, <1>4, <2>1, <2>2, <2>3, SameRows, JobOnly DEF OrgInv, Founding
<1>5. QED
  BY <1>2, <1>3, <1>4

LEMMA AddChecked ==
    ASSUME OrgAssumption, OrgInv, NEW w \in Workers, Org!AddChecks(w)
    PROVE  OrgInv'
<1>1. orgJob[w].pc = "adding" /\ UNCHANGED <<orgs, members, plan, invitation>>
  BY DEF Org!AddChecks
<1>2. /\ RowsKept /\ plan' \in PlansType /\ DOMAIN invitation' = DOMAIN invitation
      /\ invitation' \in [DOMAIN invitation' -> Invite]
  BY <1>1, SameRows, PlanType
<1>3. CASE Org!End(w)
  BY <1>2, <1>3, Ended
<1>4. CASE /\ Org!CanAddMembers(orgJob[w].org) /\ orgJob[w].user \notin Org!MembersOf(orgJob[w].org)
           /\ Org!Goto(w, [orgJob[w] EXCEPT !.pc = "creating"])
  <2>1. PICK j \in OrgJob : /\ orgJob' = [orgJob EXCEPT ![w] = j] /\ j.pc = "creating"
                            /\ j.org = orgJob[w].org /\ j.user = orgJob[w].user
                            /\ j.invite = orgJob[w].invite
    BY <1>4, GoesOn DEF OrgInv
  <2>2. JobFits(j)
    BY <1>1, <2>1, WorkerFits DEF JobFits, Founding
  <2>3. OrgTypes' /\ JobsFit' /\ FoundersAreAlone' /\ EveryoneIsLed'
    BY <1>1, <1>2, <2>1, <2>2, JobOnly DEF Founding
  <2>4. ASSUME NEW o \in Orgs
        PROVE  Cardinality(Org!MembersOf(o)') + Cardinality(Creators(o)')
                 <= MaxMembers - 1 + Cardinality(Workers)
    <3>1. Org!MembersOf(o)' = Org!MembersOf(o)
      BY <1>1 DEF Org!MembersOf
    <3>2. /\ Cardinality(Org!MembersOf(o)) \in Nat /\ Cardinality(Creators(o)) \in Nat
          /\ Cardinality(Workers) \in Nat /\ MaxMembers \in Nat \ {0}
          /\ IsFiniteSet(Workers) /\ IsFiniteSet(Creators(o))
      BY SeatsAreFinite, MembersHaveOrgs, OrgConstants DEF OrgInv
    <3>3. CASE o = orgJob[w].org
      <4>1. Cardinality(Org!MembersOf(o)) < MaxMembers
        BY <1>4, <3>3, SameSets DEF Org!CanAddMembers
      <4>2. Creators(o)' \subseteq Workers
        BY DEF Creators
      <4>3. Cardinality(Creators(o)') <= Cardinality(Workers) /\ Cardinality(Creators(o)') \in Nat
        BY <3>2, <4>2, FS_Subset, FS_CardinalityType
      <4>4. QED
        BY <3>1, <3>2, <4>1, <4>3
    <3>4. CASE o # orgJob[w].org
      <4>1. Creators(o)' = Creators(o)
        BY <2>1, <3>4 DEF Creators, OrgInv, OrgTypes
      <4>2. QED
        BY <3>1, <4>1 DEF OrgInv, SeatsCounted
    <3>5. QED
      BY <3>3, <3>4
  <2>5. QED
    BY <2>3, <2>4 DEF OrgInv, SeatsCounted
<1>5. QED
  BY <1>3, <1>4 DEF Org!AddChecks

\* Request w makes u a member of o, and goes on as j: the organization has an
\* administrator then, and no founder but w.
Adds(w, j, o, u, role) ==
    /\ j \in OrgJob /\ JobFits(j) /\ (j.org = NoOne \/ j.org = o)
    /\ j.pc \notin Founding \cup {"accepting", "adding", "creating"}
    /\ orgJob' = [orgJob EXCEPT ![w] = j] /\ UNCHANGED <<orgs, plan, invitation>>
    /\ o \in orgs /\ u \in Users /\ role \in {"ADMIN", "MEMBER"}
    /\ orgJob[w].org = o /\ u \notin Org!MembersOf(o)
    /\ members' = members \cup {Org!Membership(o, u, role)}
    /\ Led(o) \/ (u = Admin[o] /\ role = "ADMIN")
    /\ \A v \in Workers : v # w /\ orgJob[v].pc \in Founding => orgJob[v].org # o

LEMMA MembersGrow ==
    ASSUME NEW o, NEW u, NEW role, members' = members \cup {Org!Membership(o, u, role)}, NEW p
    PROVE  Org!MembersOf(p)' = IF p = o THEN Org!MembersOf(p) \cup {u} ELSE Org!MembersOf(p)
<1>1. Org!Membership(o, u, role).org = o /\ Org!Membership(o, u, role).user = u
  BY DEF Org!Membership
<1>2. {x \in members' : x.org = p} = IF p = o
        THEN {x \in members : x.org = p} \cup {Org!Membership(o, u, role)}
        ELSE {x \in members : x.org = p}
  BY <1>1
<1>3. QED
  BY <1>1, <1>2 DEF Org!MembersOf

LEMMA MemberAdded ==
    ASSUME OrgAssumption, OrgInv, NEW w \in Workers, NEW j, NEW o, NEW u, NEW role,
           Adds(w, j, o, u, role)
    PROVE  OrgTypes' /\ JobsFit' /\ FoundersAreAlone' /\ EveryoneIsLed'
<1> USE DEF Adds
<1>0. /\ o \in Orgs /\ orgJob \in [Workers -> OrgJob] /\ members \subseteq Org!Memberships
      /\ Org!Membership(o, u, role) \in Org!Memberships
      /\ Org!Membership(o, u, role).org = o /\ Org!Membership(o, u, role).user = u
  BY MembersHaveOrgs DEF OrgInv, OrgTypes, Org!Membership, Org!Memberships
<1>1. \A p : /\ Led(p) => Led(p)'
             /\ p # o => Org!MembersOf(p)' = Org!MembersOf(p)
  <2>1. \A p : Led(p) => Led(p)'
    BY DEF Led, Org!IsAdmin
  <2>2. \A p : p # o => Org!MembersOf(p)' = Org!MembersOf(p)
    BY MembersGrow
  <2>3. QED
    BY <2>1, <2>2
<1>2. Led(o)'
  BY <1>1 DEF Led, Org!IsAdmin, Org!Membership
<1>3. JobFits(j)'
  BY <1>1, StillFits
<1>4. ASSUME NEW v \in Workers, v # w PROVE JobFits(orgJob[v])'
  <2>1. PICK k : k = orgJob[v] /\ k = orgJob'[v]
    BY <1>0, <1>4
  <2>2. JobFits(k) /\ (k.pc \in Founding => k.org # o)
    BY <1>4, <2>1 DEF OrgInv, JobsFit
  <2>3. k.pc \in Founding /\ Org!MembersOf(k.org) = {} => Org!MembersOf(k.org)' = {}
    BY <1>1, <2>2
  <2>4. JobFits(k)'
    BY <1>1, <2>2, <2>3, StillFits
  <2>5. QED
    BY <2>1, <2>4
<1>5. \A v \in Workers : v # w /\ (j.pc \in Founding \/ orgJob[v].pc \in Founding)
                           => orgJob[v].org # j.org
  <2>1. \A v \in Workers : orgJob[v].pc \in Founding => orgJob[v].org \in Orgs
    BY WorkerFits DEF Founding
  <2>2. QED
    BY <2>1, OrgConstants
<1>6. orgJob' \in [Workers -> OrgJob] /\ JobsFit' /\ FoundersAreAlone'
  <2>1. \A v \in Workers : v # w => JobFits(orgJob[v])'
    BY <1>4
  <2>2. QED
    BY <1>3, <1>5, <2>1, JobStep
<1>7. EveryoneIsLed'
  BY <1>0, <1>1, <1>2 DEF OrgInv, EveryoneIsLed
<1>8. members' \subseteq {m \in Org!Memberships : m.org \in orgs'}
  BY <1>0, MembersHaveOrgs DEF OrgInv
<1>9. \A a, b \in members' : (a.org = b.org /\ a.user = b.user) => a = b
  <2>1. \A a \in members : a.org = o => a.user # u
    BY DEF Org!MembersOf
  <2>2. \A a, b \in members : (a.org = b.org /\ a.user = b.user) => a = b
    BY DEF OrgInv, OrgTypes, Org!TypeOK
  <2>3. QED
    BY <1>0, <2>1, <2>2
<1>10. OrgTypes'
  BY <1>6, <1>8, <1>9, OrgTypeByParts, PlanType DEF OrgInv, OrgTypes, Org!TypeOK, PlansType
<1>11. QED
  BY <1>6, <1>7, <1>10

LEMMA MembershipCreated ==
    ASSUME OrgAssumption, OrgInv, NEW w \in Workers, Org!CreateMembership(w)
    PROVE  OrgInv'
<1> DEFINE o == orgJob[w].org
           u == orgJob[w].user
<1>1. /\ orgJob[w].pc = "creating" /\ UNCHANGED <<orgs, plan, invitation>>
      /\ Led(o) /\ o \in Orgs /\ o \in orgs /\ u \in Users /\ orgJob[w].role = "MEMBER"
  BY WorkerFits DEF Org!CreateMembership, JobFits, Led, OrgJob
<1>2. CASE u \in Org!MembersOf(o)
  <2>1. Org!End(w) /\ UNCHANGED members
    BY <1>2 DEF Org!CreateMembership
  <2>2. QED
    BY <1>1, <2>1, SameRows, PlanType, Ended
<1>3. CASE u \notin Org!MembersOf(o)
  <2>1. /\ members' = members \cup {Org!Membership(o, u, "MEMBER")}
        /\ Org!Goto(w, [orgJob[w] EXCEPT !.pc = "planning"])
    BY <1>1, <1>3 DEF Org!CreateMembership
  <2>2. PICK j \in OrgJob : /\ orgJob' = [orgJob EXCEPT ![w] = j] /\ j.pc = "planning"
                            /\ j.org = o /\ j.user = u /\ j.invite = orgJob[w].invite
    BY <2>1, GoesOn DEF OrgInv
  <2>3. JobFits(j)
    BY <1>1, <2>2, WorkerFits DEF JobFits, Founding
  <2>4. \A v \in Workers : v # w /\ orgJob[v].pc \in Founding => orgJob[v].org # o
    BY <1>1 DEF OrgInv, FoundersAreAlone, Founding
  <2>5. OrgTypes' /\ JobsFit' /\ FoundersAreAlone' /\ EveryoneIsLed'
    <3>1. Adds(w, j, o, u, "MEMBER")
      BY <1>1, <1>3, <2>1, <2>2, <2>3, <2>4 DEF Adds, Founding
    <3>2. QED
      BY <3>1, MemberAdded
  <2>6. ASSUME NEW p \in Orgs
        PROVE  Cardinality(Org!MembersOf(p)') + Cardinality(Creators(p)')
                 <= MaxMembers - 1 + Cardinality(Workers)
    <3>0. /\ IsFiniteSet(Org!MembersOf(p)) /\ IsFiniteSet(Creators(p))
          /\ Cardinality(Org!MembersOf(p)) \in Nat /\ Cardinality(Creators(p)) \in Nat
          /\ Cardinality(Workers) \in Nat /\ MaxMembers \in Nat
          /\ Cardinality(Org!MembersOf(p)) + Cardinality(Creators(p))
               <= MaxMembers - 1 + Cardinality(Workers)
      BY SeatsAreFinite, MembersHaveOrgs, OrgConstants DEF OrgInv, SeatsCounted
    <3>1. CASE p = o
      <4>1. Org!MembersOf(p)' = Org!MembersOf(p) \cup {u}
        BY <2>1, <3>1, MembersGrow
      <4>2. Creators(p)' = Creators(p) \ {w} /\ w \in Creators(p)
        BY <1>1, <2>2, <3>1 DEF Creators, OrgInv, OrgTypes
      <4>3. Cardinality(Org!MembersOf(p)') = Cardinality(Org!MembersOf(p)) + 1
        BY <1>3, <3>0, <3>1, <4>1, FS_AddElement
      <4>4. Cardinality(Creators(p)') = Cardinality(Creators(p)) - 1
        BY <3>0, <4>2, FS_RemoveElement
      <4>5. QED
        BY <3>0, <4>3, <4>4
    <3>2. CASE p # o
      <4>1. Org!MembersOf(p)' = Org!MembersOf(p)
        BY <2>1, <3>2, MembersGrow
      <4>2. Creators(p)' = Creators(p)
        BY <1>1, <2>2, <3>2 DEF Creators, OrgInv, OrgTypes
      <4>3. QED
        BY <3>0, <4>1, <4>2
    <3>3. QED
      BY <3>1, <3>2
  <2>7. QED
    BY <2>5, <2>6 DEF OrgInv, SeatsCounted
<1>4. QED
  BY <1>2, <1>3

LEMMA AdminJoined ==
    ASSUME OrgAssumption, OrgInv, NEW w \in Workers, Org!JoinAsAdmin(w)
    PROVE  OrgInv'
<1>1. PICK o, u : o = orgJob[w].org /\ u = orgJob[w].user
  OBVIOUS
<1>2. /\ orgJob[w].pc = "founding" /\ UNCHANGED <<orgs, plan, invitation>> /\ Org!End(w)
      /\ o \in Orgs /\ o \in orgs /\ u \in Users /\ u = Admin[o] /\ Org!MembersOf(o) = {}
      /\ members' = members \cup {Org!Membership(o, u, "ADMIN")}
      /\ \A v \in Workers : orgJob[v].org = o => v = w
  BY <1>1, WorkerFits DEF Org!JoinAsAdmin, JobFits, Founding, OrgInv, FoundersAreAlone
<1>3. PICK j : j = Org!Idle
  OBVIOUS
<1>4. j \in OrgJob /\ JobFits(j) /\ j.org = NoOne /\ j.pc = "idle" /\ orgJob' = [orgJob EXCEPT ![w] = j]
  BY <1>2, <1>3, IdleFits DEF Org!End, Org!Goto
<1>5. OrgTypes' /\ JobsFit' /\ FoundersAreAlone' /\ EveryoneIsLed'
  <2>1. Adds(w, j, o, u, "ADMIN")
    BY <1>1, <1>2, <1>4 DEF Adds, Founding
  <2>2. QED
    BY <2>1, MemberAdded
<1>6. ASSUME NEW p \in Orgs
      PROVE  Cardinality(Org!MembersOf(p)') + Cardinality(Creators(p)')
               <= MaxMembers - 1 + Cardinality(Workers)
  <2>0. /\ Cardinality(Workers) \in Nat /\ MaxMembers \in Nat \ {0} /\ IsFiniteSet(Workers)
        /\ Cardinality(Org!MembersOf(p)) + Cardinality(Creators(p))
             <= MaxMembers - 1 + Cardinality(Workers)
    BY SeatsAreFinite, OrgConstants DEF OrgInv, SeatsCounted
  <2>1. CASE p = o
    <3>1. Org!MembersOf(p)' = {u}
      BY <1>2, <2>1, MembersGrow
    <3>2. Creators(p)' = {}
      BY <1>2, <1>4, <2>1 DEF Creators, OrgInv, OrgTypes
    <3>3. Cardinality({w}) <= Cardinality(Workers) /\ Cardinality({w}) = 1
      BY <2>0, FS_Subset, FS_Singleton
    <3>4. Cardinality(Org!MembersOf(p)') = 1 /\ Cardinality(Creators(p)') = 0
      BY <3>1, <3>2, FS_Singleton, FS_EmptySet
    <3>5. QED
      BY <2>0, <3>3, <3>4
  <2>2. CASE p # o
    <3>1. Org!MembersOf(p)' = Org!MembersOf(p)
      BY <1>2, <2>2, MembersGrow
    <3>2. Creators(p)' = Creators(p)
      BY <1>2, <1>4 DEF Creators, OrgInv, OrgTypes
    <3>3. QED
      BY <2>0, <3>1, <3>2
  <2>3. QED
    BY <2>1, <2>2
<1>7. QED
  BY <1>5, <1>6 DEF OrgInv, SeatsCounted

LEMMA OrganizationCreated ==
    ASSUME OrgAssumption, OrgInv, NEW w \in Workers, Org!CreateOrganization(w)
    PROVE  OrgInv'
<1>1. PICK o, u : o = orgJob[w].org /\ u = orgJob[w].user
  OBVIOUS
<1>2. /\ orgJob[w].pc = "plan_admin" /\ UNCHANGED <<members, invitation>>
      /\ o \in Orgs /\ o \notin orgs /\ u \in Users /\ u = Admin[o] /\ Org!MembersOf(o) = {}
      /\ orgs' = orgs \cup {o}
      /\ plan' = [plan EXCEPT ![orgJob[w].user] = [name |-> "BUSINESS", ends |-> orgJob[w].ends]]
      /\ Org!Goto(w, [orgJob[w] EXCEPT !.pc = "founding"])
      /\ \A v \in Workers : orgJob[v].org = o => v = w
      /\ orgJob \in [Workers -> OrgJob]
  BY <1>1, WorkerFits
     DEF Org!CreateOrganization, JobFits, Founding, OrgInv, OrgTypes, FoundersAreAlone
<1>3. plan' \in PlansType
  <2>1. [name |-> "BUSINESS", ends |-> orgJob[w].ends]
          \in [name : Org!Plans, ends : {"never", "later", "past"}]
    BY WorkerFits DEF OrgJob, Org!Plans
  <2>2. QED
    BY <1>2, <2>1, PlanType
<1>4. PICK j \in OrgJob : /\ orgJob' = [orgJob EXCEPT ![w] = j] /\ j.pc = "founding"
                          /\ j.org = o /\ j.user = u /\ j.invite = orgJob[w].invite
  <2>1. OrgTypes /\ Org!Goto(w, [orgJob[w] EXCEPT !.pc = "founding"])
    BY <1>2 DEF OrgInv
  <2>2. \E j \in OrgJob : /\ orgJob' = [orgJob EXCEPT ![w] = j] /\ j.pc = "founding"
                         /\ j.org = orgJob[w].org /\ j.user = orgJob[w].user
                         /\ j.invite = orgJob[w].invite
    BY <2>1, GoesOn
  <2>3. QED
    BY <1>1, <2>2
<1>5. \A p : /\ Led(p) => Led(p)'
             /\ Org!MembersOf(p)' = Org!MembersOf(p)
  BY <1>2 DEF Led, Org!IsAdmin, Org!MembersOf
<1>6. JobFits(j)'
  BY <1>1, <1>2, <1>4, <1>5, WorkerFits DEF JobFits, Founding
<1>7. ASSUME NEW v \in Workers, v # w PROVE JobFits(orgJob[v])'
  <2>1. PICK k : k = orgJob[v] /\ k = orgJob'[v]
    BY <1>2, <1>4, <1>7
  <2>2. JobFits(k) /\ k.org # o
    BY <1>2, <1>7, <2>1 DEF OrgInv, JobsFit
  <2>3. k.org \in orgs <=> k.org \in orgs'
    BY <1>2, <2>2
  <2>4. JobFits(k)'
    BY <1>2, <1>5, <2>2, <2>3, StillFits
  <2>5. QED
    BY <2>1, <2>4
<1>8. orgJob' \in [Workers -> OrgJob] /\ JobsFit' /\ FoundersAreAlone'
  <2>1. \A v \in Workers : v # w => JobFits(orgJob[v])'
    BY <1>7
  <2>2. \A v \in Workers : v # w /\ (j.pc \in Founding \/ orgJob[v].pc \in Founding)
                             => orgJob[v].org # j.org
    BY <1>2, <1>4
  <2>3. QED
    BY <1>4, <1>6, <2>1, <2>2, JobStep
<1>9. EveryoneIsLed'
  BY <1>2, <1>5 DEF OrgInv, EveryoneIsLed
<1>10. OrgTypes'
  <2>1. /\ orgs' \subseteq Orgs /\ members' \subseteq {m \in Org!Memberships : m.org \in orgs'}
        /\ \A a, b \in members' : (a.org = b.org /\ a.user = b.user) => a = b
    BY <1>2 DEF OrgInv, OrgTypes, Org!TypeOK
  <2>2. DOMAIN invitation' \subseteq Invitations /\ invitation' \in [DOMAIN invitation' -> Invite]
    BY <1>2 DEF OrgInv, OrgTypes
  <2>3. QED
    BY <1>3, <1>8, <2>1, <2>2, OrgTypeByParts DEF PlansType
<1>11. SeatsCounted'
  <2>1. \A p \in Orgs : Creators(p)' \subseteq Creators(p)
    BY <1>2, <1>4 DEF Creators
  <2>2. QED
    BY <1>2, <2>1, SeatsFewer
<1>12. QED
  BY <1>8, <1>9, <1>10, <1>11 DEF OrgInv

LEMMA MemberRemoved ==
    ASSUME OrgAssumption, OrgInv, NEW w \in Workers, NEW o \in Orgs, NEW actor \in Users,
           NEW u \in Users, Org!RemoveMember(w, o, actor, u)
    PROVE  OrgInv'
<1>1. /\ o \in orgs /\ Org!IsAdmin(o, actor) /\ u # Admin[o]
      /\ Org!Begin(w, o, u, "downgrading") /\ UNCHANGED <<orgs, plan, invitation>>
      /\ members' = {m \in members : ~(m.org = o /\ m.user = u)}
      /\ orgJob \in [Workers -> OrgJob]
  BY DEF Org!RemoveMember, OrgInv, OrgTypes
<1>2. PICK j \in OrgJob : /\ orgJob' = [orgJob EXCEPT ![w] = j] /\ j.pc = "downgrading"
                          /\ j.org = o /\ j.user = u /\ j.invite = NoOne
  BY <1>1, Begun DEF OrgInv
<1>3. \A p : /\ Led(p) => Led(p)'
             /\ Org!MembersOf(p) = {} => Org!MembersOf(p)' = {}
  BY <1>1 DEF Led, Org!IsAdmin, Org!MembersOf
<1>4. Led(o)
  BY <1>1 DEF OrgInv, EveryoneIsLed, Org!IsAdmin
<1>5. JobFits(j) /\ JobFits(j)'
  BY <1>2 DEF JobFits, Founding
<1>6. ASSUME NEW v \in Workers, v # w PROVE JobFits(orgJob[v])'
  <2>1. PICK k : k = orgJob[v] /\ k = orgJob'[v]
    BY <1>1, <1>2, <1>6
  <2>2. JobFits(k)
    BY <2>1 DEF OrgInv, JobsFit
  <2>3. JobFits(k)'
    BY <1>1, <1>3, <2>2, StillFits
  <2>4. QED
    BY <2>1, <2>3
<1>7. orgJob' \in [Workers -> OrgJob] /\ JobsFit' /\ FoundersAreAlone'
  <2>1. \A v \in Workers : v # w => JobFits(orgJob[v])'
    BY <1>6
  <2>2. \A v \in Workers : v # w /\ (j.pc \in Founding \/ orgJob[v].pc \in Founding)
                             => orgJob[v].org # j.org
    BY <1>2, <1>4, GoesOnAlone DEF Founding
  <2>3. QED
    BY <1>2, <1>5, <2>1, <2>2, JobStep
<1>8. EveryoneIsLed'
  BY <1>1, <1>3 DEF OrgInv, EveryoneIsLed
<1>9. OrgTypes'
  <2>1. /\ orgs' \subseteq Orgs /\ members' \subseteq {m \in Org!Memberships : m.org \in orgs'}
        /\ \A a, b \in members' : (a.org = b.org /\ a.user = b.user) => a = b
    BY <1>1 DEF OrgInv, OrgTypes, Org!TypeOK
  <2>2. DOMAIN invitation' \subseteq Invitations /\ invitation' \in [DOMAIN invitation' -> Invite]
    BY <1>1 DEF OrgInv, OrgTypes
  <2>3. plan' \in PlansType
    BY <1>1, PlanType
  <2>4. QED
    BY <1>7, <2>1, <2>2, <2>3, OrgTypeByParts DEF PlansType
<1>10. SeatsCounted'
  <2>1. \A p \in Orgs : Creators(p)' \subseteq Creators(p)
    BY <1>1, <1>2 DEF Creators
  <2>2. members' \subseteq members
    BY <1>1
  <2>3. QED
    BY <2>1, <2>2, SeatsFewer
<1>11. QED
  BY <1>7, <1>8, <1>9, <1>10 DEF OrgInv

LEMMA OrganizationDestroyed ==
    ASSUME OrgAssumption, OrgInv, NEW o \in Orgs, Org!DestroyOrganization(o)
    PROVE  OrgInv'
<1>1. /\ orgs' = orgs \ {o} /\ members' = {m \in members : m.org # o}
      /\ invitation' = [i \in {x \in DOMAIN invitation : invitation[x].org # o} |-> invitation[i]]
      /\ \A w \in Workers : orgJob[w].org # o
      /\ UNCHANGED <<plan, orgJob>> /\ orgJob \in [Workers -> OrgJob]
  BY DEF Org!DestroyOrganization, OrgInv, OrgTypes
<1>2. \A p : p # o => /\ Led(p) => Led(p)'
                      /\ Org!MembersOf(p) = {} => Org!MembersOf(p)' = {}
  BY <1>1 DEF Led, Org!IsAdmin, Org!MembersOf
<1>3. /\ DOMAIN invitation' = {x \in DOMAIN invitation : invitation[x].org # o}
      /\ \A i \in DOMAIN invitation' : invitation'[i] = invitation[i]
  BY <1>1
<1>4. JobsFit'
  <2> SUFFICES ASSUME NEW w \in Workers PROVE JobFits(orgJob[w])'
    BY DEF JobsFit
  <2>1. PICK k : k = orgJob[w] /\ k = orgJob'[w]
    BY <1>1
  <2>2. JobFits(k) /\ k.org # o
    BY <1>1, <2>1 DEF OrgInv, JobsFit
  <2>3. k.org \in orgs <=> k.org \in orgs'
    BY <1>1, <2>2
  <2>4. k.invite \in DOMAIN invitation /\ k.invite # NoOne =>
          k.invite \in DOMAIN invitation' /\ invitation'[k.invite].org = invitation[k.invite].org
    BY <1>3, <2>2 DEF JobFits
  <2>5. NoOne \notin DOMAIN invitation
    BY OrgConstants DEF OrgInv, OrgTypes
  <2>6. JobFits(k)'
    BY <1>2, <2>2, <2>3, <2>4, <2>5, StillFits
  <2>7. QED
    BY <2>1, <2>6
<1>5. FoundersAreAlone'
  BY <1>1 DEF OrgInv, FoundersAreAlone
<1>6. EveryoneIsLed'
  BY <1>1, <1>2, <1>3 DEF OrgInv, EveryoneIsLed
<1>7. OrgTypes'
  <2>1. /\ orgs' \subseteq Orgs /\ members' \subseteq {m \in Org!Memberships : m.org \in orgs'}
        /\ \A a, b \in members' : (a.org = b.org /\ a.user = b.user) => a = b
    BY <1>1 DEF OrgInv, OrgTypes, Org!TypeOK
  <2>2. DOMAIN invitation' \subseteq Invitations /\ invitation' \in [DOMAIN invitation' -> Invite]
    BY <1>1, <1>3 DEF OrgInv, OrgTypes
  <2>3. plan' \in PlansType
    BY <1>1, PlanType
  <2>4. QED
    BY <1>1, <1>4, <2>1, <2>2, <2>3, OrgTypeByParts DEF PlansType
<1>8. SeatsCounted'
  <2>1. \A p \in Orgs : Creators(p)' \subseteq Creators(p)
    BY <1>1 DEF Creators
  <2>2. members' \subseteq members
    BY <1>1
  <2>3. QED
    BY <2>1, <2>2, SeatsFewer
<1>9. QED
  BY <1>4, <1>5, <1>6, <1>7, <1>8 DEF OrgInv

\* The steps of nobody who is a request.
LEMMA NobodyMoves ==
    ASSUME OrgAssumption, OrgInv, UNCHANGED orgJob, RowsKept, plan' \in PlansType,
           DOMAIN invitation' \subseteq Invitations, invitation' \in [DOMAIN invitation' -> Invite],
           \A i \in DOMAIN invitation' : i \in DOMAIN invitation \/ Led(invitation'[i].org)
    PROVE  OrgInv'
<1>1. /\ UNCHANGED <<orgs, members>> /\ orgJob \in [Workers -> OrgJob]
      /\ \A i \in DOMAIN invitation : invitation'[i].org = invitation[i].org
  BY DEF RowsKept, OrgInv, OrgTypes
<1>2. JobsFit'
  <2> SUFFICES ASSUME NEW w \in Workers PROVE JobFits(orgJob[w])'
    BY DEF JobsFit
  <2>1. PICK k : k = orgJob[w] /\ k = orgJob'[w]
    OBVIOUS
  <2>2. JobFits(k)'
    BY <2>1, RowsKeptFit DEF OrgInv, JobsFit
  <2>3. QED
    BY <2>1, <2>2
<1>3. FoundersAreAlone'
  BY DEF OrgInv, FoundersAreAlone
<1>4. EveryoneIsLed'
  BY <1>1 DEF OrgInv, EveryoneIsLed, Led, Org!IsAdmin
<1>5. OrgTypes'
  BY <1>1, <1>2, OrgTypeByParts DEF OrgInv, OrgTypes, Org!TypeOK, PlansType
<1>6. SeatsCounted'
  BY <1>1, SeatsFewer DEF Creators
<1>7. QED
  BY <1>2, <1>3, <1>4, <1>5, <1>6 DEF OrgInv

LEMMA PlansChange ==
    ASSUME OrgAssumption, OrgInv,
           Org!CheckExpiredTrials \/ \E u \in Users : Org!TrialEnds(u) \/ Org!DowngradeUsers(u)
    PROVE  OrgInv'
<1>1. UNCHANGED <<orgs, members, invitation, orgJob>>
  BY DEF Org!CheckExpiredTrials, Org!TrialEnds, Org!DowngradeUsers
<1>2. /\ Org!Basic \in [name : Org!Plans, ends : {"never", "later", "past"}]
      /\ plan \in PlansType
  BY PlanType DEF Org!Basic, Org!Plans
<1>3. plan' \in PlansType
  <2>1. CASE Org!CheckExpiredTrials
    <3>1. PICK expired : plan' = [u \in Users |-> IF u \in expired THEN Org!Basic ELSE plan[u]]
      BY <2>1 DEF Org!CheckExpiredTrials
    <3>2. QED
      BY <1>2, <3>1 DEF PlansType
  <2>2. CASE \E u \in Users : Org!TrialEnds(u)
    <3>1. PICK u \in Users : plan' = [plan EXCEPT ![u].ends = "past"]
      BY <2>2 DEF Org!TrialEnds
    <3>2. [plan[u] EXCEPT !.ends = "past"] \in [name : Org!Plans, ends : {"never", "later", "past"}]
      BY <1>2 DEF PlansType
    <3>3. QED
      BY <1>2, <3>1, <3>2 DEF PlansType
  <2>3. CASE \E u \in Users : Org!DowngradeUsers(u)
    <3>1. PICK u \in Users : plan' = [plan EXCEPT ![u] = Org!Basic]
      BY <2>3 DEF Org!DowngradeUsers
    <3>2. QED
      BY <1>2, <3>1, PlanType
  <2>4. QED
    BY <2>1, <2>2, <2>3
<1>4. QED
  BY <1>1, <1>3, SameRows, NobodyMoves DEF OrgInv, OrgTypes

LEMMA InvitationsChange ==
    ASSUME OrgAssumption, OrgInv, NEW i \in Invitations, NEW o \in Orgs, NEW actor \in Users,
           Org!InviteMember(o, actor, i) \/ Org!Overdue(i)
    PROVE  OrgInv'
<1>0. /\ UNCHANGED <<orgs, members, plan, orgJob>> /\ plan \in PlansType
      /\ DOMAIN invitation \subseteq Invitations /\ invitation \in [DOMAIN invitation -> Invite]
  BY PlanType DEF Org!InviteMember, Org!Overdue, OrgInv, OrgTypes
<1>1. CASE Org!InviteMember(o, actor, i)
  <2> DEFINE sent == [org |-> o, status |-> "PENDING", overdue |-> FALSE]
  <2>1. /\ o \in orgs /\ Org!IsAdmin(o, actor) /\ i \notin DOMAIN invitation
        /\ invitation' = [x \in DOMAIN invitation \cup {i} |->
             IF x = i THEN sent ELSE invitation[x]]
    BY <1>1 DEF Org!InviteMember
  <2>2. sent \in Invite /\ sent.org = o
    BY DEF Invite, Org!Statuses
  <2> HIDE DEF sent
  <2>3. /\ DOMAIN invitation' = DOMAIN invitation \cup {i} /\ invitation'[i] = sent
        /\ \A x \in DOMAIN invitation : invitation'[x] = invitation[x]
        /\ invitation' \in [DOMAIN invitation' -> Invite]
    BY <1>0, <2>1, <2>2
  <2>4. Led(o)
    BY <2>1 DEF OrgInv, EveryoneIsLed, Org!IsAdmin
  <2>5. RowsKept
    BY <1>0, <2>3 DEF RowsKept
  <2>6. QED
    BY <1>0, <2>2, <2>3, <2>4, <2>5, NobodyMoves
<1>2. CASE Org!Overdue(i)
  <2>1. i \in DOMAIN invitation /\ invitation' = [invitation EXCEPT ![i].overdue = TRUE]
    BY <1>2 DEF Org!Overdue, Org!Pending
  <2>2. PICK r \in Invite : r = [invitation[i] EXCEPT !.overdue = TRUE] /\ r.org = invitation[i].org
    <3>1. [invitation[i] EXCEPT !.overdue = TRUE] \in Invite
      BY <1>0, <2>1 DEF Invite
    <3>2. [invitation[i] EXCEPT !.overdue = TRUE].org = invitation[i].org
      BY <1>0, <2>1 DEF Invite
    <3>3. QED
      BY <3>1, <3>2
  <2>3. invitation' = [invitation EXCEPT ![i] = r]
    BY <2>1, <2>2
  <2>4. /\ DOMAIN invitation' = DOMAIN invitation /\ invitation' \in [DOMAIN invitation' -> Invite]
        /\ \A x \in DOMAIN invitation : invitation'[x].org = invitation[x].org
    BY <1>0, <2>1, <2>2, <2>3
  <2>5. RowsKept
    BY <1>0, <2>4 DEF RowsKept
  <2>6. QED
    BY <1>0, <2>4, <2>5, NobodyMoves
<1>3. QED
  BY <1>1, <1>2

LEMMA OrgInit == OrgAssumption /\ Workers # {} /\ Org!Init => OrgInv
<1> SUFFICES ASSUME OrgAssumption, Workers # {}, Org!Init PROVE OrgInv
  OBVIOUS
<1>1. /\ orgs = {} /\ members = {} /\ invitation = [i \in {} |-> NoOne]
      /\ plan = [u \in Users |-> IF u \in OnTrial THEN [name |-> "PREMIUM", ends |-> "later"]
                                 ELSE [name |-> "BASIC", ends |-> "never"]]
      /\ orgJob = [w \in Workers |-> Org!Idle]
  BY DEF Org!Init
<1>2. \A w \in Workers : orgJob[w] \in OrgJob /\ JobFits(orgJob[w]) /\ orgJob[w].pc = "idle"
  <2>1. PICK j : j = Org!Idle
    OBVIOUS
  <2>2. \A w \in Workers : orgJob[w] = j
    BY <1>1, <2>1
  <2>3. QED
    BY <2>1, <2>2, IdleFits
<1>3. JobsFit /\ FoundersAreAlone /\ EveryoneIsLed
  BY <1>1, <1>2 DEF JobsFit, FoundersAreAlone, EveryoneIsLed, Founding
<1>4. OrgTypes
  <2>1. plan \in PlansType
    BY <1>1 DEF PlansType, Org!Plans
  <2>2. invitation \in [{} -> Invite] /\ DOMAIN invitation = {}
    BY <1>1
  <2>3. {} \in SUBSET Invitations /\ invitation \in [{} -> [org : Orgs, status : Org!Statuses, overdue : BOOLEAN]]
    BY <2>2 DEF Invite
  <2>4. \A w \in Workers :
         /\ orgJob[w].pc \in {"idle", "plan_admin", "founding", "accepting", "adding",
                           "creating", "planning", "accepted", "settling", "downgrading"}
         /\ orgJob[w].invite \in DOMAIN invitation \cup {NoOne}
    BY <1>2, <1>3 DEF JobsFit, JobFits
  <2>5. Org!TypeOK
    BY <1>1, <2>1, <2>3, <2>4 DEF Org!TypeOK, PlansType
  <2>6. orgJob \in [Workers -> OrgJob]
    BY <1>1, <1>2
  <2>7. QED
    BY <2>2, <2>5, <2>6 DEF OrgTypes
<1>5. SeatsCounted
  <2>1. \A o : Org!MembersOf(o) = {} /\ Creators(o) = {}
    BY <1>1, <1>2 DEF Org!MembersOf, Creators
  <2>2. Cardinality(Workers) \in Nat /\ Cardinality(Workers) # 0
    BY OrgConstants, FS_CardinalityType, FS_EmptySet
  <2>3. \A o : Cardinality(Org!MembersOf(o)) = 0 /\ Cardinality(Creators(o)) = 0
    BY <2>1, FS_EmptySet
  <2>4. MaxMembers \in Nat \ {0}
    BY OrgConstants
  <2>5. 0 + 0 <= MaxMembers - 1 + Cardinality(Workers)
    BY <2>2, <2>4
  <2>6. QED
    BY <2>3, <2>5 DEF SeatsCounted
<1>6. QED
  BY <1>3, <1>4, <1>5 DEF OrgInv

LEMMA OrgStep ==
    ASSUME OrgAssumption, OrgInv, [Org!Next]_(Org!vars)
    PROVE  OrgInv'
<1>1. ASSUME NEW w \in Workers, Org!RequestStep(w) \/ Org!Dies(w) PROVE OrgInv'
  BY <1>1, OrganizationCreated, AdminJoined, AddChecked, MembershipCreated, PlanGiven,
     RequestsEnd, AcceptChecked DEF Org!RequestStep
<1>2. ASSUME NEW w \in Workers, NEW o \in Orgs, Org!StartOrganization(w, o) PROVE OrgInv'
  <2>1. Admin[o] \in Users
    BY OrgConstants
  <2>2. QED
    BY <1>2, <2>1, RequestsBegin
<1>3. ASSUME NEW w \in Workers, NEW o \in Orgs, NEW actor \in Users, NEW u \in Users,
             Org!StartAddMember(w, o, actor, u) \/ Org!RemoveMember(w, o, actor, u)
      PROVE  OrgInv'
  BY <1>3, RequestsBegin, MemberRemoved
<1>4. ASSUME NEW w \in Workers, NEW i \in Invitations, NEW u \in Users, Org!StartAccept(w, i, u)
      PROVE  OrgInv'
  BY <1>4, AnswersBegin
<1>5. ASSUME NEW w \in Workers, NEW i \in Invitations,
             \/ Org!StartReject(w, i) \/ Org!StartCancel(w, i) \/ Org!StartValidate(w, i)
      PROVE  OrgInv'
  <2>1. \E s \in {"REJECTED", "EXPIRED"} : Org!StartSettle(w, i, s)
    BY <1>5 DEF Org!StartReject, Org!StartCancel, Org!StartValidate
  <2>2. Led(invitation[i].org) /\ invitation[i].org \in Orgs
    BY <2>1 DEF Org!StartSettle, Org!Pending, OrgInv, OrgTypes, EveryoneIsLed, Invite
  <2>3. Admin[invitation[i].org] \in Users
    BY <2>2, OrgConstants
  <2>4. QED
    BY <2>1, <2>3, AnswersBegin
<1>6. ASSUME NEW o \in Orgs, NEW actor \in Users, NEW i \in Invitations,
             Org!InviteMember(o, actor, i)
      PROVE  OrgInv'
  BY <1>6, InvitationsChange
<1>7. ASSUME NEW i \in Invitations, Org!Overdue(i) PROVE OrgInv'
  <2>1. Led(invitation[i].org) /\ invitation[i].org \in Orgs
    BY <1>7 DEF Org!Overdue, Org!Pending, OrgInv, OrgTypes, EveryoneIsLed, Invite
  <2>2. Admin[invitation[i].org] \in Users
    BY <2>1, OrgConstants
  <2>3. QED
    BY <1>7, <2>1, <2>2, InvitationsChange
<1>8. CASE UNCHANGED Org!vars
  <2>1. UNCHANGED <<orgs, members, plan, invitation, orgJob>>
    BY <1>8 DEF Org!vars
  <2>2. QED
    BY <2>1, SameRows, PlanType, NobodyMoves DEF OrgInv, OrgTypes
<1>9. QED
  BY <1>1, <1>2, <1>3, <1>4, <1>5, <1>6, <1>7, <1>8, OrganizationDestroyed, PlansChange
     DEF Org!Next

\* What each request has read of an organization still stands, and a seat is
\* held for whoever counted the members.
THEOREM OrgInvariantHolds ==
    ASSUME OrgAssumption, Workers # {} PROVE Org!Spec => []OrgInv
<1>1. Org!Init => OrgInv
  BY OrgInit
<1>2. OrgInv /\ [Org!Next]_(Org!vars) => OrgInv'
  BY OrgStep
<1>3. QED
  BY <1>1, <1>2, PTL DEF Org!Spec

\* A behaviour of Accounts about organizations is one of Organizations.
AboutOrganizations == focus = "organization"

LEMMA OrganizationSteps ==
    [AccountsNext]_allVars =>
      /\ AboutOrganizations => AboutOrganizations' /\ [Org!Next]_(Org!vars)
      /\ ~AboutOrganizations => ~AboutOrganizations'
BY DEF AboutOrganizations, AccountsNext, UsageStep, PauseStep, OrganizationStep, RiskStep,
       LimitStep, allVars, orgVars, Org!vars

\* can_add_members is checked before the membership is made: requests that race
\* for the last place exceed the limit by fewer than they are, whatever joins,
\* leaves, is invited or dies meanwhile.
THEOREM OvershootBounded ==
    ASSUME Workers # {} PROVE AccountsSpec => []OvershootIsBounded
<1>0. OrgAssumption
  BY OrganizationsAssumed DEF OrgAssumption
<1>1. OrgInv => Org!OvershootIsBounded
  <2> SUFFICES ASSUME OrgInv, NEW o \in Orgs
               PROVE  Cardinality(Org!MembersOf(o)) <= MaxMembers - 1 + Cardinality(Workers)
    BY SameSets DEF Org!OvershootIsBounded
  <2>1. /\ Cardinality(Org!MembersOf(o)) \in Nat /\ Cardinality(Creators(o)) \in Nat
        /\ Cardinality(Workers) \in Nat /\ MaxMembers \in Nat
        /\ Cardinality(Org!MembersOf(o)) + Cardinality(Creators(o))
             <= MaxMembers - 1 + Cardinality(Workers)
    BY <1>0, SeatsAreFinite, MembersHaveOrgs, OrgConstants DEF OrgInv, SeatsCounted
  <2>2. QED
    BY <2>1
<1>2. AccountsInit /\ AboutOrganizations => Org!Init
  BY DEF AccountsInit, AboutOrganizations
<1>3. QED
  BY <1>0, <1>1, <1>2, OrganizationSteps, OrgInvariantHolds, PTL
     DEF AccountsSpec, OvershootIsBounded, Org!Spec, AboutOrganizations

LEMMA AdministratorStays ==
    ASSUME Org!Next
    PROVE  Org!AdministratorKept
<1> SUFFICES ASSUME NEW p \in orgs \cap orgs', Org!IsAdmin(p, Admin[p])
             PROVE  Org!IsAdmin(p, Admin[p])'
  BY DEF Org!AdministratorKept
<1> DEFINE m == [org |-> p, user |-> Admin[p], role |-> "ADMIN"]
<1>1. m \in members
  BY DEF Org!IsAdmin
<1>2. m \in members'
  <2>1. CASE members \subseteq members'
    BY <1>1, <2>1
  <2>2. CASE \E w \in Workers, o \in Orgs, actor, u \in Users : Org!RemoveMember(w, o, actor, u)
    <3>1. PICK o \in Orgs, u \in Users :
            members' = {x \in members : ~(x.org = o /\ x.user = u)} /\ u # Admin[o]
      BY <2>2 DEF Org!RemoveMember
    <3>2. QED
      BY <1>1, <3>1
  <2>3. CASE \E o \in Orgs : Org!DestroyOrganization(o)
    <3>1. PICK o \in Orgs : members' = {x \in members : x.org # o} /\ orgs' = orgs \ {o}
      BY <2>3 DEF Org!DestroyOrganization
    <3>2. p # o
      BY <3>1
    <3>3. QED
      BY <1>1, <3>1, <3>2
  <2>4. CASE \E w \in Workers : Org!RequestStep(w) \/ Org!Dies(w)
    <3>1. members \subseteq members'
      BY <2>4 DEF Org!RequestStep, Org!CreateOrganization, Org!JoinAsAdmin, Org!AddChecks,
         Org!CreateMembership, Org!GivePlan, Org!Downgrade, Org!AcceptChecks, Org!SaveAccepted,
         Org!SaveSettled, Org!Dies
    <3>2. QED
      BY <2>1, <3>1
  <2>5. CASE \/ \E w \in Workers :
                  \/ \E o \in Orgs : \/ Org!StartOrganization(w, o)
                                     \/ \E actor, u \in Users : Org!StartAddMember(w, o, actor, u)
                  \/ \E i \in Invitations :
                       \/ \E u \in Users : Org!StartAccept(w, i, u)
                       \/ Org!StartReject(w, i) \/ Org!StartCancel(w, i)
                       \/ Org!StartValidate(w, i)
             \/ \E o \in Orgs, actor \in Users, i \in Invitations : Org!InviteMember(o, actor, i)
             \/ \E i \in Invitations : Org!Overdue(i)
             \/ \E u \in Users : Org!TrialEnds(u) \/ Org!DowngradeUsers(u)
             \/ Org!CheckExpiredTrials
    <3>1. UNCHANGED members
      BY <2>5 DEF Org!StartOrganization, Org!StartAddMember, Org!StartAccept, Org!StartReject,
         Org!StartCancel, Org!StartValidate, Org!StartSettle, Org!InviteMember, Org!Overdue,
         Org!TrialEnds, Org!DowngradeUsers, Org!CheckExpiredTrials
    <3>2. QED
      BY <2>1, <3>1
  <2>6. QED
    BY <2>2, <2>3, <2>4, <2>5 DEF Org!Next
<1>3. QED
  BY <1>2 DEF Org!IsAdmin

LEMMA SettledStays ==
    ASSUME OrgInv, Org!Next
    PROVE  Org!NotReopened
<1> SUFFICES ASSUME NEW i \in DOMAIN invitation \cap DOMAIN invitation',
                    invitation'[i].status = "PENDING"
             PROVE  invitation[i].status = "PENDING"
  BY DEF Org!NotReopened
<1>0. invitation \in [DOMAIN invitation -> Invite]
  BY DEF OrgInv, OrgTypes
<1>1. CASE \E w \in Workers, s \in {"EXPIRED", "REJECTED", "ACCEPTED"} :
             invitation' = [invitation EXCEPT ![orgJob[w].invite].status = s]
  <2>1. PICK k, s : invitation' = [invitation EXCEPT ![k].status = s] /\ s # "PENDING"
    BY <1>1
  <2>2. k = i => invitation'[i].status = s
    BY <1>0, <2>1 DEF Invite
  <2>3. k # i => invitation'[i] = invitation[i]
    BY <1>0, <2>1
  <2>4. QED
    BY <2>1, <2>2, <2>3
<1>2. CASE \E w \in Workers : Org!RequestStep(w) \/ Org!Dies(w)
  <2>1. PICK w \in Workers : Org!RequestStep(w) \/ Org!Dies(w)
    BY <1>2
  <2>2. CASE Org!SaveSettled(w)
    <3>1. orgJob[w].status \in {"REJECTED", "EXPIRED"}
      BY <2>2, WorkerFits DEF Org!SaveSettled, JobFits
    <3>2. invitation' = [invitation EXCEPT ![orgJob[w].invite].status = orgJob[w].status]
      BY <2>2 DEF Org!SaveSettled, Org!Settle
    <3>3. QED
      BY <1>1, <3>1, <3>2
  <2>3. CASE Org!SaveAccepted(w)
    BY <1>1, <2>3 DEF Org!SaveAccepted, Org!Settle
  <2>4. CASE Org!AcceptChecks(w)
    <3>1. \/ \E s \in {"EXPIRED", "REJECTED"} :
                invitation' = [invitation EXCEPT ![orgJob[w].invite].status = s]
          \/ UNCHANGED invitation
      BY <2>4 DEF Org!AcceptChecks, Org!Settle
    <3>2. QED
      BY <1>1, <3>1
  <2>5. CASE \/ Org!CreateOrganization(w) \/ Org!JoinAsAdmin(w) \/ Org!AddChecks(w)
             \/ Org!CreateMembership(w) \/ Org!GivePlan(w) \/ Org!Downgrade(w) \/ Org!Dies(w)
    BY <2>5 DEF Org!CreateOrganization, Org!JoinAsAdmin, Org!AddChecks, Org!CreateMembership,
       Org!GivePlan, Org!Downgrade, Org!Dies
  <2>6. QED
    BY <2>1, <2>2, <2>3, <2>4, <2>5 DEF Org!RequestStep
<1>3. CASE \E o \in Orgs : Org!DestroyOrganization(o)
  BY <1>3 DEF Org!DestroyOrganization
<1>4. CASE \E o \in Orgs, actor \in Users, k \in Invitations : Org!InviteMember(o, actor, k)
  BY <1>4 DEF Org!InviteMember
<1>5. CASE \E k \in Invitations : Org!Overdue(k)
  <2>1. PICK k : invitation' = [invitation EXCEPT ![k].overdue = TRUE]
    BY <1>5 DEF Org!Overdue
  <2>2. invitation'[i].status = invitation[i].status
    BY <1>0, <2>1 DEF Invite
  <2>3. QED
    BY <2>2
<1>6. CASE \/ \E w \in Workers :
                \/ \E o \in Orgs :
                     \/ Org!StartOrganization(w, o)
                     \/ \E actor, u \in Users : \/ Org!StartAddMember(w, o, actor, u)
                                                \/ Org!RemoveMember(w, o, actor, u)
                \/ \E k \in Invitations :
                     \/ \E u \in Users : Org!StartAccept(w, k, u)
                     \/ Org!StartReject(w, k) \/ Org!StartCancel(w, k)
                     \/ Org!StartValidate(w, k)
           \/ \E u \in Users : Org!TrialEnds(u) \/ Org!DowngradeUsers(u)
           \/ Org!CheckExpiredTrials
  <2>1. UNCHANGED invitation
    BY <1>6 DEF Org!StartOrganization, Org!StartAddMember, Org!RemoveMember, Org!StartAccept,
       Org!StartReject, Org!StartCancel, Org!StartValidate, Org!StartSettle, Org!TrialEnds,
       Org!DowngradeUsers, Org!CheckExpiredTrials
  <2>2. QED
    BY <2>1
<1>7. QED
  BY <1>2, <1>3, <1>4, <1>5, <1>6 DEF Org!Next

\* OrganizationInvitation rows are saved from copies and the administrator is
\* refused by remove_member: nobody but a deletion of the organization takes the
\* administrator out of it, and no step reopens an invitation that is settled.
THEOREM MembershipsKept == ASSUME Workers # {} PROVE AccountsSpec => MembershipsHold
<1>0. OrgAssumption
  BY OrganizationsAssumed DEF OrgAssumption
<1>1. OrgInv /\ AboutOrganizations /\ [AccountsNext]_allVars =>
        [AboutOrganizations => Org!AdministratorKept /\ Org!NotReopened]_orgVars
  <2> SUFFICES ASSUME OrgInv, [Org!Next]_(Org!vars)
               PROVE  [Org!AdministratorKept /\ Org!NotReopened]_orgVars
    BY OrganizationSteps
  <2>1. QED
    BY AdministratorStays, SettledStays DEF orgVars, Org!vars
<1>2. ~AboutOrganizations =>
        [AboutOrganizations => Org!AdministratorKept /\ Org!NotReopened]_orgVars
  OBVIOUS
<1>3. AccountsInit /\ AboutOrganizations => Org!Init
  BY DEF AccountsInit, AboutOrganizations
<1>4. QED
  BY <1>0, <1>1, <1>2, <1>3, OrganizationSteps, OrgInvariantHolds, PTL
     DEF AccountsSpec, MembershipsHold, Org!Spec, AboutOrganizations

-----------------------------------------------------------------------------
(* The risk profile.                                                        *)

\* A set of numbers up to some bound has a greatest.
LEMMA GreatestIndex ==
    ASSUME NEW n \in Nat, NEW S \in SUBSET (1..n), S # {}
    PROVE  Risk!Max(S) \in S /\ \A j \in S : j <= Risk!Max(S)
<1> DEFINE left == {n - j : j \in S}
<1>0. \A j \in S : n - j \in Nat /\ j \in Nat
  OBVIOUS
<1>1. left \subseteq Nat /\ left # {}
  BY <1>0
<1> HIDE DEF left
<1>2. PICK k \in left : \A m \in left : ~ (<<m, k>> \in OpToRel(<, Nat))
  BY Zenon, <1>1, NatLessThanWellFounded, WFMin
<1>3. \A m \in left : ~ (m < k)
  BY Zenon, <1>1, <1>2 DEF OpToRel
<1>4. PICK i \in S : k = n - i
  BY DEF left
<1>5. \A j \in S : i >= j
  <2> TAKE j \in S
  <2>1. n - j \in left
    BY DEF left
  <2>2. ~ (n - j < n - i)
    BY <1>3, <1>4, <2>1
  <2>3. QED
    BY <1>0, <2>2
<1>6. \E x \in S : \A y \in S : x >= y
  BY <1>5
<1>7. Risk!Max(S) \in S /\ \A y \in S : Risk!Max(S) >= y
  BY Zenon, <1>6 DEF Risk!Max
<1>8. QED
  BY <1>7

Level == Risk!Tolerances \cup {NoValue}
RiskJobs == [pc : {"idle", "combining", "syncing", "posting", "declaring"},
             declared : Level, inferred : Level, result : Level, known : BOOLEAN]

\* What a request has: the tolerance a post will save, and an inference if the
\* user had one.
JobIsSound(j) ==
    /\ j \in RiskJobs
    /\ j.pc \in {"posting", "declaring"} => j.result # NoValue
    /\ j.pc = "combining" /\ j.known => j.inferred # NoValue

RiskInv ==
    /\ Risk!TypeOK
    /\ riskJob \in [Workers -> RiskJobs]
    /\ \A w \in Workers : JobIsSound(riskJob[w])

LEMMA RiskConstants ==
    /\ MaxAssessments \in Nat
    /\ NoValue \notin Risk!Tolerances /\ NoValue \notin Risk!Row
BY RiskAssumed DEF Risk!RiskAssumption

LEMMA LatestIsOne ==
    ASSUME assessments \in Seq(Risk!Assessment)
    PROVE  /\ Risk!LatestDeclared \in Risk!Assessment \cup {NoValue}
           /\ Risk!FreshInference \in Risk!Assessment \cup {NoValue}
           /\ Risk!AnyInference \in Risk!Assessment \cup {NoValue}
<1>1. ASSUME NEW S \in SUBSET DOMAIN assessments, S # {}
      PROVE  assessments[Risk!Max(S)] \in Risk!Assessment
  <2>1. Len(assessments) \in Nat /\ DOMAIN assessments = 1..Len(assessments)
    OBVIOUS
  <2>2. Risk!Max(S) \in S
    BY <1>1, <2>1, GreatestIndex
  <2>3. QED
    BY <2>1, <2>2
<1>2. Risk!LatestDeclared \in Risk!Assessment \cup {NoValue}
  <2> DEFINE S == {i \in DOMAIN assessments : assessments[i].by # "auto"}
  <2>1. S # {} => assessments[Risk!Max(S)] \in Risk!Assessment
    BY <1>1
  <2>2. QED
    BY <2>1 DEF Risk!LatestDeclared, Risk!Latest
<1>3. Risk!FreshInference \in Risk!Assessment \cup {NoValue}
  <2> DEFINE S == {i \in DOMAIN assessments : assessments[i].by = "auto" /\ assessments[i].fresh}
  <2>1. S # {} => assessments[Risk!Max(S)] \in Risk!Assessment
    BY <1>1
  <2>2. QED
    BY <2>1 DEF Risk!FreshInference, Risk!Latest
<1>4. Risk!AnyInference \in Risk!Assessment \cup {NoValue}
  <2> DEFINE S == {i \in DOMAIN assessments : assessments[i].by = "auto"}
  <2>1. S # {} => assessments[Risk!Max(S)] \in Risk!Assessment
    BY <1>1
  <2>2. QED
    BY <2>1 DEF Risk!AnyInference, Risk!Latest
<1>5. QED
  BY <1>2, <1>3, <1>4

\* What a tolerance read from the assessments may be, and when there is one.
LEMMA TolerancesRead ==
    ASSUME assessments \in Seq(Risk!Assessment)
    PROVE  /\ Risk!Tolerance(Risk!LatestDeclared) \in Level
           /\ Risk!Tolerance(Risk!StoredInference) \in Level
           /\ Risk!AnyInference # NoValue => Risk!Tolerance(Risk!StoredInference) # NoValue
           /\ Risk!FreshInference # NoValue => Risk!Tolerance(Risk!FreshInference) \in Risk!Tolerances
           /\ Risk!Inferred \in Risk!Tolerances
<1>1. \A a \in Risk!Assessment \cup {NoValue} :
        /\ Risk!Tolerance(a) \in Level
        /\ a # NoValue => Risk!Tolerance(a) \in Risk!Tolerances
  BY DEF Risk!Tolerance, Risk!Assessment, Level
<1>2. Risk!Inferred \in Risk!Tolerances
  BY DEF Risk!Inferred, Risk!ToleranceFor, Risk!Tolerances
<1>3. QED
  BY <1>1, <1>2, LatestIsOne, RiskConstants DEF Risk!StoredInference

\* The parts of the invariant, for a step in which one request takes a new state.
LEMMA JobChanges ==
    ASSUME RiskInv, NEW w \in Workers, NEW j, JobIsSound(j), Risk!Goto(w, j),
           signals' \in Signals, row' \in Risk!Row \cup {NoValue},
           assessments' \in Seq(Risk!Assessment), row' = NoValue => assessments' = <<>>
    PROVE  RiskInv'
<1>1. /\ riskJob \in [Workers -> RiskJobs] /\ riskJob' = [riskJob EXCEPT ![w] = j]
      /\ \A v \in Workers : JobIsSound(riskJob[v])
  BY DEF RiskInv, Risk!Goto
<1>2. riskJob' \in [Workers -> RiskJobs]
  BY <1>1 DEF JobIsSound
<1>3. \A v \in Workers : JobIsSound(riskJob[v])'
  BY <1>1 DEF JobIsSound
<1>4. Risk!TypeOK'
  BY <1>2 DEF Risk!TypeOK, RiskJobs, Level
<1>5. QED
  BY <1>2, <1>3, <1>4 DEF RiskInv

LEMMA RowChanges ==
    ASSUME RiskInv, UNCHANGED riskJob,
           signals' \in Signals, row' \in Risk!Row \cup {NoValue},
           assessments' \in Seq(Risk!Assessment), row' = NoValue => assessments' = <<>>
    PROVE  RiskInv'
BY DEF RiskInv, Risk!TypeOK, JobIsSound

LEMMA IdleIsSound == JobIsSound(Risk!Idle)
BY DEF JobIsSound, RiskJobs, Risk!Idle, Level

LEMMA CombiningIsSound ==
    ASSUME RiskInv
    PROVE  /\ JobIsSound(Risk!Combining(Risk!StoredInference))
           /\ Risk!FreshInference # NoValue => JobIsSound(Risk!Combining(Risk!FreshInference))
           /\ JobIsSound([Risk!Combining(NoValue) EXCEPT !.inferred = Risk!Inferred])
<1>1. assessments \in Seq(Risk!Assessment)
  BY DEF RiskInv, Risk!TypeOK
<1>2. Risk!Inferred \in Risk!Tolerances /\ Risk!Tolerance(Risk!LatestDeclared) \in Level
  BY <1>1, TolerancesRead
<1>3. \A a, t \in Level : (Risk!AnyInference # NoValue => t # NoValue) =>
        JobIsSound([Risk!Idle EXCEPT !.pc = "combining",
                      !.declared = a, !.inferred = t,
                      !.known = (Risk!AnyInference # NoValue)])
  BY DEF JobIsSound, RiskJobs, Risk!Idle, Level
<1>4. JobIsSound(Risk!Combining(Risk!StoredInference))
  BY <1>1, <1>3, TolerancesRead DEF Risk!Combining
<1>5. Risk!FreshInference # NoValue => JobIsSound(Risk!Combining(Risk!FreshInference))
  BY <1>1, <1>3, TolerancesRead, RiskConstants DEF Risk!Combining, Level
<1>6. JobIsSound([Risk!Combining(NoValue) EXCEPT !.inferred = Risk!Inferred])
  BY <1>2, RiskConstants DEF Risk!Combining, JobIsSound, RiskJobs, Risk!Idle, Level
<1>7. QED
  BY <1>4, <1>5, <1>6

LEMMA InferredRows ==
    ASSUME RiskInv, Risk!Infer
    PROVE  /\ row' \in Risk!Row /\ row' # NoValue /\ assessments' \in Seq(Risk!Assessment)
<1>1. /\ assessments \in Seq(Risk!Assessment) /\ row \in Risk!Row \cup {NoValue}
      /\ Risk!Inferred \in Risk!Tolerances
  BY TolerancesRead DEF RiskInv, Risk!TypeOK
<1>2. [tolerance |-> Risk!Inferred, by |-> "auto", fresh |-> TRUE] \in Risk!Assessment
  BY <1>1 DEF Risk!Assessment
<1>3. [tolerance |-> "moderate", override |-> FALSE] \in Risk!Row
  BY DEF Risk!Row, Risk!Tolerances
<1>4. /\ assessments' = Append(assessments, [tolerance |-> Risk!Inferred, by |-> "auto", fresh |-> TRUE])
      /\ row' = IF row = NoValue THEN [tolerance |-> "moderate", override |-> FALSE] ELSE row
  BY DEF Risk!Infer
<1>5. assessments' \in Seq(Risk!Assessment)
  BY <1>1, <1>2, <1>4
<1>6. row' \in Risk!Row
  BY <1>1, <1>3, <1>4
<1>7. QED
  BY <1>5, <1>6, RiskConstants

LEMMA ProfileRead ==
    ASSUME RiskInv, NEW w \in Workers,
           \/ Risk!ReadProfile(w) \/ Risk!CombineProfile(w) \/ Risk!SyncProfileRow(w)
           \/ \E forced \in BOOLEAN : Risk!RefreshProfile(w, forced)
    PROVE  RiskInv'
<1>0. /\ signals \in Signals /\ row \in Risk!Row \cup {NoValue}
      /\ assessments \in Seq(Risk!Assessment) /\ (row = NoValue => assessments = <<>>)
      /\ riskJob[w] \in RiskJobs /\ JobIsSound(riskJob[w])
  BY DEF RiskInv, Risk!TypeOK
<1>1. CASE Risk!ReadProfile(w)
  BY <1>0, <1>1, CombiningIsSound, JobChanges DEF Risk!ReadProfile
<1>2. CASE Risk!CombineProfile(w)
  <2> DEFINE override == row # NoValue /\ row.override
             result == Risk!Combine(riskJob[w].declared, riskJob[w].inferred, override)
             j == [Risk!Idle EXCEPT !.pc = "syncing", !.result = result]
  <2>1. result \in Level
    BY <1>0 DEF Risk!Combine, RiskJobs
  <2>2. Risk!Goto(w, j) /\ UNCHANGED <<signals, row, assessments>>
    BY <1>2 DEF Risk!CombineProfile
  <2> HIDE DEF result
  <2>3. JobIsSound(j)
    BY <2>1 DEF JobIsSound, RiskJobs, Risk!Idle, Level
  <2>4. QED
    BY <1>0, <2>2, <2>3, JobChanges
<1>3. CASE Risk!SyncProfileRow(w)
  <2>1. row' \in Risk!Row \cup {NoValue} /\ (row' = NoValue => row = NoValue)
    BY <1>0, <1>3, RiskConstants DEF Risk!SyncProfileRow, Risk!Row, RiskJobs, Level
  <2>2. QED
    BY <1>0, <1>3, <2>1, IdleIsSound, JobChanges DEF Risk!SyncProfileRow
<1>4. CASE \E forced \in BOOLEAN : Risk!RefreshProfile(w, forced)
  <2>1. UNCHANGED signals
    BY <1>4 DEF Risk!RefreshProfile
  <2>2. CASE /\ Risk!FreshInference # NoValue /\ UNCHANGED <<row, assessments>>
             /\ Risk!Goto(w, Risk!Combining(Risk!FreshInference))
    BY <1>0, <2>1, <2>2, CombiningIsSound, JobChanges
  <2>3. CASE /\ Risk!Infer
             /\ Risk!Goto(w, [Risk!Combining(NoValue) EXCEPT !.inferred = Risk!Inferred])
    BY <1>0, <2>1, <2>3, CombiningIsSound, InferredRows, JobChanges
  <2>4. QED
    BY <1>4, <2>2, <2>3 DEF Risk!RefreshProfile
<1>5. QED
  BY <1>1, <1>2, <1>3, <1>4

LEMMA ProfileDeclared ==
    ASSUME RiskInv, NEW w \in Workers,
           \/ \E t \in Risk!Tolerances \cup {NoValue} : Risk!StartPost(w, t)
           \/ \E t \in Risk!Tolerances : Risk!Persist(w, t)
           \/ Risk!SavePost(w) \/ Risk!AddAssessment(w) \/ Risk!Dies(w)
    PROVE  RiskInv'
<1>0. /\ signals \in Signals /\ row \in Risk!Row \cup {NoValue}
      /\ assessments \in Seq(Risk!Assessment) /\ (row = NoValue => assessments = <<>>)
      /\ riskJob[w] \in RiskJobs /\ JobIsSound(riskJob[w])
  BY DEF RiskInv, Risk!TypeOK
<1>1. ASSUME NEW t \in Risk!Tolerances \cup {NoValue}, Risk!StartPost(w, t) PROVE RiskInv'
  <2> DEFINE result == IF t = NoValue THEN row.tolerance ELSE t
             j == [Risk!Idle EXCEPT !.pc = "posting", !.result = result]
  <2>1. result \in Risk!Tolerances
    BY <1>0, <1>1 DEF Risk!StartPost, Risk!Row
  <2>2. Risk!Goto(w, j) /\ UNCHANGED <<signals, row, assessments>>
    BY <1>1 DEF Risk!StartPost
  <2> HIDE DEF result
  <2>3. JobIsSound(j)
    BY <2>1, RiskConstants DEF JobIsSound, RiskJobs, Risk!Idle, Level
  <2>4. QED
    BY <1>0, <2>2, <2>3, JobChanges
<1>2. ASSUME NEW t \in Risk!Tolerances, Risk!Persist(w, t) PROVE RiskInv'
  <2> DEFINE j == [Risk!Idle EXCEPT !.pc = "declaring", !.result = t]
  <2>1. JobIsSound(j)
    BY RiskConstants DEF JobIsSound, RiskJobs, Risk!Idle, Level
  <2>2. row' \in Risk!Row /\ Risk!Goto(w, j) /\ UNCHANGED <<signals, assessments>>
    BY <1>2 DEF Risk!Persist, Risk!Row
  <2>3. QED
    BY <1>0, <2>1, <2>2, RiskConstants, JobChanges
<1>3. CASE Risk!SavePost(w)
  <2> DEFINE j == [riskJob[w] EXCEPT !.pc = "declaring"]
  <2>1. riskJob[w].result \in Risk!Tolerances
    BY <1>0, <1>3 DEF Risk!SavePost, JobIsSound, RiskJobs, Level
  <2>2. JobIsSound(j)
    BY <1>0, <1>3, <2>1, RiskConstants DEF Risk!SavePost, JobIsSound, RiskJobs
  <2>3. row' \in Risk!Row /\ Risk!Goto(w, j) /\ UNCHANGED <<signals, assessments>>
    BY <1>3, <2>1 DEF Risk!SavePost, Risk!Row
  <2>4. QED
    BY <1>0, <2>2, <2>3, RiskConstants, JobChanges
<1>4. CASE Risk!AddAssessment(w)
  <2>1. [tolerance |-> riskJob[w].result, by |-> "user", fresh |-> FALSE] \in Risk!Assessment
    BY <1>0, <1>4 DEF Risk!AddAssessment, Risk!Assessment, JobIsSound, RiskJobs, Level
  <2>2. assessments' \in Seq(Risk!Assessment) /\ (row = NoValue => assessments' = <<>>)
    BY <1>0, <1>4, <2>1 DEF Risk!AddAssessment
  <2>3. QED
    BY <1>0, <1>4, <2>2, IdleIsSound, JobChanges DEF Risk!AddAssessment
<1>5. CASE Risk!Dies(w)
  BY <1>0, <1>5, IdleIsSound, JobChanges DEF Risk!Dies
<1>6. QED
  BY <1>1, <1>2, <1>3, <1>4, <1>5

LEMMA RiskStepHolds == RiskInv /\ [Risk!Next]_(Risk!vars) => RiskInv'
<1> SUFFICES ASSUME RiskInv, [Risk!Next]_(Risk!vars) PROVE RiskInv'
  OBVIOUS
<1>0. /\ signals \in Signals /\ row \in Risk!Row \cup {NoValue}
      /\ assessments \in Seq(Risk!Assessment) /\ (row = NoValue => assessments = <<>>)
  BY DEF RiskInv, Risk!TypeOK
<1>1. CASE Risk!DeleteProfile
  BY <1>0, <1>1, RowChanges DEF Risk!DeleteProfile
<1>2. CASE Risk!RefreshStale
  BY <1>0, <1>2, InferredRows, RowChanges DEF Risk!RefreshStale
<1>3. ASSUME NEW n \in 1..MaxAssessments, Risk!GrowOld(n) PROVE RiskInv'
  <2>1. \A i \in DOMAIN assessments :
          [assessments[i] EXCEPT !.fresh = @ /\ i > n] \in Risk!Assessment
    <3> TAKE i \in DOMAIN assessments
    <3> DEFINE still == assessments[i].fresh /\ i > n
    <3>1. still \in BOOLEAN
      BY Zenon
    <3> HIDE DEF still
    <3>2. assessments[i] \in Risk!Assessment
      BY <1>0
    <3>3. [assessments[i] EXCEPT !.fresh = still] \in Risk!Assessment
      BY <3>1, <3>2 DEF Risk!Assessment
    <3>4. QED
      BY <3>3 DEF still
  <2>2. /\ Len(assessments) \in Nat /\ DOMAIN assessments = 1..Len(assessments)
        /\ assessments' = [i \in 1..Len(assessments) |->
                             [assessments[i] EXCEPT !.fresh = @ /\ i > n]]
    BY <1>0, <1>3 DEF Risk!GrowOld
  <2>3. assessments' \in Seq(Risk!Assessment)
    BY <2>1, <2>2
  <2>4. assessments = <<>> => assessments' = <<>>
    BY <2>2
  <2>5. QED
    BY <1>0, <1>3, <2>3, <2>4, RowChanges DEF Risk!GrowOld
<1>4. ASSUME NEW s \in Signals, Risk!Record(s) PROVE RiskInv'
  BY <1>0, <1>4, RowChanges DEF Risk!Record
<1>5. CASE UNCHANGED Risk!vars
  BY <1>0, <1>5, RowChanges DEF Risk!vars
<1>6. QED
  BY <1>1, <1>2, <1>3, <1>4, <1>5, ProfileRead, ProfileDeclared DEF Risk!Next

\* What a request has read of the profile, of any signals and requests.
THEOREM RiskInvariantHolds == Risk!Spec => []RiskInv
<1>1. Risk!Init => RiskInv
  <2> SUFFICES ASSUME Risk!Init PROVE RiskInv
    OBVIOUS
  <2>1. \A w \in Workers : riskJob[w] = Risk!Idle
    BY DEF Risk!Init
  <2>2. riskJob \in [Workers -> RiskJobs] /\ \A w \in Workers : JobIsSound(riskJob[w])
    BY <2>1, IdleIsSound DEF Risk!Init, JobIsSound
  <2>3. QED
    BY <2>2 DEF Risk!Init, RiskInv, Risk!TypeOK, RiskJobs, Level
<1>2. QED
  BY <1>1, RiskStepHolds, PTL DEF Risk!Spec

\* A behaviour of Accounts about the risk profile is one of RiskProfile.
AboutRisk == focus = "risk"

LEMMA RiskSteps ==
    [AccountsNext]_allVars =>
      (AboutRisk => AboutRisk' /\ [Risk!Next]_(Risk!vars)) /\ (~AboutRisk => ~AboutRisk')
BY DEF AboutRisk, AccountsNext, UsageStep, PauseStep, OrganizationStep, RiskStep, LimitStep,
       allVars, riskVars, Risk!vars

\* Only the step that combines takes a request from combining to syncing.
LEMMA OnlyCombineSyncs ==
    ASSUME RiskInv, Risk!Next, NEW w \in Workers,
           riskJob[w].pc = "combining", riskJob'[w].pc = "syncing"
    PROVE  Risk!CombineProfile(w)
<1>1. riskJob \in [Workers -> RiskJobs]
  BY DEF RiskInv
<1>2. ASSUME NEW v \in Workers, NEW j, Risk!Goto(v, j), j.pc # "syncing" \/ v # w PROVE FALSE
  BY <1>1, <1>2 DEF Risk!Goto
<1>3. ASSUME NEW v \in Workers, riskJob[v].pc = "idle", NEW j, Risk!Goto(v, j) PROVE FALSE
  BY <1>1, <1>3 DEF Risk!Goto
<1>4. riskJob' # riskJob
  OBVIOUS
<1>5. ASSUME NEW v \in Workers,
             \/ Risk!ReadProfile(v) \/ \E forced \in BOOLEAN : Risk!RefreshProfile(v, forced)
             \/ \E t \in Risk!Tolerances \cup {NoValue} : Risk!StartPost(v, t)
             \/ \E t \in Risk!Tolerances : Risk!Persist(v, t)
      PROVE  FALSE
  BY <1>3, <1>5 DEF Risk!ReadProfile, Risk!RefreshProfile, Risk!StartPost, Risk!Persist
<1>6. ASSUME NEW v \in Workers,
             \/ Risk!SyncProfileRow(v) \/ Risk!AddAssessment(v) \/ Risk!Dies(v)
      PROVE  FALSE
  BY <1>2, <1>6 DEF Risk!SyncProfileRow, Risk!AddAssessment, Risk!Dies, Risk!Idle
<1>7. ASSUME NEW v \in Workers, Risk!SavePost(v) PROVE FALSE
  <2>1. [riskJob[v] EXCEPT !.pc = "declaring"].pc # "syncing"
    BY <1>1 DEF RiskJobs
  <2>2. QED
    BY <1>2, <1>7, <2>1 DEF Risk!SavePost
<1>8. ASSUME NEW v \in Workers, Risk!CombineProfile(v) PROVE Risk!CombineProfile(w)
  BY <1>1, <1>8 DEF Risk!CombineProfile, Risk!Goto
<1>9. ASSUME \/ Risk!DeleteProfile \/ Risk!RefreshStale
             \/ \E n \in 1..MaxAssessments : Risk!GrowOld(n)
             \/ \E s \in Signals : Risk!Record(s)
      PROVE  FALSE
  BY <1>4, <1>9 DEF Risk!DeleteProfile, Risk!RefreshStale, Risk!GrowOld, Risk!Record
<1>10. QED
  BY <1>5, <1>6, <1>7, <1>8, <1>9 DEF Risk!Next

\* "An inference caps what is declared": get_effective_profile takes nobody who
\* has an inference, however old, to be bolder than it says, unless the user
\* overrode the profile; whatever other requests write or delete meanwhile.
THEOREM InferenceCaps == AccountsSpec => CapIsKept
<1>1. RiskInv /\ [Risk!Next]_(Risk!vars) => [Risk!CapKept]_(Risk!vars)
  <2> SUFFICES ASSUME RiskInv, Risk!Next, NEW w \in Workers,
                      riskJob[w].pc = "combining", riskJob'[w].pc = "syncing",
                      riskJob[w].known, ~(row # NoValue /\ row.override)
               PROVE  /\ riskJob[w].inferred # NoValue
                      /\ Risk!Rank(riskJob'[w].result) <= Risk!Rank(riskJob[w].inferred)
    BY DEF Risk!CapKept
  <2>1. riskJob \in [Workers -> RiskJobs] /\ JobIsSound(riskJob[w])
    BY DEF RiskInv
  <2> DEFINE declared == riskJob[w].declared
             inferred == riskJob[w].inferred
  <2>2. /\ declared \in Level /\ inferred \in Risk!Tolerances
    BY <2>1 DEF JobIsSound, RiskJobs, Level
  <2>3. riskJob'[w].result = Risk!Combine(declared, inferred, row # NoValue /\ row.override)
    <3> DEFINE result == Risk!Combine(declared, inferred, row # NoValue /\ row.override)
    <3>1. riskJob' = [riskJob EXCEPT ![w] = [Risk!Idle EXCEPT !.pc = "syncing", !.result = result]]
      BY OnlyCombineSyncs DEF Risk!CombineProfile, Risk!Goto
    <3> HIDE DEF result
    <3>2. riskJob'[w] = [Risk!Idle EXCEPT !.pc = "syncing", !.result = result]
      BY <2>1, <3>1
    <3>3. QED
      BY <3>2 DEF Risk!Idle, result
  <2>4. riskJob'[w].result = IF declared # NoValue /\ ~(Risk!Rank(declared) <= Risk!Rank(inferred))
                             THEN inferred ELSE IF declared # NoValue THEN declared ELSE inferred
    BY <2>2, <2>3, RiskConstants DEF Risk!Combine
  <2>5. Risk!Rank(inferred) \in Int
    BY <2>2 DEF Risk!Rank, Risk!Tolerances
  <2> HIDE DEF declared, inferred
  <2>6. Risk!Rank(riskJob'[w].result) <= Risk!Rank(inferred)
    BY <2>4, <2>5
  <2>7. QED
    BY <2>2, <2>6, RiskConstants DEF inferred
<1>2. RiskInv /\ AboutRisk /\ [AccountsNext]_allVars => [AboutRisk => Risk!CapKept]_riskVars
  BY <1>1, RiskSteps DEF riskVars, Risk!vars
<1>3. ~AboutRisk => [AboutRisk => Risk!CapKept]_riskVars
  OBVIOUS
<1>4. AccountsInit /\ AboutRisk => Risk!Init
  BY DEF AccountsInit, AboutRisk
<1>5. QED
  BY <1>2, <1>3, <1>4, RiskSteps, RiskInvariantHolds, PTL
     DEF AccountsSpec, CapIsKept, Risk!Spec, AboutRisk

-----------------------------------------------------------------------------
(* The risk profile: what is inferred.                                     *)

\* The sums of the signals are those of the library.
LEMMA SignalSums ==
    ASSUME NEW f PROVE Risk!SumFunction(f) = SumFunctionOnSet(f, DOMAIN f)
BY DEF Risk!SumFunction, Risk!SumFunctionOnSet, Risk!FoldFunctionOnSet, Risk!MapThenFoldSet,
       SumFunctionOnSet, FoldFunctionOnSet, MapThenFoldSet

LEMMA MonthlyTotalsAddUp ==
    ASSUME NEW s \in Seq(Nat) PROVE Risk!SumFunction(s) \in Nat
<1>1. IsFiniteSet(DOMAIN s) /\ \A i \in DOMAIN s : s[i] \in Nat
  <2>1. Len(s) \in Nat /\ DOMAIN s = 1..Len(s)
    OBVIOUS
  <2>2. IsFiniteSet(1..Len(s))
    BY <2>1, FS_Interval
  <2>3. QED
    BY <2>1, <2>2
<1>2. DOMAIN s \in SUBSET (DOMAIN s)
  OBVIOUS
<1>3. SumFunctionOnSet(s, DOMAIN s) \in Int /\ 0 <= SumFunctionOnSet(s, DOMAIN s)
  BY <1>1, <1>2, SumTakesOut, SumOfLess
<1>4. QED
  BY <1>3, SignalSums

\* Where a value falls among n brackets: before the first bound above it.
Place(above, n) == IF above = {} THEN n + 1 ELSE CHOOSE i \in above : \A j \in above : i <= j

LEMMA PlaceIsTheLowest ==
    ASSUME NEW n \in 0..5, NEW above \in SUBSET (1..n)
    PROVE  /\ Place(above, n) \in 1..(n + 1) /\ \A j \in above : Place(above, n) <= j
           /\ above # {} => Place(above, n) \in above
<1>1. CASE above = {}
  BY <1>1 DEF Place
<1>2. CASE above # {}
  <2>1. \A j \in above : j \in 1..5
    OBVIOUS
  <2>2. \E i \in above : \A j \in above : i <= j
    <3>1. CASE 1 \in above
      BY <2>1, <3>1
    <3>2. CASE 1 \notin above /\ 2 \in above
      BY <2>1, <3>2
    <3>3. CASE 1 \notin above /\ 2 \notin above /\ 3 \in above
      BY <2>1, <3>3
    <3>4. CASE 1 \notin above /\ 2 \notin above /\ 3 \notin above /\ 4 \in above
      BY <2>1, <3>4
    <3>5. CASE 1 \notin above /\ 2 \notin above /\ 3 \notin above /\ 4 \notin above
      <4>1. \A j \in above : j = 5
        BY <2>1, <3>5
      <4>2. PICK e \in above : TRUE
        BY <1>2
      <4>3. e = 5
        BY <4>1
      <4>4. \A j \in above : e <= j
        BY <4>1, <4>3
      <4>5. QED
        BY <4>4
    <3>6. QED
      BY <3>1, <3>2, <3>3, <3>4, <3>5
  <2>3. Place(above, n) \in above /\ \A j \in above : Place(above, n) <= j
    BY <1>2, <2>2, Zenon DEF Place
  <2>4. 1..n \subseteq 1..(n + 1)
    OBVIOUS
  <2>5. QED
    BY <2>3, <2>4
<1>3. QED
  BY <1>1, <1>2

\* The fewer bounds are above a value, the higher it falls.
LEMMA PlaceRises ==
    ASSUME NEW n \in 0..5, NEW above \in SUBSET (1..n), NEW fewer \in SUBSET above
    PROVE  Place(above, n) <= Place(fewer, n)
<1>1. fewer \in SUBSET (1..n)
  OBVIOUS
<1>2. /\ Place(above, n) \in 1..(n + 1) /\ \A j \in above : Place(above, n) <= j
      /\ Place(fewer, n) \in 1..(n + 1) /\ (fewer # {} => Place(fewer, n) \in fewer)
  BY <1>1, PlaceIsTheLowest
<1>3. CASE fewer = {}
  <2>1. Place(fewer, n) = n + 1
    BY <1>3 DEF Place
  <2>2. QED
    BY <1>2, <2>1
<1>4. CASE fewer # {}
  BY <1>2, <1>4
<1>5. QED
  BY <1>3, <1>4

\* The rate of savings and the stabilities are points of a bracket.
LEMMA SavingsRateIsAPoint ==
    ASSUME NEW s PROVE Risk!SavingsRate(s) \in Nat
<1> DEFINE earned == Risk!SumFunction(s.income)
           saved == IF earned = 0 THEN 0 ELSE earned - Risk!SumFunction(s.expense)
           bounds == <<10, 20, 35, 50>>
           points == <<20, 40, 60, 80, 100>>
           above == {i \in 1..4 : saved * 100 < bounds[i] * earned}
<1>1. Risk!SavingsRate(s) = IF saved <= 0 THEN 0 ELSE points[Place(above, 4)]
  <2>1. DOMAIN bounds = 1..4 /\ Len(points) = 4 + 1
    OBVIOUS
  <2> HIDE DEF points, bounds, saved, earned
  <2>2. {i \in DOMAIN bounds : saved * 100 < bounds[i] * earned} = above
    BY <2>1
  <2>3. QED
    BY <2>1, <2>2 DEF Risk!SavingsRate, Risk!Bracket, Place, points, bounds, saved, earned
<1> HIDE DEF saved, earned
<1>2. Place(above, 4) \in 1..5
  <2>1. 4 \in 0..5 /\ above \in SUBSET (1..4)
    OBVIOUS
  <2> HIDE DEF above
  <2>2. QED
    BY <2>1, PlaceIsTheLowest
<1> HIDE DEF above
<1>3. points[Place(above, 4)] \in Nat
  BY <1>2
<1>4. QED
  BY <1>1, <1>3

\* The stability of any variation, and so of any months.
LEMMA StabilityIsAPoint ==
    ASSUME NEW cv PROVE Risk!Stability(cv) \in Nat
<1> DEFINE bounds == <<5, 15, 30, 50>>
           points == <<100, 75, 50, 25, 0>>
           above == {i \in 1..4 : cv[1] * 10000 < bounds[i] * bounds[i] * cv[2]}
<1>1. Risk!Stability(cv) = IF cv = NoValue THEN 50 ELSE points[Place(above, 4)]
  <2>1. DOMAIN bounds = 1..4 /\ Len(points) = 4 + 1
    OBVIOUS
  <2> HIDE DEF points, bounds
  <2>2. {i \in DOMAIN bounds : cv[1] * 10000 < bounds[i] * bounds[i] * cv[2]} = above
    BY <2>1
  <2>3. QED
    BY <2>1, <2>2 DEF Risk!Stability, Risk!Bracket, Place, points, bounds
<1>2. Place(above, 4) \in 1..5
  <2>1. 4 \in 0..5 /\ above \in SUBSET (1..4)
    OBVIOUS
  <2> HIDE DEF above
  <2>2. QED
    BY <2>1, PlaceIsTheLowest
<1> HIDE DEF above
<1>3. points[Place(above, 4)] \in Nat
  BY <1>2
<1>4. QED
  BY <1>1, <1>3

\* With the same months, savings and stabilities are the same.
LEMMA MonthsDecide ==
    ASSUME NEW s, NEW t, t.income = s.income, t.expense = s.expense
    PROVE  /\ Risk!SavingsRate(t) = Risk!SavingsRate(s)
           /\ Risk!IncomeStability(t) = Risk!IncomeStability(s)
           /\ Risk!ExpenseStability(t) = Risk!ExpenseStability(s)
<1>1. Risk!SavingsRate(t) = Risk!SavingsRate(s)
  BY DEF Risk!SavingsRate
<1>2. Risk!IncomeStability(t) = Risk!IncomeStability(s)
  BY DEF Risk!IncomeStability, Risk!DownsideCv
<1>3. Risk!ExpenseStability(t) = Risk!ExpenseStability(s)
  BY DEF Risk!ExpenseStability, Risk!DownsideCv
<1>4. QED
  BY <1>1, <1>2, <1>3

LEMMA StabilitiesArePoints ==
    ASSUME NEW s
    PROVE  Risk!IncomeStability(s) \in Nat /\ Risk!ExpenseStability(s) \in Nat
BY StabilityIsAPoint, Zenon DEF Risk!IncomeStability, Risk!ExpenseStability

\* More of the same holdings in volatile instruments is more appetite.
LEMMA AppetiteRises ==
    ASSUME NEW s, NEW t, s.volatile \in Nat, s.steady \in Nat, t.volatile \in Nat,
           t.steady \in Nat, t.volatile + t.steady = s.volatile + s.steady,
           t.volatile >= s.volatile
    PROVE  /\ Risk!HoldingsAppetite(s) \in Nat /\ Risk!HoldingsAppetite(t) \in Nat
           /\ Risk!HoldingsAppetite(t) >= Risk!HoldingsAppetite(s)
BY DEF Risk!HoldingsAppetite

\* More accumulated covers as many months or more.
LEMMA BufferRises ==
    ASSUME NEW s, NEW t, s.income \in Seq(Nat), s.expense \in Seq(Nat),
           t.income = s.income, t.expense = s.expense, t.days = s.days,
           s.earlier \in Int, t.earlier \in Int, t.earlier >= s.earlier
    PROVE  /\ Risk!LiquidityBuffer(s) \in Nat /\ Risk!LiquidityBuffer(t) \in Nat
           /\ Risk!LiquidityBuffer(t) >= Risk!LiquidityBuffer(s)
<1> DEFINE bounds == <<0, 1, 3, 6, 12>>
           points == <<0, 15, 40, 70, 90, 100>>
           spent(u) == Risk!SumFunction(u.expense)
           net(u) == u.earlier + Risk!SumFunction(u.income) - spent(u)
           above(u) == {i \in 1..5 : net(u) * 3 < bounds[i] * spent(u)}
           few(u) == u.days < BUFFER_MIN_DAYS \/ spent(u) = 0
<1>1. \A u : Risk!LiquidityBuffer(u) = IF few(u) THEN 50 ELSE points[Place(above(u), 5)]
  <2> TAKE u
  <2>1. DOMAIN bounds = 1..5 /\ Len(points) = 5 + 1
    OBVIOUS
  <2> HIDE DEF points, bounds
  <2>2. {i \in DOMAIN bounds : net(u) * 3 < bounds[i] * spent(u)} = above(u)
    BY <2>1
  <2>3. QED
    BY <2>1, <2>2 DEF Risk!LiquidityBuffer, Risk!Bracket, Place, points, bounds
<1>2. /\ net(s) \in Int /\ net(t) \in Int /\ net(t) >= net(s) /\ spent(s) \in Int
      /\ spent(t) = spent(s) /\ few(t) = few(s)
  <2>1. Risk!SumFunction(s.income) \in Nat /\ Risk!SumFunction(s.expense) \in Nat
    BY MonthlyTotalsAddUp
  <2>2. QED
    BY <2>1
<1> HIDE DEF net, spent, few
<1>3. above(t) \in SUBSET above(s) /\ above(s) \in SUBSET (1..5)
  <2>1. ASSUME NEW i \in 1..5, net(t) * 3 < bounds[i] * spent(t)
        PROVE  net(s) * 3 < bounds[i] * spent(s)
    <3>1. bounds[i] \in Int
      OBVIOUS
    <3> HIDE DEF bounds
    <3> DEFINE b == bounds[i] * spent(s)
    <3>2. b \in Int
      BY <1>2, <3>1
    <3>3. net(t) * 3 < b
      BY <1>2, <2>1
    <3> HIDE DEF b
    <3>4. net(s) * 3 < b
      BY <1>2, <3>2, <3>3
    <3>5. QED
      BY <3>4 DEF b
  <2>2. QED
    BY <2>1
<1> HIDE DEF above
<1> DEFINE low == Place(above(s), 5)
           high == Place(above(t), 5)
<1>4. low \in 1..6 /\ high \in 1..6 /\ low <= high
  <2>1. 5 \in 0..5 /\ above(t) \in SUBSET (1..5) /\ 5 + 1 = 6
    BY <1>3
  <2>2. low \in 1..(5 + 1) /\ high \in 1..(5 + 1) /\ low <= high
    BY <1>3, <2>1, PlaceIsTheLowest, PlaceRises
  <2> HIDE DEF low, high
  <2>3. QED
    BY <2>1, <2>2
<1>5. /\ Risk!LiquidityBuffer(s) = (IF few(s) THEN 50 ELSE points[low])
      /\ Risk!LiquidityBuffer(t) = (IF few(s) THEN 50 ELSE points[high])
  BY <1>1, <1>2
<1> HIDE DEF low, high
<1>6. points[low] \in Nat /\ points[high] \in Nat /\ points[low] <= points[high]
  BY <1>4
<1> HIDE DEF points
<1>7. QED
  BY <1>5, <1>6

\* Rounding half to even keeps the order.
Rounded(sum) ==
    IF sum % 100 > 50 \/ (sum % 100 = 50 /\ (sum \div 100) % 2 = 1)
    THEN sum \div 100 + 1 ELSE sum \div 100

LEMMA RoundingKeepsOrder ==
    ASSUME NEW a \in Nat, NEW b \in Nat, a <= b PROVE Rounded(a) <= Rounded(b)
BY DEF Rounded

\* More capacity does not lower the score.
LEMMA ScoreRises ==
    ASSUME NEW s \in Signals, NEW t \in Signals, t.income = s.income, t.expense = s.expense,
           t.days = s.days, t.earlier >= s.earlier,
           t.volatile + t.steady = s.volatile + s.steady, t.volatile >= s.volatile
    PROVE  Risk!Score(t) >= Risk!Score(s)
<1>1. \A u \in Signals : /\ u.income \in Seq(Nat) /\ u.expense \in Seq(Nat) /\ u.earlier \in Int
                         /\ u.volatile \in Nat /\ u.steady \in Nat
  BY RiskAssumed DEF Risk!RiskAssumption
<1> DEFINE sum(u) == 25 * Risk!SavingsRate(u) + 20 * Risk!IncomeStability(u)
                       + 10 * Risk!ExpenseStability(u) + 25 * Risk!HoldingsAppetite(u)
                       + 20 * Risk!LiquidityBuffer(u)
<1>2. \A u : Risk!Score(u) = Rounded(sum(u))
  BY DEF Risk!Score, Rounded
<1>3. sum(s) \in Nat /\ sum(t) \in Nat /\ sum(s) <= sum(t)
  <2>1. /\ Risk!SavingsRate(s) \in Nat /\ Risk!SavingsRate(t) = Risk!SavingsRate(s)
        /\ Risk!IncomeStability(s) \in Nat /\ Risk!IncomeStability(t) = Risk!IncomeStability(s)
        /\ Risk!ExpenseStability(s) \in Nat
        /\ Risk!ExpenseStability(t) = Risk!ExpenseStability(s)
    BY SavingsRateIsAPoint, StabilitiesArePoints, MonthsDecide
  <2>2. /\ Risk!HoldingsAppetite(s) \in Nat /\ Risk!HoldingsAppetite(t) \in Nat
        /\ Risk!HoldingsAppetite(t) >= Risk!HoldingsAppetite(s)
    BY <1>1, AppetiteRises
  <2>3. /\ Risk!LiquidityBuffer(s) \in Nat /\ Risk!LiquidityBuffer(t) \in Nat
        /\ Risk!LiquidityBuffer(t) >= Risk!LiquidityBuffer(s)
    BY <1>1, BufferRises
  <2>4. QED
    BY <2>1, <2>2, <2>3
<1> HIDE DEF sum
<1>4. Rounded(sum(s)) \in Int /\ Rounded(sum(t)) \in Int
  BY <1>3 DEF Rounded
<1>5. Rounded(sum(s)) <= Rounded(sum(t))
  BY <1>3, RoundingKeepsOrder
<1>6. QED
  BY <1>2, <1>4, <1>5

\* "Higher scores indicate higher capacity": when all that changes is that more
\* is accumulated, or that more of the holdings are volatile, the score that
\* caps what the user declares does not fall, whatever the user's records are.
THEOREM CapacityNeverCostsScore == AccountsSpec => CapacityCounts
<1>1. RiskInv /\ [Risk!Next]_(Risk!vars) => [Risk!ScoreKept]_(Risk!vars)
  <2> SUFFICES ASSUME RiskInv, [Risk!Next]_(Risk!vars), signals' # signals,
                      signals'.income = signals.income, signals'.expense = signals.expense,
                      signals'.days = signals.days, signals'.earlier >= signals.earlier,
                      signals'.volatile + signals'.steady = signals.volatile + signals.steady,
                      signals'.volatile >= signals.volatile
               PROVE  Risk!ScoreOf[signals'] >= Risk!ScoreOf[signals]
    BY DEF Risk!ScoreKept
  <2>1. signals \in Signals
    BY DEF RiskInv, Risk!TypeOK
  <2>2. RiskInv'
    BY RiskStepHolds
  <2>3. PICK s, t : s = signals /\ t = signals'
    OBVIOUS
  <2>4. s \in Signals /\ t \in Signals
    BY <2>1, <2>2, <2>3 DEF RiskInv, Risk!TypeOK
  <2>5. Risk!Score(t) >= Risk!Score(s)
    BY <2>3, <2>4, ScoreRises
  <2>6. \A u \in Signals : Risk!ScoreOf[u] = Risk!Score(u)
    BY DEF Risk!ScoreOf
  <2>7. QED
    BY <2>3, <2>4, <2>5, <2>6
<1>2. RiskInv /\ AboutRisk /\ [AccountsNext]_allVars => [AboutRisk => Risk!ScoreKept]_riskVars
  BY <1>1, RiskSteps DEF riskVars, Risk!vars
<1>3. ~AboutRisk => [AboutRisk => Risk!ScoreKept]_riskVars
  OBVIOUS
<1>4. AccountsInit /\ AboutRisk => Risk!Init
  BY DEF AccountsInit, AboutRisk
<1>5. QED
  BY <1>2, <1>3, <1>4, RiskSteps, RiskInvariantHolds, PTL
     DEF AccountsSpec, CapacityCounts, Risk!Spec, AboutRisk

-----------------------------------------------------------------------------
(* The limits to what is traded: type correctness.                          *)

Operation == [pc : Limit!Closed \cup Limit!Open, tool : Limit!Tools, amount : Amounts \cup {0},
              two_step : BOOLEAN, cap : Nat, alone : BOOLEAN, at : 0..LastHour]
Recorded == [tx : Proposals \cup AppTrades, amount : Amounts \cup {0}, created_at : 0..LastHour]

LimitTypes ==
    /\ hour \in 0..LastHour /\ limits \in Settings
    /\ proposal \in [Proposals -> Operation]
    /\ investments \subseteq Recorded
    /\ \A p \in Proposals : proposal[p].at <= hour
    /\ \A i \in investments : i.created_at <= hour

LEMMA LimitConstants ==
    /\ LastHour \in Nat /\ WINDOW \in Nat /\ Amounts \subseteq Nat \ {0}
    /\ \A s \in Settings : s.max_trade \in Nat /\ s.cap \in Nat /\ s.two_step_above \in Nat
    /\ Proposals \cap AppTrades = {}
BY LimitsAssumed DEF Limit!LimitsAssumption, Limit!Setting

LEMMA LimitTypesAreTypes == LimitTypes => Limit!TypeOK
<1> SUFFICES ASSUME LimitTypes PROVE Limit!TypeOK
  OBVIOUS
<1>1. LastHour \in Nat /\ hour \in 0..LastHour
  BY LimitConstants DEF LimitTypes
<1>2. \A k \in 0..LastHour : k <= hour => k \in 0..hour
  BY <1>1
<1>3. QED
  BY <1>1, <1>2 DEF LimitTypes, Limit!TypeOK, Operation, Recorded

\* A step about one operation.
LEMMA OperationTypes ==
    ASSUME LimitTypes, NEW p \in Proposals, NEW x \in Operation, x.at <= hour,
           proposal' = [proposal EXCEPT ![p] = x], UNCHANGED <<hour, limits>>,
           NEW more \in SUBSET {i \in Recorded : i.created_at = hour},
           investments' = investments \cup more
    PROVE  LimitTypes'
<1>1. /\ hour' = hour /\ hour \in Nat /\ limits' \in Settings
      /\ proposal' \in [Proposals -> Operation] /\ investments' \subseteq Recorded
  BY LimitConstants DEF LimitTypes
<1>2. \A q \in Proposals : proposal'[q].at <= hour'
  BY <1>1 DEF LimitTypes
<1>3. \A i \in investments' : i.created_at <= hour'
  BY <1>1 DEF LimitTypes
<1>4. QED
  BY <1>1, <1>2, <1>3 DEF LimitTypes

LEMMA NoProposalType == Limit!NoProposal \in Operation /\ Limit!NoProposal.at = 0
BY LimitConstants DEF Limit!NoProposal, Operation, Limit!Closed, Limit!Tools

LEMMA PreviewTypes ==
    ASSUME LimitTypes, NEW p \in Proposals, Limit!Preview(p)
    PROVE  LimitTypes'
<1>0. /\ proposal \in [Proposals -> Operation] /\ proposal[p] \in Operation
      /\ proposal[p].at <= hour /\ hour \in Nat /\ LastHour \in Nat
      /\ limits \in Settings /\ limits.cap \in Nat /\ limits.two_step_above \in Nat
  BY LimitConstants DEF LimitTypes
<1>1. ASSUME NEW tool \in Limit!Tools, NEW amount \in Amounts, Limit!CheckLimits(p, tool, amount)
      PROVE  LimitTypes'
  <2> DEFINE big == amount > limits.two_step_above
             only == \A q \in Proposals : ~Limit!IsOpen(q)
             x == [pc |-> "checked", tool |-> tool, amount |-> amount, two_step |-> big,
                   cap |-> limits.cap, alone |-> only, at |-> 0]
  <2>1. big \in BOOLEAN /\ only \in BOOLEAN
    <3>1. big \in BOOLEAN
      BY SMT
    <3>2. only \in BOOLEAN
      BY Zenon
    <3>3. QED
      BY <3>1, <3>2
  <2>2. proposal' = [Limit!Overlapped EXCEPT ![p] = x] /\ UNCHANGED <<hour, limits, investments>>
    BY <1>1 DEF Limit!CheckLimits
  <2> HIDE DEF big, only
  <2>3. x \in Operation /\ x.at <= hour
    BY <1>0, <2>1 DEF Operation, Limit!Open
  <2>4. /\ Limit!Overlapped \in [Proposals -> Operation]
        /\ \A q \in Proposals : Limit!Overlapped[q].at = proposal[q].at
    BY <1>0 DEF Limit!Overlapped, Operation
  <2> HIDE DEF x
  <2>5. proposal' \in [Proposals -> Operation] /\ \A q \in Proposals : proposal'[q].at <= hour
    BY <2>2, <2>3, <2>4 DEF LimitTypes
  <2>6. QED
    BY <2>2, <2>5 DEF LimitTypes
<1>2. ASSUME NEW tolerance, Limit!CreatePending(p, tolerance) PROVE LimitTypes'
  <2> DEFINE big == proposal[p].two_step \/ Limit!GateAsks(p, tolerance)
             x == [proposal[p] EXCEPT !.pc = "pending", !.two_step = big]
  <2>1. big \in BOOLEAN
    BY Zenon
  <2>2. proposal' = [proposal EXCEPT ![p] = x] /\ UNCHANGED <<hour, limits, investments>>
    BY <1>0, <1>2 DEF Limit!CreatePending
  <2> HIDE DEF big
  <2>3. x \in Operation /\ x.at <= hour
    BY <1>0, <2>1 DEF Operation, Limit!Open
  <2>4. investments' = investments \cup {}
    BY <2>2
  <2>5. QED
    BY <2>2, <2>3, <2>4, OperationTypes
<1>3. CASE Limit!PreviewFails(p)
  <2>1. /\ proposal' = [proposal EXCEPT ![p] = Limit!NoProposal]
        /\ UNCHANGED <<hour, limits>> /\ investments' = investments \cup {}
    BY <1>3 DEF Limit!PreviewFails
  <2>2. Limit!NoProposal \in Operation /\ Limit!NoProposal.at <= hour
    BY <1>0, NoProposalType
  <2>3. QED
    BY <2>1, <2>2, OperationTypes
<1>4. QED
  BY <1>1, <1>2, <1>3 DEF Limit!Preview

LEMMA ExecutionTypes ==
    ASSUME LimitTypes, NEW p \in Proposals, Limit!Execution(p)
    PROVE  LimitTypes'
<1>0. /\ proposal \in [Proposals -> Operation] /\ proposal[p] \in Operation
      /\ proposal[p].at <= hour /\ hour \in Nat /\ LastHour \in Nat /\ hour \in 0..LastHour
  BY LimitConstants DEF LimitTypes
<1>1. ASSUME NEW from, NEW to \in Limit!Closed \cup Limit!Open, NEW x \in Operation,
             x.at <= hour, Limit!Goto(p, from, to, x)
      PROVE  LimitTypes'
  <2>1. [x EXCEPT !.pc = to] \in Operation /\ [x EXCEPT !.pc = to].at <= hour
    BY <1>1 DEF Operation
  <2>2. /\ proposal' = [proposal EXCEPT ![p] = [x EXCEPT !.pc = to]]
        /\ UNCHANGED <<hour, limits>> /\ investments' = investments \cup {}
    BY <1>1 DEF Limit!Goto
  <2>3. QED
    BY <2>1, <2>2, OperationTypes
<1>2. CASE Limit!Confirm(p)
  <2>1. [proposal[p] EXCEPT !.two_step = FALSE] \in Operation
    BY <1>0 DEF Operation
  <2>2. [proposal[p] EXCEPT !.two_step = FALSE].at <= hour
    BY <1>0 DEF Operation
  <2>3. QED
    BY <1>1, <1>2, <2>1, <2>2 DEF Limit!Confirm, Limit!Open
<1>3. CASE Limit!Cancel(p) \/ Limit!Rejected(p)
  BY <1>0, <1>1, <1>3, NoProposalType DEF Limit!Cancel, Limit!Rejected, Limit!Closed
<1>4. CASE Limit!RecordFails(p)
  BY <1>0, <1>1, <1>4 DEF Limit!RecordFails, Limit!Open
<1>5. ASSUME NEW answered \in BOOLEAN, Limit!Apply(p, answered) PROVE LimitTypes'
  <2> DEFINE pc == IF answered THEN "executed" ELSE "uncertain"
             x == [Limit!NoProposal EXCEPT !.pc = pc, !.tool = proposal[p].tool,
                     !.amount = proposal[p].amount, !.at = hour]
  <2>1. /\ proposal' = [proposal EXCEPT ![p] = x]
        /\ UNCHANGED <<hour, limits>> /\ investments' = investments \cup {}
    BY <1>5 DEF Limit!Apply
  <2>2. pc \in Limit!Open
    BY DEF Limit!Open
  <2> HIDE DEF pc
  <2>3. Limit!NoProposal \in Operation
    BY NoProposalType
  <2>4. proposal[p].tool \in Limit!Tools /\ proposal[p].amount \in Amounts \cup {0}
    BY <1>0 DEF Operation
  <2>5. x \in Operation /\ x.at = hour
    BY <1>0, <2>2, <2>3, <2>4 DEF Operation
  <2>6. hour <= hour
    BY <1>0
  <2>7. QED
    BY <2>1, <2>5, <2>6, OperationTypes
<1>6. CASE Limit!RecordInvestment(p) \/ \E settled \in BOOLEAN : Limit!Backfill(p, settled)
  <2> DEFINE x == [proposal[p] EXCEPT !.pc = "recorded"]
  <2>1. x \in Operation /\ x.at <= hour
    BY <1>0 DEF Operation, Limit!Closed
  <2>2. \A a \in Amounts \cup {0} : Limit!Row(p, a) \in {i \in Recorded : i.created_at = hour}
    BY <1>0 DEF Limit!Row, Recorded
  <2>3. proposal' = [proposal EXCEPT ![p] = x] /\ UNCHANGED <<hour, limits>>
    BY <1>0, <1>6 DEF Limit!RecordInvestment, Limit!Backfill
  <2>4. PICK a \in Amounts \cup {0} :
          \/ investments' = investments \cup {}
          \/ investments' = investments \cup {Limit!Row(p, a)}
    <3>1. proposal[p].amount \in Amounts \cup {0}
      BY <1>0 DEF Operation
    <3>2. CASE Limit!RecordInvestment(p)
      BY <3>1, <3>2 DEF Limit!RecordInvestment
    <3>3. ASSUME NEW settled \in BOOLEAN, Limit!Backfill(p, settled)
          PROVE  \E a \in Amounts \cup {0} :
                   \/ investments' = investments \cup {}
                   \/ investments' = investments \cup {Limit!Row(p, a)}
      BY <3>1, <3>3 DEF Limit!Backfill
    <3>4. QED
      BY <1>6, <3>2, <3>3
  <2> HIDE DEF x
  <2>5. QED
    BY <2>1, <2>2, <2>3, <2>4, OperationTypes
<1>7. QED
  BY <1>2, <1>3, <1>4, <1>5, <1>6 DEF Limit!Execution

LEMMA LimitTypesStep == LimitTypes /\ [Limit!Next]_(Limit!vars) => LimitTypes'
<1> SUFFICES ASSUME LimitTypes, [Limit!Next]_(Limit!vars) PROVE LimitTypes'
  OBVIOUS
<1>0. hour \in 0..LastHour /\ LastHour \in Nat
  BY LimitConstants DEF LimitTypes
<1>1. ASSUME NEW t \in AppTrades, NEW amount \in Amounts, Limit!BackfillApp(t, amount)
      PROVE  LimitTypes'
  <2>1. Limit!Row(t, amount) \in Recorded /\ Limit!Row(t, amount).created_at = hour
    BY <1>0 DEF Limit!Row, Recorded
  <2>2. /\ investments' = investments \cup {Limit!Row(t, amount)}
        /\ UNCHANGED <<hour, limits, proposal>>
    BY <1>1 DEF Limit!BackfillApp
  <2>3. QED
    BY <1>0, <2>1, <2>2 DEF LimitTypes
<1>2. ASSUME NEW setting \in Settings, Limit!SetLimits(setting) PROVE LimitTypes'
  BY <1>2 DEF Limit!SetLimits, LimitTypes
<1>3. CASE Limit!Tick
  <2>1. hour' = hour + 1 /\ hour' \in 0..LastHour /\ UNCHANGED <<limits, proposal, investments>>
    BY <1>0, <1>3 DEF Limit!Tick
  <2>2. \A k \in 0..LastHour : k <= hour => k <= hour'
    BY <1>0, <2>1
  <2>3. QED
    BY <2>1, <2>2 DEF LimitTypes, Operation, Recorded
<1>4. CASE UNCHANGED Limit!vars
  BY <1>4 DEF Limit!vars, LimitTypes
<1>5. QED
  BY <1>1, <1>2, <1>3, <1>4, PreviewTypes, ExecutionTypes DEF Limit!Next

\* Nothing is proposed at first.
LEMMA LimitTypesInit == Limit!Init => LimitTypes
<1> SUFFICES ASSUME Limit!Init PROVE LimitTypes
  OBVIOUS
<1>1. /\ hour = 0 /\ limits \in Settings /\ investments = {}
      /\ proposal = [p \in Proposals |-> Limit!NoProposal]
  BY DEF Limit!Init
<1>2. QED
  BY <1>1, NoProposalType, LimitConstants DEF LimitTypes

\* The limits keep their types.
LEMMA LimitTypesHold == Limit!Spec => []LimitTypes
<1>1. QED
  BY LimitTypesInit, LimitTypesStep, PTL DEF Limit!Spec

\* A behaviour of Accounts about the limits is one of TradeLimits.
AboutLimits == focus = "limit"

LEMMA LimitSteps ==
    [AccountsNext]_allVars =>
      (AboutLimits => AboutLimits' /\ [Limit!Next]_(Limit!vars)) /\ (~AboutLimits => ~AboutLimits')
BY DEF AboutLimits, AccountsNext, UsageStep, PauseStep, OrganizationStep, RiskStep, LimitStep,
       allVars, limitVars, Limit!vars

-----------------------------------------------------------------------------
(* The daily cap: the inductive invariant.                                 *)

\* What the daily cap is about: purchases and deposits.
Bought == {"buy", "chest"}
Recent == {p \in Proposals : /\ Limit!Applied(p) /\ proposal[p].tool \in Bought
                             /\ proposal[p].at >= hour - WINDOW}
Underway(p) == proposal[p].pc \in {"checked", "pending", "sent"}
Used == {p \in Proposals : proposal[p].pc # "none"}

RowsAreMade ==
    \A q \in Proposals :
        proposal[q].pc = "recorded" /\ proposal[q].tool \in Bought =>
          \E i \in investments : /\ i.tx = q /\ i.amount = proposal[q].amount
                                 /\ i.created_at >= proposal[q].at
AloneWithinCap ==
    \A p \in Proposals :
        proposal[p].alone /\ Underway(p) =>
          /\ \A q \in Proposals : Limit!IsOpen(q) => q = p
          /\ Limit!AppliedTotal(Bought) + proposal[p].amount <= proposal[p].cap

CapInv ==
    /\ LimitTypes
    /\ IsFiniteSet(investments) /\ IsFiniteSet(Used)
    /\ RowsAreMade /\ AloneWithinCap

LEMMA SumsOfLimits ==
    ASSUME NEW f, NEW S PROVE Limit!SumFunctionOnSet(f, S) = SumFunctionOnSet(f, S)
BY DEF Limit!SumFunctionOnSet, Limit!FoldFunctionOnSet, Limit!MapThenFoldSet,
       SumFunctionOnSet, FoldFunctionOnSet, MapThenFoldSet

LEMMA AmountsAreNumbers ==
    /\ \A x \in Operation : x.amount \in Nat /\ x.cap \in Nat
    /\ \A i \in Recorded : i.amount \in Nat
<1>1. \A a \in Amounts \cup {0} : a \in Nat
  BY LimitConstants
<1>2. QED
  BY <1>1 DEF Operation, Recorded

LEMMA AppliedTotalIs ==
    Limit!AppliedTotal(Bought) = SumFunctionOnSet([p \in Recent |-> proposal[p].amount], Recent)
<1> DEFINE f == [p \in Recent |-> proposal[p].amount]
<1>1. Limit!AppliedTotal(Bought) = Limit!SumFunctionOnSet(f, DOMAIN f)
  BY DEF Limit!AppliedTotal, Limit!SumFunction, Recent
<1>2. DOMAIN f = Recent
  OBVIOUS
<1> HIDE DEF f
<1>3. QED
  BY <1>1, <1>2, SumsOfLimits DEF f

LEMMA AppliedTotalIsNext ==
    Limit!AppliedTotal(Bought)' = SumFunctionOnSet([p \in Recent' |-> proposal'[p].amount], Recent')
<1> DEFINE f == [p \in Recent' |-> proposal'[p].amount]
<1>1. Limit!AppliedTotal(Bought)' = Limit!SumFunctionOnSet(f, DOMAIN f)
  BY DEF Limit!AppliedTotal, Limit!SumFunction, Recent
<1>2. DOMAIN f = Recent'
  OBVIOUS
<1> HIDE DEF f
<1>3. QED
  BY <1>1, <1>2, SumsOfLimits DEF f

LEMMA RecentIsFinite ==
    ASSUME CapInv
    PROVE  /\ IsFiniteSet(Recent) /\ Recent \subseteq Used
           /\ \A p \in Recent : proposal[p].amount \in Nat
           /\ Limit!AppliedTotal(Bought) \in Nat
<1>1. Recent \subseteq Used
  BY DEF Recent, Used, Limit!Applied
<1>2. IsFiniteSet(Recent)
  BY <1>1, FS_Subset DEF CapInv
<1>3. \A p \in Recent : proposal[p].amount \in Nat
  BY AmountsAreNumbers DEF CapInv, LimitTypes, Recent
<1> DEFINE f == [p \in Recent |-> proposal[p].amount]
<1>4. \A p \in Recent : f[p] \in Nat
  BY <1>3
<1> HIDE DEF f
<1>5. 0 <= SumFunctionOnSet(f, Recent) /\ SumFunctionOnSet(f, Recent) \in Int
  BY <1>2, <1>4, SumOfLess, SumTakesOut
<1>6. QED
  BY <1>1, <1>2, <1>3, <1>5, AppliedTotalIs DEF f

\* As operations leave the window the total falls.
LEMMA TotalFalls ==
    ASSUME CapInv, Recent' \subseteq Recent,
           \A q \in Recent' : proposal'[q].amount = proposal[q].amount
    PROVE  /\ Limit!AppliedTotal(Bought)' \in Int
           /\ Limit!AppliedTotal(Bought)' <= Limit!AppliedTotal(Bought)
<1>1. PICK S, T, f, h : /\ S = Recent /\ T = Recent'
                        /\ f = [p \in Recent |-> proposal[p].amount]
                        /\ h = [p \in Recent' |-> proposal'[p].amount]
  OBVIOUS
<1>2. /\ IsFiniteSet(S) /\ T \in SUBSET S /\ IsFiniteSet(T)
      /\ \A p \in S : f[p] \in Nat
      /\ \A p \in T : h[p] \in Int /\ h[p] = f[p]
  <2>1. IsFiniteSet(S) /\ T \in SUBSET S
    BY <1>1, RecentIsFinite
  <2>2. IsFiniteSet(T)
    BY <2>1, FS_Subset
  <2>3. \A p \in S : f[p] \in Nat
    BY <1>1, RecentIsFinite
  <2>4. \A p \in T : h[p] = f[p]
    BY <1>1
  <2>5. QED
    BY <2>1, <2>2, <2>3, <2>4
<1>3. SumFunctionOnSet(h, T) = SumFunctionOnSet(f, T)
  BY <1>2, SumOfSame
<1>4. SumFunctionOnSet(f, T) <= SumFunctionOnSet(f, S)
  BY <1>2, SumOfLess
<1>5. SumFunctionOnSet(h, T) \in Int
  BY <1>2, SumTakesOut
<1>6. QED
  BY <1>1, <1>3, <1>4, <1>5, AppliedTotalIs, AppliedTotalIsNext

\* When no operation is open, each one applied in the window has a row in it.
LEMMA RowsCoverTheApplied ==
    ASSUME CapInv, \A q \in Proposals : ~Limit!IsOpen(q)
    PROVE  /\ Limit!DailyMoveTotal \in Int
           /\ Limit!AppliedTotal(Bought) <= Limit!DailyMoveTotal
<1> DEFINE rowsIn == {i \in investments : i.created_at >= hour - WINDOW}
           RowOf(q) == CHOOSE i \in investments :
                         /\ i.tx = q /\ i.amount = proposal[q].amount
                         /\ i.created_at >= proposal[q].at
<1>1. PICK S, T, f, k, m :
        /\ S = Recent /\ T = rowsIn
        /\ f = [p \in Recent |-> proposal[p].amount]
        /\ k = [i \in rowsIn |-> i.amount]
        /\ m = [q \in Recent |-> RowOf(q)]
  OBVIOUS
<1>2. \A q \in Recent : /\ RowOf(q) \in investments /\ RowOf(q).tx = q
                        /\ RowOf(q).amount = proposal[q].amount
                        /\ RowOf(q).created_at >= proposal[q].at
  <2> TAKE q \in Recent
  <2>1. q \in Proposals /\ proposal[q].pc = "recorded" /\ proposal[q].tool \in Bought
    BY DEF Recent, Limit!Applied, Limit!IsOpen, Limit!Open
  <2>2. \E i \in investments : /\ i.tx = q /\ i.amount = proposal[q].amount
                               /\ i.created_at >= proposal[q].at
    BY <2>1 DEF CapInv, RowsAreMade
  <2>3. QED
    BY <2>2
<1> HIDE DEF RowOf
<1>3. \A q \in Recent : RowOf(q) \in rowsIn
  <2> TAKE q \in Recent
  <2>1. /\ proposal[q].at \in Nat /\ proposal[q].at >= hour - WINDOW
        /\ hour \in Nat /\ WINDOW \in Nat
    BY LimitConstants DEF Recent, CapInv, LimitTypes, Operation
  <2>2. RowOf(q).created_at \in Nat
    BY <1>2, LimitConstants DEF CapInv, LimitTypes, Recorded
  <2>3. QED
    BY <1>2, <2>1, <2>2
<1>4. \A i \in rowsIn : i.amount \in Nat
  BY AmountsAreNumbers DEF CapInv, LimitTypes
<1>5. IsFiniteSet(rowsIn)
  BY FS_Subset DEF CapInv
<1>6. Limit!DailyMoveTotal = SumFunctionOnSet(k, T)
  <2> DEFINE g == [i \in rowsIn |-> i.amount]
  <2>1. Limit!DailyMoveTotal = Limit!SumFunctionOnSet(g, DOMAIN g)
    BY DEF Limit!DailyMoveTotal, Limit!Amount, Limit!SumFunction
  <2>2. DOMAIN g = rowsIn
    OBVIOUS
  <2>3. k = g /\ T = rowsIn
    BY <1>1
  <2> HIDE DEF g, rowsIn
  <2>4. QED
    BY <2>1, <2>2, <2>3, SumsOfLimits
<1> HIDE DEF rowsIn
<1>7. /\ IsFiniteSet(S) /\ IsFiniteSet(T) /\ m \in [S -> T]
      /\ \A x \in S : f[x] \in Int /\ f[x] = k[m[x]]
      /\ \A x, y \in S : m[x] = m[y] => x = y
      /\ \A i \in T : k[i] \in Nat /\ k[i] \in Int
  <2>1. IsFiniteSet(S) /\ IsFiniteSet(T)
    BY <1>1, <1>5, RecentIsFinite
  <2>2. m \in [S -> T]
    BY <1>1, <1>3
  <2>3. \A x \in S : f[x] = proposal[x].amount /\ m[x] = RowOf(x) /\ k[m[x]] = RowOf(x).amount
    BY <1>1, <1>3
  <2>4. \A x \in S : f[x] \in Int /\ f[x] = k[m[x]]
    BY <1>1, <1>2, <2>3, RecentIsFinite
  <2>5. \A x, y \in S : m[x] = m[y] => x = y
    BY <1>1, <1>2, <2>3
  <2>6. \A i \in T : k[i] \in Nat
    BY <1>1, <1>4
  <2>7. QED
    BY <2>1, <2>2, <2>4, <2>5, <2>6
<1>8. SumFunctionOnSet(f, S) = SumFunctionOnSet(k, {m[x] : x \in S})
  BY <1>7, SumOfMatches
<1>9. {m[x] : x \in S} \in SUBSET T
  BY <1>7
<1>10. SumFunctionOnSet(k, {m[x] : x \in S}) <= SumFunctionOnSet(k, T)
  BY <1>7, <1>9, SumOfLess
<1>11. SumFunctionOnSet(k, T) \in Int
  BY <1>7, SumTakesOut
<1>12. QED
  BY <1>1, <1>6, <1>8, <1>10, <1>11, AppliedTotalIs

\* A step of an operation that is open: while one is alone no other is.
LEMMA OpenStepKeeps ==
    ASSUME CapInv, LimitTypes', UNCHANGED <<hour, limits>>, NEW p \in Proposals,
           Limit!IsOpen(p), NEW x, proposal' = [proposal EXCEPT ![p] = x],
           x.alone /\ x.pc \in {"checked", "pending", "sent"} =>
             /\ proposal[p].alone /\ Underway(p)
             /\ x.amount = proposal[p].amount /\ x.cap = proposal[p].cap,
           investments \subseteq investments', IsFiniteSet(investments'),
           x.pc = "recorded" /\ x.tool \in Bought =>
             \E i \in investments' : i.tx = p /\ i.amount = x.amount /\ i.created_at >= x.at
    PROVE  CapInv'
<1>1. /\ proposal \in [Proposals -> Operation] /\ proposal' \in [Proposals -> Operation]
      /\ proposal'[p] = x /\ \A q \in Proposals : q # p => proposal'[q] = proposal[q]
  BY DEF CapInv, LimitTypes
<1>2. IsFiniteSet(Used')
  <2>1. Used' \subseteq Used \cup {p}
    BY <1>1 DEF Used
  <2>2. IsFiniteSet(Used \cup {p})
    BY FS_AddElement DEF CapInv
  <2>3. QED
    BY <2>1, <2>2, FS_Subset
<1>3. RowsAreMade'
  <2> SUFFICES ASSUME NEW q \in Proposals, proposal'[q].pc = "recorded",
                      proposal'[q].tool \in Bought
               PROVE  \E i \in investments' : /\ i.tx = q /\ i.amount = proposal'[q].amount
                                              /\ i.created_at >= proposal'[q].at
    BY DEF RowsAreMade
  <2>1. CASE q = p
    BY <1>1, <2>1
  <2>2. CASE q # p
    <3>1. proposal'[q] = proposal[q]
      BY <1>1, <2>2
    <3>2. QED
      BY <3>1 DEF CapInv, RowsAreMade
  <2>3. QED
    BY <2>1, <2>2
<1>4. ASSUME NEW r \in Proposals, proposal'[r].alone, Underway(r)'
      PROVE  /\ \A q \in Proposals : Limit!IsOpen(q)' => q = r
             /\ Limit!AppliedTotal(Bought)' + proposal'[r].amount <= proposal'[r].cap
  <2>1. r = p
    <3>1. r # p => proposal[r].alone /\ Underway(r)
      BY <1>1, <1>4 DEF Underway
    <3>2. QED
      BY <3>1 DEF CapInv, AloneWithinCap
  <2>2. /\ proposal[p].alone /\ Underway(p)
        /\ x.amount = proposal[p].amount /\ x.cap = proposal[p].cap
    BY <1>1, <1>4, <2>1 DEF Underway
  <2>3. /\ \A q \in Proposals : Limit!IsOpen(q) => q = p
        /\ Limit!AppliedTotal(Bought) + proposal[p].amount <= proposal[p].cap
    BY <2>2 DEF CapInv, AloneWithinCap
  <2>4. \A q \in Proposals : Limit!IsOpen(q)' => q = r
    BY <1>1, <2>1, <2>3 DEF Limit!IsOpen
  <2>5. Recent' \subseteq Recent /\ p \notin Recent'
    BY <1>1, <1>4, <2>1 DEF Recent, Underway, Limit!Applied
  <2>6. \A q \in Recent' : proposal'[q].amount = proposal[q].amount
    BY <1>1, <2>5 DEF Recent
  <2>7. /\ Limit!AppliedTotal(Bought)' \in Int
        /\ Limit!AppliedTotal(Bought)' <= Limit!AppliedTotal(Bought)
        /\ Limit!AppliedTotal(Bought) \in Nat
    BY <2>5, <2>6, TotalFalls, RecentIsFinite
  <2>8. proposal[p].amount \in Nat /\ proposal[p].cap \in Nat
    BY <1>1, AmountsAreNumbers
  <2>9. QED
    BY <1>1, <2>1, <2>2, <2>3, <2>4, <2>7, <2>8
<1>5. AloneWithinCap'
  BY <1>4 DEF AloneWithinCap
<1>6. QED
  BY <1>2, <1>3, <1>5 DEF CapInv

LEMMA ProposedWithinCap ==
    ASSUME CapInv, LimitTypes', NEW p \in Proposals, NEW tool \in Limit!Tools,
           NEW amount \in Amounts, Limit!CheckLimits(p, tool, amount)
    PROVE  CapInv'
<1> DEFINE big == amount > limits.two_step_above
           only == \A q \in Proposals : ~Limit!IsOpen(q)
           x == [pc |-> "checked", tool |-> tool, amount |-> amount, two_step |-> big,
                 cap |-> limits.cap, alone |-> only, at |-> 0]
<1>1. /\ proposal[p].pc = "none" /\ UNCHANGED <<hour, limits, investments>>
      /\ proposal' = [Limit!Overlapped EXCEPT ![p] = x]
      /\ Limit!DailyMoveTotal + amount <= limits.cap
  BY DEF Limit!CheckLimits, Limit!WithinLimits
<1>2. /\ x.alone = only /\ x.pc = "checked" /\ x.amount = amount /\ x.cap = limits.cap
  OBVIOUS
<1> HIDE DEF big, only, x
<1>3. /\ proposal \in [Proposals -> Operation] /\ proposal'[p] = x
      /\ \A q \in Proposals : q # p => proposal'[q] = Limit!Overlapped[q]
  BY <1>1 DEF CapInv, LimitTypes, Limit!Overlapped
<1>4. \A q \in Proposals : q # p =>
        /\ proposal'[q].pc = proposal[q].pc /\ proposal'[q].tool = proposal[q].tool
        /\ proposal'[q].amount = proposal[q].amount /\ proposal'[q].at = proposal[q].at
        /\ Limit!IsOpen(q) => ~proposal'[q].alone
  BY <1>3 DEF Limit!Overlapped, Operation
<1>5. IsFiniteSet(Used')
  <2>1. Used' \subseteq Used \cup {p}
    BY <1>4 DEF Used
  <2>2. IsFiniteSet(Used \cup {p})
    BY FS_AddElement DEF CapInv
  <2>3. QED
    BY <2>1, <2>2, FS_Subset
<1>6. RowsAreMade'
  BY <1>1, <1>2, <1>3, <1>4 DEF CapInv, RowsAreMade
<1>7. ASSUME NEW r \in Proposals, proposal'[r].alone, Underway(r)'
      PROVE  /\ \A q \in Proposals : Limit!IsOpen(q)' => q = r
             /\ Limit!AppliedTotal(Bought)' + proposal'[r].amount <= proposal'[r].cap
  <2>1. r = p
    BY <1>4, <1>7 DEF Underway, Limit!IsOpen, Limit!Open
  <2>2. \A q \in Proposals : ~Limit!IsOpen(q)
    BY <1>2, <1>3, <1>7, <2>1 DEF only
  <2>3. \A q \in Proposals : Limit!IsOpen(q)' => q = r
    BY <1>4, <2>1, <2>2 DEF Limit!IsOpen
  <2>4. Recent' \subseteq Recent
    BY <1>1, <1>2, <1>3, <1>4 DEF Recent, Limit!Applied
  <2>5. \A q \in Recent' : proposal'[q].amount = proposal[q].amount
    BY <1>2, <1>3, <1>4 DEF Recent, Limit!Applied
  <2>6. /\ Limit!AppliedTotal(Bought)' \in Int
        /\ Limit!AppliedTotal(Bought)' <= Limit!AppliedTotal(Bought)
        /\ Limit!AppliedTotal(Bought) \in Nat
    BY <2>4, <2>5, TotalFalls, RecentIsFinite
  <2>7. /\ Limit!DailyMoveTotal \in Int
        /\ Limit!AppliedTotal(Bought) <= Limit!DailyMoveTotal
    BY <2>2, RowsCoverTheApplied
  <2>8. amount \in Nat /\ limits.cap \in Nat
    BY LimitConstants DEF CapInv, LimitTypes
  <2>9. QED
    BY <1>1, <1>2, <1>3, <2>1, <2>3, <2>6, <2>7, <2>8
<1>8. AloneWithinCap'
  BY <1>7 DEF AloneWithinCap
<1>9. QED
  BY <1>1, <1>5, <1>6, <1>8 DEF CapInv

LEMMA PreviewKeepsCap ==
    ASSUME CapInv, LimitTypes', NEW p \in Proposals, Limit!Preview(p)
    PROVE  CapInv'
<1>0. proposal[p] \in Operation
  BY DEF CapInv, LimitTypes
<1>1. ASSUME NEW tolerance, Limit!CreatePending(p, tolerance) PROVE CapInv'
  <2> DEFINE big == proposal[p].two_step \/ Limit!GateAsks(p, tolerance)
             x == [proposal[p] EXCEPT !.pc = "pending", !.two_step = big]
  <2>1. /\ proposal[p].pc = "checked" /\ UNCHANGED <<hour, limits, investments>>
        /\ proposal' = [proposal EXCEPT ![p] = x]
    BY <1>0, <1>1 DEF Limit!CreatePending, CapInv, LimitTypes
  <2> HIDE DEF big
  <2>2. /\ x.pc = "pending" /\ x.alone = proposal[p].alone
        /\ x.amount = proposal[p].amount /\ x.cap = proposal[p].cap
    BY <1>0 DEF Operation
  <2> HIDE DEF x
  <2>3. Limit!IsOpen(p) /\ Underway(p)
    BY <2>1 DEF Limit!IsOpen, Limit!Open, Underway
  <2>4. IsFiniteSet(investments')
    BY <2>1 DEF CapInv
  <2>5. QED
    BY <2>1, <2>2, <2>3, <2>4, OpenStepKeeps
<1>2. CASE Limit!PreviewFails(p)
  <2>1. /\ Limit!IsOpen(p) /\ UNCHANGED <<hour, limits, investments>>
        /\ proposal' = [proposal EXCEPT ![p] = Limit!NoProposal]
    BY <1>2 DEF Limit!PreviewFails, Limit!IsOpen, Limit!Open
  <2>2. ~Limit!NoProposal.alone /\ Limit!NoProposal.pc = "none"
    BY DEF Limit!NoProposal
  <2>3. IsFiniteSet(investments')
    BY <2>1 DEF CapInv
  <2>4. QED
    BY <2>1, <2>2, <2>3, OpenStepKeeps
<1>3. QED
  BY <1>1, <1>2, ProposedWithinCap DEF Limit!Preview

LEMMA ExecutionKeepsCap ==
    ASSUME CapInv, LimitTypes', NEW p \in Proposals, Limit!Execution(p)
    PROVE  CapInv'
<1>0. /\ proposal[p] \in Operation /\ IsFiniteSet(investments)
      /\ hour \in Nat /\ proposal[p].at <= hour
      /\ ~Limit!NoProposal.alone /\ Limit!NoProposal.pc = "none"
  BY LimitConstants DEF CapInv, LimitTypes, Limit!NoProposal
<1>1. ASSUME NEW from \in Limit!Open, NEW to, NEW y \in Operation, Limit!Goto(p, from, to, y),
             to # "recorded",
             y.alone /\ to \in {"checked", "pending", "sent"} =>
               /\ proposal[p].alone /\ Underway(p)
               /\ y.amount = proposal[p].amount /\ y.cap = proposal[p].cap
      PROVE  CapInv'
  <2> DEFINE x == [y EXCEPT !.pc = to]
  <2>1. /\ Limit!IsOpen(p) /\ UNCHANGED <<hour, limits, investments>>
        /\ proposal' = [proposal EXCEPT ![p] = x]
    BY <1>1 DEF Limit!Goto, Limit!IsOpen
  <2>2. x.pc = to /\ x.alone = y.alone /\ x.amount = y.amount /\ x.cap = y.cap
    BY <1>1 DEF Operation
  <2> HIDE DEF x
  <2>3. QED
    BY <1>0, <1>1, <2>1, <2>2, OpenStepKeeps
<1>2. CASE Limit!Confirm(p)
  <2> DEFINE y == [proposal[p] EXCEPT !.two_step = FALSE]
  <2>1. /\ y \in Operation /\ y.alone = proposal[p].alone
        /\ y.amount = proposal[p].amount /\ y.cap = proposal[p].cap
    BY <1>0 DEF Operation
  <2>2. Limit!Goto(p, "pending", "sent", y) /\ Underway(p)
    BY <1>2 DEF Limit!Confirm, Limit!Goto, Underway
  <2> HIDE DEF y
  <2>3. "pending" \in Limit!Open
    BY DEF Limit!Open
  <2>4. QED
    BY <1>1, <2>1, <2>2, <2>3
<1>3. CASE Limit!Cancel(p) \/ Limit!Rejected(p)
  <2>1. Limit!NoProposal \in Operation /\ {"pending", "sent"} \subseteq Limit!Open
    BY NoProposalType DEF Limit!Open
  <2>2. QED
    BY <1>0, <1>1, <1>3, <2>1 DEF Limit!Cancel, Limit!Rejected
<1>4. CASE Limit!RecordFails(p)
  BY <1>0, <1>1, <1>4 DEF Limit!RecordFails, Limit!Open
<1>5. ASSUME NEW answered \in BOOLEAN, Limit!Apply(p, answered) PROVE CapInv'
  <2> DEFINE pc == IF answered THEN "executed" ELSE "uncertain"
             x == [Limit!NoProposal EXCEPT !.pc = pc, !.tool = proposal[p].tool,
                     !.amount = proposal[p].amount, !.at = hour]
  <2>1. /\ proposal[p].pc = "sent" /\ UNCHANGED <<hour, limits, investments>>
        /\ proposal' = [proposal EXCEPT ![p] = x]
    BY <1>5 DEF Limit!Apply
  <2>2. pc # "recorded"
    OBVIOUS
  <2> HIDE DEF pc
  <2>3. ~x.alone /\ x.pc # "recorded"
    BY <2>2 DEF Limit!NoProposal
  <2> HIDE DEF x
  <2>4. Limit!IsOpen(p)
    BY <2>1 DEF Limit!IsOpen, Limit!Open
  <2>5. QED
    BY <1>0, <2>1, <2>3, <2>4, OpenStepKeeps
<1>6. CASE Limit!RecordInvestment(p) \/ \E settled \in BOOLEAN : Limit!Backfill(p, settled)
  <2> DEFINE x == [proposal[p] EXCEPT !.pc = "recorded"]
  <2>1. /\ x.pc = "recorded" /\ x.tool = proposal[p].tool
        /\ x.amount = proposal[p].amount /\ x.at = proposal[p].at
    BY <1>0 DEF Operation
  <2>2. /\ Limit!IsOpen(p) /\ UNCHANGED <<hour, limits>>
        /\ proposal' = [proposal EXCEPT ![p] = x]
    BY <1>0, <1>6 DEF Limit!RecordInvestment, Limit!Backfill, Limit!IsOpen, Limit!Open
  <2>3. PICK a : \/ investments' = investments
                 \/ investments' = investments \cup {Limit!Row(p, a)}
    BY <1>6 DEF Limit!RecordInvestment, Limit!Backfill
  <2>4. proposal[p].tool \in Bought => Limit!Row(p, proposal[p].amount) \in investments'
    BY <1>6 DEF Limit!RecordInvestment, Limit!Backfill, Bought
  <2>5. /\ Limit!Row(p, proposal[p].amount).tx = p
        /\ Limit!Row(p, proposal[p].amount).amount = proposal[p].amount
        /\ Limit!Row(p, proposal[p].amount).created_at >= proposal[p].at
    BY <1>0 DEF Limit!Row, Operation
  <2>6. investments \subseteq investments' /\ IsFiniteSet(investments')
    BY <1>0, <2>3, FS_AddElement
  <2> HIDE DEF x
  <2>7. x.pc = "recorded" /\ x.tool \in Bought =>
          \E i \in investments' : i.tx = p /\ i.amount = x.amount /\ i.created_at >= x.at
    BY <2>1, <2>4, <2>5
  <2>8. QED
    BY <2>1, <2>2, <2>6, <2>7, OpenStepKeeps
<1>7. QED
  BY <1>2, <1>3, <1>4, <1>5, <1>6 DEF Limit!Execution

\* The steps of no operation.
LEMMA OthersKeepCap ==
    ASSUME CapInv, LimitTypes', UNCHANGED proposal, hour' >= hour,
           investments \subseteq investments', IsFiniteSet(investments')
    PROVE  CapInv'
<1>1. /\ hour \in Nat /\ hour' \in Nat /\ WINDOW \in Nat
      /\ \A p \in Proposals : proposal[p].at \in Nat
  BY LimitConstants DEF CapInv, LimitTypes, Operation
<1>2. Recent' \subseteq Recent
  BY <1>1 DEF Recent, Limit!Applied
<1>3. /\ Limit!AppliedTotal(Bought)' \in Int
      /\ Limit!AppliedTotal(Bought)' <= Limit!AppliedTotal(Bought)
      /\ Limit!AppliedTotal(Bought) \in Nat
  BY <1>2, TotalFalls, RecentIsFinite
<1>4. ASSUME NEW r \in Proposals, proposal'[r].alone, Underway(r)'
      PROVE  /\ \A q \in Proposals : Limit!IsOpen(q)' => q = r
             /\ Limit!AppliedTotal(Bought)' + proposal'[r].amount <= proposal'[r].cap
  <2>1. /\ \A q \in Proposals : Limit!IsOpen(q) => q = r
        /\ Limit!AppliedTotal(Bought) + proposal[r].amount <= proposal[r].cap
    BY <1>4 DEF CapInv, AloneWithinCap, Underway
  <2>2. \A q \in Proposals : Limit!IsOpen(q)' => q = r
    BY <2>1 DEF Limit!IsOpen
  <2>3. proposal[r].amount \in Nat /\ proposal[r].cap \in Nat
    BY AmountsAreNumbers DEF CapInv, LimitTypes
  <2>4. QED
    BY <1>3, <2>1, <2>2, <2>3
<1>5. AloneWithinCap'
  BY <1>4 DEF AloneWithinCap
<1>6. RowsAreMade' /\ Used' = Used
  BY DEF CapInv, RowsAreMade, Used
<1>7. QED
  BY <1>5, <1>6 DEF CapInv

\* What is not proposed is not applied by the next step.
LEMMA ClosedStayClosed ==
    ASSUME LimitTypes, Limit!Next, NEW p \in Proposals,
           proposal[p].pc \in {"none", "cancelled", "failed"}
    PROVE  ~Limit!Applied(p)'
<1>0. proposal \in [Proposals -> Operation]
  BY DEF LimitTypes
<1>1. ASSUME NEW q \in Proposals, q # p, NEW x, proposal' = [proposal EXCEPT ![q] = x]
      PROVE  ~Limit!Applied(p)'
  BY <1>0, <1>1 DEF Limit!Applied
<1>2. ASSUME NEW q \in Proposals, NEW tool \in Limit!Tools, NEW amount \in Amounts,
             Limit!CheckLimits(q, tool, amount)
      PROVE  ~Limit!Applied(p)'
  <2> DEFINE x == [pc |-> "checked", tool |-> tool, amount |-> amount,
                   two_step |-> amount > limits.two_step_above, cap |-> limits.cap,
                   alone |-> \A r \in Proposals : ~Limit!IsOpen(r), at |-> 0]
  <2>1. proposal' = [Limit!Overlapped EXCEPT ![q] = x] /\ x.pc = "checked"
    BY <1>2 DEF Limit!CheckLimits
  <2> HIDE DEF x
  <2>2. Limit!Overlapped[p].pc = proposal[p].pc
    BY <1>0 DEF Limit!Overlapped, Operation
  <2>3. proposal'[p].pc \in {"checked", proposal[p].pc}
    BY <1>0, <2>1, <2>2 DEF Limit!Overlapped
  <2>4. QED
    BY <2>3 DEF Limit!Applied
<1>3. ASSUME NEW q \in Proposals, Limit!Execution(q) \/ Limit!PreviewFails(q)
                 \/ \E tolerance : Limit!CreatePending(q, tolerance)
      PROVE  ~Limit!Applied(p)'
  <2>1. q # p
    BY <1>3 DEF Limit!Execution, Limit!PreviewFails, Limit!CreatePending, Limit!Confirm,
       Limit!Cancel, Limit!Rejected, Limit!Goto, Limit!Apply, Limit!RecordInvestment,
       Limit!RecordFails, Limit!Backfill
  <2>2. proposal' = [proposal EXCEPT ![q] = proposal'[q]]
    BY <1>0, <1>3 DEF Limit!Execution, Limit!PreviewFails, Limit!CreatePending, Limit!Confirm,
       Limit!Cancel, Limit!Rejected, Limit!Goto, Limit!Apply, Limit!RecordInvestment,
       Limit!RecordFails, Limit!Backfill
  <2>3. QED
    BY <1>1, <2>1, <2>2
<1>4. CASE UNCHANGED proposal
  BY <1>4 DEF Limit!Applied
<1>5. QED
  BY <1>2, <1>3, <1>4
     DEF Limit!Next, Limit!Preview, Limit!BackfillApp, Limit!SetLimits, Limit!Tick

THEOREM CapInvariantHolds == Limit!Spec => []CapInv
<1>1. Limit!Init => CapInv
  <2> SUFFICES ASSUME Limit!Init PROVE CapInv
    OBVIOUS
  <2>1. /\ investments = {} /\ \A p \in Proposals : proposal[p].pc = "none"
    BY DEF Limit!Init, Limit!NoProposal
  <2>2. Used = {}
    BY <2>1 DEF Used
  <2>3. LimitTypes
    BY LimitTypesInit
  <2>4. IsFiniteSet(investments) /\ IsFiniteSet(Used)
    BY <2>1, <2>2, FS_EmptySet
  <2>5. QED
    BY <2>1, <2>3, <2>4 DEF CapInv, RowsAreMade, AloneWithinCap, Underway
<1>2. CapInv /\ [Limit!Next]_(Limit!vars) => CapInv'
  <2> SUFFICES ASSUME CapInv, [Limit!Next]_(Limit!vars) PROVE CapInv'
    OBVIOUS
  <2>1. LimitTypes' /\ hour \in Nat
    BY LimitTypesStep, LimitConstants DEF CapInv, LimitTypes
  <2>2. ASSUME NEW t \in AppTrades, NEW amount \in Amounts, Limit!BackfillApp(t, amount)
        PROVE  CapInv'
    <3>1. /\ UNCHANGED <<hour, proposal>>
          /\ investments' = investments \cup {Limit!Row(t, amount)}
      BY <2>2 DEF Limit!BackfillApp
    <3>2. IsFiniteSet(investments') /\ hour' >= hour
      BY <2>1, <3>1, FS_AddElement DEF CapInv
    <3>3. QED
      BY <2>1, <3>1, <3>2, OthersKeepCap
  <2>3. CASE (\E setting \in Settings : Limit!SetLimits(setting)) \/ Limit!Tick \/ UNCHANGED Limit!vars
    <3>1. UNCHANGED <<proposal, investments>> /\ hour' >= hour
      BY <2>1, <2>3 DEF Limit!SetLimits, Limit!Tick, Limit!vars
    <3>2. IsFiniteSet(investments')
      BY <3>1 DEF CapInv
    <3>3. QED
      BY <2>1, <3>1, <3>2, OthersKeepCap
  <2>4. QED
    BY <2>1, <2>2, <2>3, PreviewKeepsCap, ExecutionKeepsCap DEF Limit!Next
<1>3. QED
  BY <1>1, <1>2, PTL DEF Limit!Spec

\* _daily_move_total_usd is compared with the cap when an operation is proposed,
\* and never again: a purchase or a deposit that is applied when no other
\* operation was open since then stays within the cap its preview read, however
\* late it is confirmed and its row made, whatever trades in Wallbit's own app.
THEOREM CapKeptOneByOne == AccountsSpec => CapHoldsOneByOne
<1>1. CapInv /\ [Limit!Next]_(Limit!vars) => [Limit!CapHeld]_(Limit!vars)
  <2> SUFFICES ASSUME CapInv, Limit!Next, NEW p \in Proposals, ~Limit!Applied(p),
                      Limit!Applied(p)', proposal[p].alone
               PROVE  Limit!AppliedTotal(Bought) + proposal[p].amount <= proposal[p].cap
    BY DEF Limit!CapHeld, Bought
  <2>1. Underway(p)
    <3>1. LimitTypes
      BY DEF CapInv
    <3>2. proposal[p].pc \in Limit!Closed \cup Limit!Open
      BY <3>1 DEF LimitTypes, Operation
    <3>3. CASE proposal[p].pc \in {"none", "cancelled", "failed"}
      BY <3>1, <3>3, ClosedStayClosed DEF Limit!Applied
    <3>4. QED
      BY <3>2, <3>3 DEF Limit!Closed, Limit!Open, Limit!Applied, Underway
  <2>2. QED
    BY <2>1 DEF CapInv, AloneWithinCap
<1>2. CapInv /\ AboutLimits /\ [AccountsNext]_allVars => [AboutLimits => Limit!CapHeld]_limitVars
  BY <1>1, LimitSteps DEF limitVars, Limit!vars
<1>3. ~AboutLimits => [AboutLimits => Limit!CapHeld]_limitVars
  OBVIOUS
<1>4. AccountsInit /\ AboutLimits => Limit!Init
  BY DEF AccountsInit, AboutLimits
<1>5. QED
  BY <1>2, <1>3, <1>4, LimitSteps, CapInvariantHolds, PTL
     DEF AccountsSpec, CapHoldsOneByOne, Limit!Spec, AboutLimits

-----------------------------------------------------------------------------
(* The types of every part.                                                 *)

\* The types of the kill switch need no bound on the requests.
LEMMA PauseTypesHold ==
    ASSUME Horizon > 0 PROVE Pause!Spec => []Pause!TypeOK
<1>0. /\ Horizon \in Nat /\ RevokedHours \in Nat /\ Pause!Longest = Horizon + RevokedHours
      /\ \A h \in Durations : h \in Nat /\ h < RevokedHours
      /\ 0 \in 0..Pause!Longest /\ Pause!None = 0
  BY PauseAssumed DEF Pause!DurationAssumption, Pause!HorizonAssumption,
     Pause!RevokedAssumption, Pause!Longest, Pause!None
<1>1. Pause!TypeOK <=> /\ now \in 1..Horizon
                       /\ status \in {"absent", "connected", "revoked"}
                       /\ until \in 0..Pause!Longest /\ offer \in BOOLEAN
                       /\ proc \in [PauseWorkers -> Proc]
  BY <1>0 DEF Pause!TypeOK, Proc
<1>2. Pause!Idle \in Proc
  BY <1>0 DEF Pause!Idle, Proc, Pause!PCs
<1>3. Pause!Init => Pause!TypeOK
  <2> SUFFICES ASSUME Pause!Init PROVE Pause!TypeOK
    OBVIOUS
  <2>1. /\ now = 1 /\ status = "absent" /\ until = 0 /\ offer = FALSE
        /\ proc = [w \in PauseWorkers |-> Pause!Idle]
    BY <1>0 DEF Pause!Init
  <2>2. 1 \in 1..Horizon
    BY <1>0
  <2>3. QED
    BY <1>0, <1>1, <1>2, <2>1, <2>2
<1>4. Pause!TypeOK /\ [Pause!Next]_(Pause!vars) => Pause!TypeOK'
  <2> SUFFICES ASSUME Pause!TypeOK, [Pause!Next]_(Pause!vars) PROVE Pause!TypeOK'
    OBVIOUS
  <2>0. /\ now \in 1..Horizon /\ status \in {"absent", "connected", "revoked"}
        /\ until \in 0..Pause!Longest /\ offer \in BOOLEAN
        /\ proc \in [PauseWorkers -> Proc]
    BY <1>1
  <2> DEFINE Typed == /\ now' \in 1..Horizon
                      /\ status' \in {"absent", "connected", "revoked"}
                      /\ until' \in 0..Pause!Longest /\ offer' \in BOOLEAN
                      /\ proc' \in [PauseWorkers -> Proc]
  <2>1. Typed => Pause!TypeOK'
    BY <1>0 DEF Pause!TypeOK, Proc
  <2>2. ASSUME NEW w \in PauseWorkers, NEW pc \in Pause!PCs, NEW new \in 0..Pause!Longest,
               Pause!Start(w, pc, new), offer' \in BOOLEAN
        PROVE  Typed
    <3>1. [pc |-> pc, read |-> until, new |-> new] \in Proc
      BY <2>0 DEF Proc
    <3>2. QED
      BY <2>0, <2>2, <3>1 DEF Pause!Start
  <2>3. ASSUME NEW w \in PauseWorkers, NEW pc, Pause!Finish(w, pc), UNCHANGED <<now, offer>>,
               status' \in {"absent", "connected", "revoked"}, until' \in 0..Pause!Longest
        PROVE  Typed
    BY <1>2, <2>0, <2>3 DEF Pause!Finish
  <2> HIDE DEF Typed
  <2>4. \A w \in PauseWorkers : proc[w].new \in 0..Pause!Longest
    BY <2>0 DEF Proc
  <2>5. ASSUME NEW w \in PauseWorkers,
               \/ Pause!ReadForPause(w) \/ Pause!ReadForResume(w) \/ Pause!ReadForDisconnect(w)
               \/ Pause!ConfirmOffer(w) /\ status = "connected"
        PROVE  Typed
    <3>1. PICK pc \in Pause!PCs, new \in 0..Pause!Longest : Pause!Start(w, pc, new)
      <4>1. \A h \in Durations \cup {RevokedHours} : now + h \in 0..Pause!Longest
        BY <1>0, <2>0
      <4>2. QED
        BY <1>0, <2>5, <4>1 DEF Pause!ReadForPause, Pause!ReadForResume, Pause!ConfirmOffer,
           Pause!ReadForDisconnect, Pause!PCs
    <3>2. offer' \in BOOLEAN
      BY <2>0, <2>5 DEF Pause!ReadForPause, Pause!ReadForResume, Pause!ConfirmOffer,
         Pause!ReadForDisconnect
    <3>3. QED
      BY <2>2, <3>1, <3>2
  <2>6. ASSUME NEW w \in PauseWorkers,
               \/ Pause!SavePause(w) \/ Pause!SaveResume(w) \/ Pause!SaveConfirmed(w)
               \/ Pause!SaveDisconnect(w)
        PROVE  Typed
    <3>1. /\ \E pc : Pause!Finish(w, pc)
          /\ UNCHANGED <<now, offer>> /\ status' \in {"absent", "connected", "revoked"}
          /\ until' \in {until, 0, proc[w].new}
      BY <1>0, <2>0, <2>6 DEF Pause!SavePause, Pause!SaveResume, Pause!SaveConfirmed,
         Pause!SaveDisconnect, Pause!Longer
    <3>2. QED
      BY <1>0, <2>0, <2>3, <2>4, <3>1
  <2>7. CASE \/ Pause!Connect \/ Pause!OfferResume \/ Pause!Tick
             \/ \E w \in PauseWorkers : Pause!ConfirmOffer(w) /\ status # "connected"
             \/ UNCHANGED Pause!vars
    <3>1. /\ UNCHANGED now \/ Pause!Tick
          /\ UNCHANGED proc /\ status' \in {status, "connected"} /\ until' \in {until, 0}
          /\ offer' \in {offer, TRUE, FALSE}
      BY <1>0, <2>7 DEF Pause!Connect, Pause!OfferResume, Pause!Tick, Pause!ConfirmOffer,
         Pause!vars
    <3>2. now' \in 1..Horizon
      BY <1>0, <2>0, <3>1 DEF Pause!Tick
    <3>3. offer' \in BOOLEAN /\ status' \in {"absent", "connected", "revoked"}
      BY <2>0, <3>1
    <3>4. Typed
      BY <1>0, <2>0, <3>1, <3>2, <3>3 DEF Typed
    <3>5. QED
      BY <2>1, <3>4
  <2>8. QED
    BY <2>1, <2>5, <2>6, <2>7 DEF Pause!Next
<1>5. QED
  BY <1>3, <1>4, PTL DEF Pause!Spec

\* Every part keeps its types, with any number of requests in each.
THEOREM AccountTypesKept ==
    ASSUME Workers # {}, Horizon > 0 PROVE AccountsSpec => []AccountsTypeOK
<1>1. AccountsSpec => []TypeOK
  <2>1. AccountsInit => Init
    BY DEF AccountsInit
  <2>2. [AccountsNext]_allVars => [Next]_vars
    BY DEF AccountsNext, UsageStep, PauseStep, OrganizationStep, RiskStep, LimitStep, allVars
  <2>3. UsageInv => TypeOK
    BY DEF UsageInv
  <2>4. QED
    BY <2>1, <2>2, <2>3, UsageInvariantHolds, PTL DEF AccountsSpec, Spec
<1>2. AccountsSpec => [](AboutPause => Pause!TypeOK)
  <2>1. AccountsInit /\ AboutPause => Pause!Init
    BY DEF AccountsInit, AboutPause
  <2>2. QED
    BY <2>1, PauseSteps, PauseTypesHold, PTL DEF AccountsSpec, Pause!Spec
<1>3. AccountsSpec => [](AboutOrganizations => Org!TypeOK)
  <2>0. OrgAssumption
    BY OrganizationsAssumed DEF OrgAssumption
  <2>1. AccountsInit /\ AboutOrganizations => Org!Init
    BY DEF AccountsInit, AboutOrganizations
  <2>2. OrgInv => Org!TypeOK
    BY DEF OrgInv, OrgTypes
  <2>3. QED
    BY <2>0, <2>1, <2>2, OrganizationSteps, OrgInvariantHolds, PTL DEF AccountsSpec, Org!Spec
<1>4. AccountsSpec => [](AboutRisk => Risk!TypeOK)
  <2>1. AccountsInit /\ AboutRisk => Risk!Init
    BY DEF AccountsInit, AboutRisk
  <2>2. RiskInv => Risk!TypeOK
    BY DEF RiskInv
  <2>3. QED
    BY <2>1, <2>2, RiskSteps, RiskInvariantHolds, PTL DEF AccountsSpec, Risk!Spec
<1>5. AccountsSpec => [](AboutLimits => Limit!TypeOK)
  <2>1. AccountsInit /\ AboutLimits => Limit!Init
    BY DEF AccountsInit, AboutLimits
  <2>2. QED
    BY <2>1, LimitSteps, LimitTypesHold, LimitTypesAreTypes, PTL DEF AccountsSpec, Limit!Spec
<1>6. TypeOK /\ (AboutPause => Pause!TypeOK) /\ (AboutOrganizations => Org!TypeOK)
        /\ (AboutRisk => Risk!TypeOK) /\ (AboutLimits => Limit!TypeOK) => AccountsTypeOK
  BY DEF AccountsTypeOK, AboutPause, AboutOrganizations, AboutRisk, AboutLimits
<1>7. QED
  BY <1>1, <1>2, <1>3, <1>4, <1>5, <1>6, PTL
=============================================================================
