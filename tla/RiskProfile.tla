----------------------------- MODULE RiskProfile -----------------------------
(***************************************************************************)
(* The risk profile of a user: what the user declares (questionnaire or    *)
(* dashboard), what the system infers from the user's records, and the     *)
(* effective profile the gates use, which each read also writes into the   *)
(* RiskProfile row.  Requests take no lock: a step is a statement.         *)
(***************************************************************************)
EXTENDS Integers, Sequences, FiniteSets, FiniteSetsExt, Functions

CONSTANTS
    Signals,            \* records a user may have (bound)
    Workers,            \* requests served at once
    MaxAssessments,     \* RiskAssessment rows (bound)
    BUFFER_MIN_DAYS,
    NoValue

Tolerances == {"conservative", "moderate", "aggressive"}
Row == [tolerance : Tolerances, override : BOOLEAN]

\* Assumed by the modules that give the constants their values.
RiskAssumption ==
    /\ \A s \in Signals :
         /\ s.income \in Seq(Nat) /\ s.expense \in Seq(Nat)
         /\ s.earlier \in Int /\ s.days \in Nat
         /\ s.volatile \in Nat /\ s.steady \in Nat
    /\ MaxAssessments \in Nat /\ BUFFER_MIN_DAYS \in Nat
    /\ NoValue \notin Tolerances \cup Row

VARIABLES
    signals,        \* what the user's records say at present
    row,            \* the RiskProfile row
    assessments,    \* RiskAssessment rows, oldest first
    job

vars == <<signals, row, assessments, job>>

Rank(tolerance) ==
    CASE tolerance = "conservative" -> 0
      [] tolerance = "moderate" -> 1
      [] tolerance = "aggressive" -> 2

-----------------------------------------------------------------------------
(* compute_inference.  A signal record holds the monthly totals of the last *)
(* 90 days, the net of the time before, the days recorded, and the net      *)
(* holdings in volatile and in steady instruments.                          *)

\* The months with records, by their totals.
Months(s) == [i \in {m \in DOMAIN s : s[m] > 0} |-> s[i]]

\* The points of the first bracket whose bound exceeds the value, the last
\* entry if none does: Below(bound) says so.
Bracket(bounds, points, Below(_)) ==
    LET over == {i \in DOMAIN bounds : Below(bounds[i])}
    IN  IF over = {} THEN points[Len(points)]
        ELSE points[CHOOSE i \in over : \A j \in over : i <= j]

\* _bucket_savings_rate, in percent of the income
SavingsRate(s) ==
    LET earned == SumFunction(s.income)
        saved == IF earned = 0 THEN 0 ELSE earned - SumFunction(s.expense)
        Below(bound) == saved * 100 < bound * earned
    IN  IF saved <= 0 THEN 0
        ELSE Bracket(<<10, 20, 35, 50>>, <<20, 40, 60, 80, 100>>, Below)

\* _downside_cv squared, as a fraction: only the months on the bad side count.
DownsideCv(samples, Bad(_, _)) ==
    LET n == Cardinality(DOMAIN samples)
        sum == SumFunction(samples)
        Off(v) == v * n - sum
        square == [i \in {m \in DOMAIN samples : Bad(samples[m] * n, sum)} |->
                     Off(samples[i]) * Off(samples[i])]
    IN  IF n < 2 THEN NoValue ELSE <<SumFunction(square), n * sum * sum>>

\* _stability_from_cv, bounds in percent
Stability(cv) ==
    LET Below(bound) == cv[1] * 10000 < bound * bound * cv[2]
    IN  IF cv = NoValue THEN 50
        ELSE Bracket(<<5, 15, 30, 50>>, <<100, 75, 50, 25, 0>>, Below)

IncomeStability(s) == Stability(DownsideCv(Months(s.income), LAMBDA v, mean : v < mean))
ExpenseStability(s) == Stability(DownsideCv(Months(s.expense), LAMBDA v, mean : v > mean))

\* Mutant of HoldingsAppetite: the steady holdings are taken for the volatile.
HoldingsOfSteady(s) ==
    LET total == s.volatile + s.steady
        AtLeast(share, part) == part * 100 >= share * total
    IN  IF total = 0 THEN 50
        ELSE IF AtLeast(70, s.steady) THEN 100
        ELSE IF AtLeast(30, s.steady) THEN 60 ELSE 10

\* _compute_holdings_signals: with two kinds of holdings the brackets on the
\* steady share are reached below 30 % only.
HoldingsAppetite(s) ==
    LET total == s.volatile + s.steady
        AtLeast(share, part) == part * 100 >= share * total
    IN  IF total = 0 THEN 50
        ELSE IF AtLeast(70, s.volatile) THEN 100
        ELSE IF AtLeast(50, s.volatile) THEN 80
        ELSE IF AtLeast(30, s.volatile) THEN 60
        ELSE IF AtLeast(70, s.steady) THEN 10
        ELSE IF AtLeast(50, s.steady) THEN 30 ELSE 50

\* Months of the average expense that the accumulated net covers.
LiquidityBuffer(s) ==
    LET spent == SumFunction(s.expense)
        net == s.earlier + SumFunction(s.income) - spent
        Below(months) == net * 3 < months * spent
    IN  IF s.days < BUFFER_MIN_DAYS \/ spent = 0 THEN 50
        ELSE Bracket(<<0, 1, 3, 6, 12>>, <<0, 15, 40, 70, 90, 100>>, Below)

\* The weighted sum, rounded to the nearest integer (half to even).
Score(s) ==
    LET sum == 25 * SavingsRate(s) + 20 * IncomeStability(s)
                 + 10 * ExpenseStability(s) + 25 * HoldingsAppetite(s)
                 + 20 * LiquidityBuffer(s)
        q == sum \div 100
        half == sum % 100
    IN  IF half > 50 \/ (half = 50 /\ q % 2 = 1) THEN q + 1 ELSE q

ToleranceFor(score) ==
    IF score <= 35 THEN "conservative"
    ELSE IF score <= 65 THEN "moderate" ELSE "aggressive"

-----------------------------------------------------------------------------
\* "user" stands for questionnaire and dashboard; an inference is fresh until
\* DEFAULT_MAX_AGE_DAYS pass.
Assessment == [tolerance : Tolerances, by : {"user", "auto"}, fresh : BOOLEAN]
Idle == [pc |-> "idle", declared |-> NoValue, inferred |-> NoValue,
         result |-> NoValue, known |-> FALSE]

TypeOK ==
    /\ signals \in Signals
    /\ row \in Row \cup {NoValue}
    /\ assessments \in Seq(Assessment)
    /\ row = NoValue => assessments = <<>>
    /\ \A w \in Workers :
         /\ job[w].pc \in {"idle", "combining", "syncing", "posting", "declaring"}
         /\ job[w].declared \in Tolerances \cup {NoValue}
         /\ job[w].inferred \in Tolerances \cup {NoValue}
         /\ job[w].result \in Tolerances \cup {NoValue}

Init ==
    /\ signals \in Signals
    /\ row = NoValue /\ assessments = <<>>
    /\ job = [w \in Workers |-> Idle]

Goto(w, state) == job' = [job EXCEPT ![w] = state]
Latest(Wanted(_)) ==
    LET found == {i \in DOMAIN assessments : Wanted(assessments[i])}
    IN  IF found = {} THEN NoValue ELSE assessments[Max(found)]
Tolerance(a) == IF a = NoValue THEN NoValue ELSE a.tolerance

\* _latest_declared, latest_inference
LatestDeclared == Latest(LAMBDA a : a.by # "auto")
FreshInference == Latest(LAMBDA a : a.by = "auto" /\ a.fresh)
AnyInference == Latest(LAMBDA a : a.by = "auto")

\* get_or_create_inference: a new assessment, and a profile row if there is none.
ScoreOf == [s \in Signals |-> Score(s)]
Inferred == ToleranceFor(ScoreOf[signals])
Infer ==
    /\ Len(assessments) < MaxAssessments
    /\ assessments' = Append(assessments, [tolerance |-> Inferred, by |-> "auto", fresh |-> TRUE])
    /\ row' = IF row = NoValue THEN [tolerance |-> "moderate", override |-> FALSE] ELSE row

\* Without a refresh: the latest inference, whatever its age, if none is fresh.
StoredInference == IF FreshInference # NoValue THEN FreshInference ELSE AnyInference

Combining(inferred) ==
    [Idle EXCEPT !.pc = "combining", !.declared = Tolerance(LatestDeclared),
                 !.inferred = Tolerance(inferred), !.known = (AnyInference # NoValue)]

\* The gate and the chat tools; also a refresh that fails.
ReadProfile(w) ==
    /\ job[w].pc = "idle"
    /\ Goto(w, Combining(StoredInference))
    /\ UNCHANGED <<signals, row, assessments>>

\* The dashboard; forced, it asks for a new inference (age 0).
RefreshProfile(w, forced) ==
    LET cached == IF forced THEN NoValue ELSE FreshInference
    IN  /\ job[w].pc = "idle"
        /\ IF cached # NoValue
           THEN UNCHANGED <<row, assessments>> /\ Goto(w, Combining(cached))
           ELSE /\ Infer
                /\ Goto(w, [Combining(NoValue) EXCEPT !.inferred = Inferred])
        /\ UNCHANGED <<signals>>

\* Mutant of Combine: the declared profile wins.
CombineUncapped(declared, inferred, override) ==
    IF declared # NoValue THEN declared ELSE inferred

\* _combine
Combine(declared, inferred, override) ==
    IF declared # NoValue /\ inferred # NoValue
    THEN IF override \/ Rank(declared) <= Rank(inferred) THEN declared ELSE inferred
    ELSE IF declared # NoValue THEN declared ELSE inferred

CombineProfile(w) ==
    LET override == row # NoValue /\ row.override
    IN  /\ job[w].pc = "combining"
        /\ Goto(w, [Idle EXCEPT !.pc = "syncing",
                      !.result = Combine(job[w].declared, job[w].inferred, override)])
        /\ UNCHANGED <<signals, row, assessments>>

\* _sync_profile_row: NoValue stands for the default, which is not written.
SyncProfileRow(w) ==
    /\ job[w].pc = "syncing"
    /\ row' = IF row = NoValue \/ job[w].result = NoValue THEN row
              ELSE [row EXCEPT !.tolerance = job[w].result]
    /\ Goto(w, Idle)
    /\ UNCHANGED <<signals, assessments>>

-----------------------------------------------------------------------------
(* What the user declares.  NoValue is a partial update without tolerance.  *)

StartPost(w, tolerance) ==
    /\ job[w].pc = "idle"
    /\ row = NoValue => tolerance # NoValue
    /\ Goto(w, [Idle EXCEPT !.pc = "posting",
                  !.result = IF tolerance = NoValue THEN row.tolerance ELSE tolerance])
    /\ UNCHANGED <<signals, row, assessments>>

\* The whole row is saved, as it was read.
SavePost(w) ==
    /\ job[w].pc = "posting"
    /\ row' = [tolerance |-> job[w].result, override |-> TRUE]
    /\ Goto(w, [job[w] EXCEPT !.pc = "declaring"])
    /\ UNCHANGED <<signals, assessments>>

\* The end of the questionnaire.
Persist(w, tolerance) ==
    /\ job[w].pc = "idle"
    /\ row' = [tolerance |-> tolerance, override |-> FALSE]
    /\ Goto(w, [Idle EXCEPT !.pc = "declaring", !.result = tolerance])
    /\ UNCHANGED <<signals, assessments>>

\* A row deleted meanwhile raises IntegrityError.
AddAssessment(w) ==
    /\ job[w].pc = "declaring"
    /\ IF row = NoValue THEN UNCHANGED assessments
       ELSE /\ Len(assessments) < MaxAssessments
            /\ assessments' = Append(assessments,
                 [tolerance |-> job[w].result, by |-> "user", fresh |-> FALSE])
    /\ Goto(w, Idle)
    /\ UNCHANGED <<signals, row>>

\* The assessments go with the row.
DeleteProfile ==
    /\ row # NoValue
    /\ row' = NoValue /\ assessments' = <<>>
    /\ UNCHANGED <<signals, job>>

\* refresh_stale_inferences
RefreshStale ==
    /\ FreshInference = NoValue
    /\ Infer
    /\ UNCHANGED <<signals, job>>

\* A worker is killed between two statements.
Dies(w) ==
    /\ job[w].pc # "idle"
    /\ Goto(w, Idle)
    /\ UNCHANGED <<signals, row, assessments>>

Record(s) == signals # s /\ signals' = s /\ UNCHANGED <<row, assessments, job>>

\* DEFAULT_MAX_AGE_DAYS pass since the first n assessments.
GrowOld(n) ==
    /\ assessments' = [i \in DOMAIN assessments |->
                         [assessments[i] EXCEPT !.fresh = @ /\ i > n]]
    /\ assessments' # assessments
    /\ UNCHANGED <<signals, row, job>>

Next ==
    \/ \E w \in Workers :
         \/ ReadProfile(w) \/ CombineProfile(w) \/ SyncProfileRow(w)
         \/ \E forced \in BOOLEAN : RefreshProfile(w, forced)
         \/ \E t \in Tolerances \cup {NoValue} : StartPost(w, t)
         \/ \E t \in Tolerances : Persist(w, t)
         \/ SavePost(w) \/ AddAssessment(w) \/ Dies(w)
    \/ DeleteProfile \/ RefreshStale
    \/ \E n \in 1..MaxAssessments : GrowOld(n)
    \/ \E s \in Signals : Record(s)

Spec == Init /\ [][Next]_vars

-----------------------------------------------------------------------------
\* An inference that grew old still caps what the user declares: whoever reads
\* the profile after one was made is not taken bolder than it says, unless the
\* user overrode the profile.
CapKept ==
    \A w \in Workers :
      (/\ job[w].pc = "combining" /\ job'[w].pc = "syncing"
       /\ job[w].known /\ ~(row # NoValue /\ row.override))
          => /\ job[w].inferred # NoValue
             /\ Rank(job'[w].result) <= Rank(job[w].inferred)

\* "Higher scores indicate higher capacity": when all that changes is that more
\* is accumulated, or that more of the holdings are in volatile instruments, the
\* score does not fall.
ScoreKept ==
    (/\ signals' # signals
     /\ signals'.income = signals.income /\ signals'.expense = signals.expense
     /\ signals'.days = signals.days /\ signals'.earlier >= signals.earlier
     /\ signals'.volatile + signals'.steady = signals.volatile + signals.steady
     /\ signals'.volatile >= signals.volatile)
        => ScoreOf[signals'] >= ScoreOf[signals]

-----------------------------------------------------------------------------
(* What is not kept (see the README): no run checks these.                 *)

\* "A bonus month does not count against you."
BonusMonthIsHarmless ==
    \A t \in Signals :
        (/\ Len(t.income) = Len(signals.income)
         /\ \A i \in DOMAIN t.income : t.income[i] >= signals.income[i])
            => IncomeStability(t) >= IncomeStability(signals)

\* What the user set by hand is what the user chose: a partial update declares
\* the tolerance the last read wrote into the row.
DeclaredIsChosen ==
    [][\A w \in Workers :
         StartPost(w, NoValue) => LatestDeclared # NoValue
                                  /\ row.tolerance = LatestDeclared.tolerance]_vars

\* The row shows a profile that some assessment backs.
RowIsBacked ==
    (row # NoValue /\ assessments # <<>> /\ \A w \in Workers : job[w].pc = "idle")
        => \E i \in DOMAIN assessments : assessments[i].tolerance = row.tolerance
=============================================================================
