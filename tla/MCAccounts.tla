---------------------------- MODULE MCAccounts ----------------------------
(* Small instances of what Accounts puts together, for TLC. *)
EXTENDS Accounts, TLC

CONSTANTS u1, u2, u3, u4, o1, w1, w2, d1, d2

\* A calendar with a short month before a longer one, as February is.
ShortFebruary == <<2, 2, 3, 2>>

Administrator == [o \in Orgs |-> u1]

\* Ninety days of movements: three months of income and expenses, the net of the
\* time before, and ten operations, some in volatile instruments.
Signal(income, expense, earlier, volatile) ==
    [income |-> income, expense |-> expense, earlier |-> earlier, days |-> 90,
     volatile |-> volatile, steady |-> 10 - volatile]
SomeSignals ==
    {Signal(<<4, 4, 4>>, <<4, 3, 3>>, 0, 0), Signal(<<4, 4, 4>>, <<4, 3, 3>>, 0, 10),
     Signal(<<4, 4, 4>>, <<4, 3, 3>>, 3, 0), Signal(<<4, 4, 12>>, <<4, 3, 3>>, 40, 10)}

\* Generous settings, and narrow ones with a list of symbols.
Setting(trade, cap, listed) ==
    [max_trade |-> trade, cap |-> cap, two_step_above |-> 1, allowed |-> listed,
     blocked |-> {}]
SomeSettings == {Setting(2, 3, {}), Setting(1, 2, {"a"})}

\* Two users who are not administrators, the requests, and the proposals.
Symmetric == UNION {Permutations(S) : S \in {{u2, u3}, {w1, w2}, {d1, d2}}}
=============================================================================
