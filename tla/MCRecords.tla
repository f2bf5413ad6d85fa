---------------------------- MODULE MCRecords ----------------------------
(***************************************************************************)
(* Small instances of what Records puts together, for TLC.  A day has two  *)
(* hours, a week three days, the longest month six days.                   *)
(***************************************************************************)
EXTENDS Records, TLC

\* A user west of Greenwich.
MinusOne == -1
OneAndTwo == [i \in Ids |-> i]
SomeStamps == {20, 28, 31}
\* A range within a month, and one longer than the charts' longest.
SomeRanges == {<<14, 15>>, <<4, 15>>}

\* Amounts no two sets of which have one sum.
Powers == [i \in 1..3 |-> 2^i]

\* The mail of the shop and the mail of the bank name one purchase.
OnePurchase == [m \in Emails |-> "reference"]

\* Tables that older versions may have left, and names that are asked for.
Titled(key) == [key |-> key, spelling |-> "title"]
Upper(key) == [key |-> key, spelling |-> "upper"]
OldTables ==
    {[table |-> "expense", names |-> <<Titled("d")>>],
     [table |-> "income", names |-> <<Upper("d"), Titled("d")>>],
     [table |-> "expense", names |-> <<Upper("a"), Titled("a")>>]}
SomeNames == {Upper("a"), Titled("d")}

Symmetric ==
    Permutations(Emails) \cup Permutations(Tasks) \cup Permutations(Workers)
=============================================================================
