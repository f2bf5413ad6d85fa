----------------------------- MODULE FiniteSums -----------------------------
(***************************************************************************)
(* What the sums of the library's Functions are: SumFunctionOnSet picks    *)
(* one element after the other, and no proof can say which.  The sum does  *)
(* not depend on it: any element may be taken out first, a part of amounts *)
(* comes to no more than all of them, amounts that match one to one come   *)
(* to the same, and sums by a key add up to the sum.                       *)
(***************************************************************************)
EXTENDS Integers, Functions, FiniteSetTheorems, WellFoundedInduction, TLAPS

-----------------------------------------------------------------------------
(* The functions that the folds of the library are made of.                *)

\* Among sets of subsets of a finite set, one has no proper subset in it.
LEMMA SmallestSet ==
    ASSUME NEW S, IsFiniteSet(S), NEW B \in SUBSET (SUBSET S), B # {}
    PROVE  \E s \in B : \A t \in SUBSET s : t # s => t \notin B
<1> DEFINE sizes == {Cardinality(s) : s \in B}
<1>1. \A s \in B : IsFiniteSet(s) /\ Cardinality(s) \in Nat
  BY FS_Subset, FS_CardinalityType
<1>2. sizes \subseteq Nat /\ sizes # {}
  BY <1>1
<1> HIDE DEF sizes
<1>3. PICK n \in sizes : \A m \in sizes : ~ (<<m, n>> \in OpToRel(<, Nat))
  BY Zenon, <1>2, NatLessThanWellFounded, WFMin
<1>4. \A m \in sizes : ~ (m < n)
  BY Zenon, <1>2, <1>3 DEF OpToRel
<1>5. PICK s \in B : n = Cardinality(s)
  BY DEF sizes
<1>6. ASSUME NEW t \in SUBSET s, t # s, t \in B PROVE FALSE
  <2>1. Cardinality(t) < Cardinality(s)
    BY <1>1, <1>6, FS_Subset
  <2>2. Cardinality(t) \in sizes
    BY <1>6 DEF sizes
  <2>3. QED
    BY <1>4, <1>5, <2>1, <2>2
<1>7. QED
  BY <1>6

\* The folds of the library: one element of a set after the other, as c chooses.
Chooses(c, S) == \A s \in SUBSET S : s # {} => c[s] \in s
Sums(g, S, f, c) ==
    g = [s \in SUBSET S |-> IF s = {} THEN 0 ELSE f[c[s]] + g[s \ {c[s]}]]

LEMMA SumsUnfold ==
    ASSUME NEW S, NEW f, NEW c, NEW g, Sums(g, S, f, c)
    PROVE  /\ g[{}] = 0
           /\ \A s \in SUBSET S : s # {} => g[s] = f[c[s]] + g[s \ {c[s]}]
           /\ \A s \in SUBSET S : g[s] = IF s = {} THEN 0 ELSE f[c[s]] + g[s \ {c[s]}]
BY Zenon DEF Sums

\* Two sums of the same numbers chosen alike give the same, whatever else they sum.
LEMMA SumsAgree ==
    ASSUME NEW S, NEW T \in SUBSET S, IsFiniteSet(S), NEW f, NEW c, Chooses(c, S),
           NEW g, Sums(g, S, f, c), NEW h, Sums(h, T, f, c)
    PROVE  \A s \in SUBSET T : g[s] = h[s]
<1> DEFINE B == {s \in SUBSET T : g[s] # h[s]}
<1> SUFFICES ASSUME B # {} PROVE FALSE
  OBVIOUS
<1>1. PICK s \in B : \A t \in SUBSET s : t # s => t \notin B
  <2>1. IsFiniteSet(T) /\ B \in SUBSET (SUBSET T)
    BY FS_Subset
  <2> HIDE DEF B
  <2>2. QED
    BY <2>1, SmallestSet
<1>2. s # {}
  <2>1. g[{}] = 0 /\ h[{}] = 0
    BY SumsUnfold
  <2>2. QED
    BY <2>1
<1>3. c[s] \in s
  BY <1>2 DEF Chooses
<1>4. g[s \ {c[s]}] = h[s \ {c[s]}]
  BY <1>1, <1>3
<1>5. g[s] = h[s]
  BY <1>2, <1>4, SumsUnfold
<1>6. QED
  BY <1>5

LEMMA SumsExist ==
    ASSUME NEW S, IsFiniteSet(S), NEW f, NEW c, Chooses(c, S)
    PROVE  \E g : Sums(g, S, f, c)
<1> DEFINE B == {t \in SUBSET S : ~\E g : Sums(g, t, f, c)}
           Of(t) == (CHOOSE g : Sums(g, t, f, c))[t]
<1> SUFFICES ASSUME B # {} PROVE FALSE
  OBVIOUS
<1>1. PICK t \in B : \A s \in SUBSET t : s # t => s \notin B
  <2>1. B \in SUBSET (SUBSET S)
    OBVIOUS
  <2> HIDE DEF B
  <2>2. QED
    BY <2>1, SmallestSet
<1>2. IsFiniteSet(t) /\ Chooses(c, t)
  BY FS_Subset DEF Chooses
<1>3. ASSUME NEW s \in SUBSET t, s # t
      PROVE  Of(s) = IF s = {} THEN 0 ELSE f[c[s]] + Of(s \ {c[s]})
  <2> DEFINE h == CHOOSE g : Sums(g, s, f, c)
             u == s \ {c[s]}
             k == CHOOSE g : Sums(g, u, f, c)
  <2>1. Sums(h, s, f, c)
    BY <1>1, <1>3
  <2>2. Sums(k, u, f, c)
    BY <1>1, <1>3
  <2>3. IsFiniteSet(s) /\ Chooses(c, s)
    BY <1>2, FS_Subset DEF Chooses
  <2> HIDE DEF h, k
  <2>4. h[u] = k[u]
    BY <2>1, <2>2, <2>3, SumsAgree
  <2>5. h[s] = IF s = {} THEN 0 ELSE f[c[s]] + h[u]
    <3>1. \A x \in SUBSET s : h[x] = IF x = {} THEN 0 ELSE f[c[x]] + h[x \ {c[x]}]
      BY <2>1, SumsUnfold
    <3>2. s \in SUBSET s
      OBVIOUS
    <3>3. QED
      BY <3>1, <3>2
  <2>6. QED
    BY <2>4, <2>5 DEF h, k
<1> DEFINE g == [s \in SUBSET t |-> IF s = {} THEN 0 ELSE f[c[s]] + Of(s \ {c[s]})]
<1> HIDE DEF Of
<1>4. ASSUME NEW s \in SUBSET t, s # {}
      PROVE  g[s \ {c[s]}] = Of(s \ {c[s]})
  <2>1. c[s] \in s
    BY <1>2, <1>4 DEF Chooses
  <2>2. QED
    BY <1>3, <2>1
<1>5. Sums(g, t, f, c)
  BY <1>4 DEF Sums
<1>6. QED
  BY <1>5

\* Sums of integers are integers, and any element may be taken out first.
LEMMA SumsTakeOut ==
    ASSUME NEW S, IsFiniteSet(S), NEW f, NEW c, Chooses(c, S), \A x \in S : f[x] \in Int,
           NEW g, Sums(g, S, f, c)
    PROVE  /\ \A s \in SUBSET S : g[s] \in Int
           /\ \A s \in SUBSET S : \A x \in s : g[s] = f[x] + g[s \ {x}]
<1>1. /\ g[{}] = 0
      /\ \A s \in SUBSET S : s # {} => c[s] \in s /\ g[s] = f[c[s]] + g[s \ {c[s]}]
  <2>1. \A s \in SUBSET S : s # {} => c[s] \in s
    BY DEF Chooses
  <2>2. /\ g[{}] = 0
        /\ \A s \in SUBSET S : s # {} => g[s] = f[c[s]] + g[s \ {c[s]}]
    BY SumsUnfold
  <2>3. QED
    BY <2>1, <2>2
<1>2. \A s \in SUBSET S : g[s] \in Int
  <2> DEFINE B == {s \in SUBSET S : g[s] \notin Int}
  <2> SUFFICES ASSUME B # {} PROVE FALSE
    OBVIOUS
  <2>1. PICK s \in B : \A t \in SUBSET s : t # s => t \notin B
    <3>1. B \in SUBSET (SUBSET S)
      OBVIOUS
    <3> HIDE DEF B
    <3>2. QED
      BY <3>1, SmallestSet
  <2>2. s \in SUBSET S /\ g[s] \notin Int
    OBVIOUS
  <2> HIDE DEF B
  <2>3. CASE s = {}
    <3>1. g[s] = 0
      BY <1>1, <2>3
    <3>2. QED
      BY <2>2, <3>1
  <2>4. CASE s # {}
    <3>1. c[s] \in s /\ g[s] = f[c[s]] + g[s \ {c[s]}]
      BY <1>1, <2>2, <2>4
    <3>2. g[s \ {c[s]}] \in Int
      BY <2>1, <2>2, <3>1 DEF B
    <3>3. f[c[s]] \in Int
      BY <2>2, <3>1
    <3>4. \A a, b \in Int : a + b \in Int
      OBVIOUS
    <3>5. QED
      BY <2>2, <3>1, <3>2, <3>3, <3>4
  <2>5. QED
    BY <2>3, <2>4
<1>3. \A s \in SUBSET S : \A x \in s : g[s] = f[x] + g[s \ {x}]
  <2> DEFINE B == {s \in SUBSET S : \E x \in s : g[s] # f[x] + g[s \ {x}]}
  <2> SUFFICES ASSUME B # {} PROVE FALSE
    OBVIOUS
  <2>1. PICK s \in B : \A t \in SUBSET s : t # s => t \notin B
    <3>1. B \in SUBSET (SUBSET S)
      OBVIOUS
    <3> HIDE DEF B
    <3>2. QED
      BY <3>1, SmallestSet
  <2>2. PICK x \in s : g[s] # f[x] + g[s \ {x}]
    OBVIOUS
  <2> DEFINE y == c[s]
  <2>3. y \in s /\ g[s] = f[y] + g[s \ {y}] /\ x # y
    BY <1>1, <2>2
  <2> HIDE DEF y
  <2>4. g[s \ {y}] = f[x] + g[(s \ {y}) \ {x}]
    <3>1. s \ {y} \notin B
      BY <2>1, <2>3
    <3>2. QED
      BY <2>3, <3>1
  <2>5. g[s \ {x}] = f[y] + g[(s \ {x}) \ {y}]
    <3>1. s \ {x} \notin B
      BY <2>1, <2>3
    <3>2. QED
      BY <2>3, <3>1
  <2>6. (s \ {x}) \ {y} = (s \ {y}) \ {x}
    OBVIOUS
  <2>7. f[x] \in Int /\ f[y] \in Int /\ g[(s \ {y}) \ {x}] \in Int
    BY <1>2, <2>3
  <2>8. \A i, j, k \in Int : i + (j + k) = j + (i + k)
    OBVIOUS
  <2>9. f[y] + (f[x] + g[(s \ {y}) \ {x}]) = f[x] + (f[y] + g[(s \ {y}) \ {x}])
    BY <2>7, <2>8
  <2>10. QED
    BY <2>2, <2>3, <2>4, <2>5, <2>6, <2>9
<1>4. QED
  BY <1>2, <1>3

\* A part of numbers that are not negative sums to no more than all of them.
LEMMA PartSumsToLess ==
    ASSUME NEW S, IsFiniteSet(S), NEW f, NEW c, Chooses(c, S), \A x \in S : f[x] \in Nat,
           NEW g, Sums(g, S, f, c), NEW U \in SUBSET S
    PROVE  0 <= g[U] /\ g[U] <= g[S]
<1>1. /\ g[{}] = 0 /\ \A s \in SUBSET S : g[s] \in Int
      /\ \A s \in SUBSET S : \A x \in s : g[s] = f[x] + g[s \ {x}]
  BY SumsUnfold, SumsTakeOut
<1>2. \A V \in SUBSET S : \A s \in SUBSET S : V \subseteq s => g[V] <= g[s]
  <2> TAKE V \in SUBSET S
  <2> DEFINE B == {s \in SUBSET S : V \subseteq s /\ ~(g[V] <= g[s])}
  <2> SUFFICES ASSUME B # {} PROVE FALSE
    OBVIOUS
  <2>1. PICK s \in B : \A t \in SUBSET s : t # s => t \notin B
    <3>1. B \in SUBSET (SUBSET S)
      OBVIOUS
    <3> HIDE DEF B
    <3>2. QED
      BY <3>1, SmallestSet
  <2>2. s \in SUBSET S /\ V \subseteq s /\ ~(g[V] <= g[s]) /\ g[V] \in Int /\ g[s] \in Int
    BY <1>1
  <2>3. s # V
    BY <2>2
  <2>4. PICK x \in s : x \notin V
    BY <2>2, <2>3
  <2>5. g[V] <= g[s \ {x}]
    <3>1. s \ {x} \notin B /\ V \subseteq s \ {x} /\ s \ {x} \in SUBSET S
      BY <2>1, <2>2, <2>4
    <3>2. QED
      BY <3>1
  <2>6. g[s] = f[x] + g[s \ {x}] /\ f[x] \in Nat /\ g[s \ {x}] \in Int
    BY <1>1, <2>2, <2>4
  <2> HIDE DEF B
  <2>7. QED
    BY <2>2, <2>5, <2>6
<1>3. g[{}] <= g[U] /\ g[U] <= g[S]
  <2>1. {} \in SUBSET S /\ {} \subseteq U /\ U \in SUBSET S /\ S \in SUBSET S /\ U \subseteq S
    OBVIOUS
  <2>2. QED
    BY <1>2, <2>1
<1>4. QED
  BY <1>1, <1>3

\* What each of some numbers matches, one to one, sums to the same.
LEMMA MatchedSums ==
    ASSUME NEW S, IsFiniteSet(S), NEW f, NEW c, Chooses(c, S), \A x \in S : f[x] \in Int,
           NEW g, Sums(g, S, f, c),
           NEW T, IsFiniteSet(T), NEW k, NEW d, Chooses(d, T), \A y \in T : k[y] \in Int,
           NEW h, Sums(h, T, k, d),
           NEW m \in [S -> T], \A x, y \in S : m[x] = m[y] => x = y,
           \A x \in S : f[x] = k[m[x]]
    PROVE  g[S] = h[{m[x] : x \in S}]
<1>1. /\ g[{}] = 0 /\ \A s \in SUBSET S : g[s] \in Int
      /\ \A s \in SUBSET S : \A x \in s : g[s] = f[x] + g[s \ {x}]
  BY SumsUnfold, SumsTakeOut
<1>2. /\ h[{}] = 0 /\ \A s \in SUBSET T : \A y \in s : h[s] = k[y] + h[s \ {y}]
  BY SumsUnfold, SumsTakeOut
<1> DEFINE Of(s) == {m[x] : x \in s}
           B == {s \in SUBSET S : g[s] # h[Of(s)]}
<1> SUFFICES ASSUME B # {} PROVE FALSE
  OBVIOUS
<1>3. PICK s \in B : \A t \in SUBSET s : t # s => t \notin B
  <2>1. B \in SUBSET (SUBSET S)
    OBVIOUS
  <2> HIDE DEF B
  <2>2. QED
    BY <2>1, SmallestSet
<1>4. s \in SUBSET S /\ g[s] # h[Of(s)]
  OBVIOUS
<1>5. s # {}
  <2>1. Of({}) = {}
    OBVIOUS
  <2> HIDE DEF Of, B
  <2>2. QED
    BY <1>1, <1>2, <1>4, <2>1
<1>6. PICK x \in s : TRUE
  BY <1>5
<1>7. Of(s \ {x}) = Of(s) \ {m[x]} /\ m[x] \in Of(s) /\ Of(s) \in SUBSET T
  BY <1>4
<1>8. g[s \ {x}] = h[Of(s \ {x})]
  <2>1. s \ {x} \notin B /\ s \ {x} \in SUBSET S
    BY <1>3, <1>4
  <2>2. QED
    BY <2>1
<1>9. f[x] = k[m[x]]
  BY <1>4
<1> HIDE DEF Of, B
<1>10. g[s] = f[x] + g[s \ {x}] /\ h[Of(s)] = k[m[x]] + h[Of(s) \ {m[x]}]
  BY <1>1, <1>2, <1>4, <1>7
<1>11. QED
  BY <1>4, <1>7, <1>8, <1>9, <1>10

-----------------------------------------------------------------------------
(* The sums of the library.                                                *)

First(S) == [s \in SUBSET S |-> CHOOSE x \in s : TRUE]

LEMMA FirstChooses == ASSUME NEW S PROVE Chooses(First(S), S)
BY Zenon DEF Chooses, First

LEMMA SumIsOne ==
    ASSUME NEW S, IsFiniteSet(S), NEW f
    PROVE  \E g : Sums(g, S, f, First(S)) /\ SumFunctionOnSet(f, S) = g[S]
<1> DEFINE Unfolds(g) ==
      g = [s \in SUBSET S |-> IF s = {} THEN 0
                              ELSE f[CHOOSE x \in s : TRUE] + g[s \ {CHOOSE x \in s : TRUE}]]
<1>1. \E g : Sums(g, S, f, First(S))
  BY FirstChooses, SumsExist
<1>2. \A h : Unfolds(h) <=> Sums(h, S, f, First(S))
  <2> TAKE h
  <2>1. \A s \in SUBSET S : First(S)[s] = CHOOSE x \in s : TRUE
    BY Zenon DEF First
  <2> DEFINE A == [s \in SUBSET S |-> IF s = {} THEN 0
                     ELSE f[CHOOSE x \in s : TRUE] + h[s \ {CHOOSE x \in s : TRUE}]]
             B == [s \in SUBSET S |-> IF s = {} THEN 0
                     ELSE f[First(S)[s]] + h[s \ {First(S)[s]}]]
  <2>2. \A s \in SUBSET S : A[s] = B[s]
    BY <2>1
  <2>3. A = B
    BY <2>2
  <2>4. QED
    BY <2>3, Zenon DEF Sums
<1>3. SumFunctionOnSet(f, S) = (CHOOSE h : Unfolds(h))[S]
  BY DEF SumFunctionOnSet, FoldFunctionOnSet, MapThenFoldSet
<1> HIDE DEF Unfolds
<1>4. \E h : Unfolds(h)
  BY <1>1, <1>2
<1>5. Unfolds(CHOOSE h : Unfolds(h))
  BY <1>4, Zenon
<1>6. QED
  BY <1>2, <1>3, <1>5, Zenon

LEMMA SumOfPart ==
    ASSUME NEW S, IsFiniteSet(S), NEW f, NEW g, Sums(g, S, f, First(S)), NEW T \in SUBSET S
    PROVE  SumFunctionOnSet(f, T) = g[T]
<1>1. IsFiniteSet(T)
  BY FS_Subset
<1>2. PICK h : Sums(h, T, f, First(T)) /\ SumFunctionOnSet(f, T) = h[T]
  BY <1>1, SumIsOne
<1>3. Sums(h, T, f, First(S))
  <2>1. \A s \in SUBSET T : First(T)[s] = First(S)[s]
    BY DEF First
  <2>2. [s \in SUBSET T |-> IF s = {} THEN 0 ELSE f[First(T)[s]] + h[s \ {First(T)[s]}]]
          = [s \in SUBSET T |-> IF s = {} THEN 0 ELSE f[First(S)[s]] + h[s \ {First(S)[s]}]]
    BY <2>1
  <2>3. QED
    BY <1>2, <2>2 DEF Sums
<1>4. g[T] = h[T]
  <2>1. Chooses(First(S), S)
    BY FirstChooses
  <2>2. QED
    BY <1>3, <2>1, SumsAgree
<1>5. QED
  BY <1>2, <1>4

\* What the sum of a finite set's numbers is, element by element.
LEMMA SumTakesOut ==
    ASSUME NEW S, IsFiniteSet(S), NEW f, \A x \in S : f[x] \in Int
    PROVE  /\ SumFunctionOnSet(f, {}) = 0
           /\ SumFunctionOnSet(f, S) \in Int
           /\ \A x \in S : SumFunctionOnSet(f, S) = f[x] + SumFunctionOnSet(f, S \ {x})
<1>1. PICK g : Sums(g, S, f, First(S))
  BY SumIsOne
<1>2. \A T \in SUBSET S : SumFunctionOnSet(f, T) = g[T]
  BY <1>1, SumOfPart
<1>3. /\ g[{}] = 0 /\ g[S] \in Int
      /\ \A x \in S : g[S] = f[x] + g[S \ {x}]
  BY <1>1, FirstChooses, SumsUnfold, SumsTakeOut
<1>4. QED
  BY <1>2, <1>3

LEMMA SumWith ==
    ASSUME NEW S, IsFiniteSet(S), NEW x, x \notin S, NEW f,
           \A y \in S \cup {x} : f[y] \in Int
    PROVE  SumFunctionOnSet(f, S \cup {x}) = f[x] + SumFunctionOnSet(f, S)
<1>1. IsFiniteSet(S \cup {x})
  BY FS_AddElement
<1>2. (S \cup {x}) \ {x} = S
  OBVIOUS
<1>3. QED
  BY <1>1, <1>2, SumTakesOut

LEMMA SumOfLess ==
    ASSUME NEW S, IsFiniteSet(S), NEW f, \A x \in S : f[x] \in Nat, NEW T \in SUBSET S
    PROVE  0 <= SumFunctionOnSet(f, T) /\ SumFunctionOnSet(f, T) <= SumFunctionOnSet(f, S)
<1>1. PICK g : Sums(g, S, f, First(S))
  BY SumIsOne
<1>2. SumFunctionOnSet(f, T) = g[T] /\ SumFunctionOnSet(f, S) = g[S]
  BY <1>1, SumOfPart
<1>3. 0 <= g[T] /\ g[T] <= g[S]
  BY <1>1, FirstChooses, PartSumsToLess
<1>4. QED
  BY <1>2, <1>3

LEMMA SumOfMatches ==
    ASSUME NEW S, IsFiniteSet(S), NEW f, \A x \in S : f[x] \in Int,
           NEW T, IsFiniteSet(T), NEW k, \A y \in T : k[y] \in Int,
           NEW m \in [S -> T], \A x, y \in S : m[x] = m[y] => x = y,
           \A x \in S : f[x] = k[m[x]]
    PROVE  SumFunctionOnSet(f, S) = SumFunctionOnSet(k, {m[x] : x \in S})
<1>1. PICK g : Sums(g, S, f, First(S)) /\ SumFunctionOnSet(f, S) = g[S]
  BY SumIsOne
<1>2. PICK h : Sums(h, T, k, First(T))
  BY SumIsOne
<1>3. {m[x] : x \in S} \in SUBSET T
  OBVIOUS
<1>4. SumFunctionOnSet(k, {m[x] : x \in S}) = h[{m[x] : x \in S}]
  BY <1>2, <1>3, SumOfPart
<1>5. g[S] = h[{m[x] : x \in S}]
  BY <1>1, <1>2, FirstChooses, MatchedSums
<1>6. QED
  BY <1>1, <1>4, <1>5

LEMMA SumOfSame ==
    ASSUME NEW S, IsFiniteSet(S), NEW f, NEW k, \A x \in S : f[x] \in Int /\ f[x] = k[x]
    PROVE  SumFunctionOnSet(f, S) = SumFunctionOnSet(k, S)
<1> DEFINE m == [x \in S |-> x]
<1>1. m \in [S -> S] /\ \A x \in S : m[x] = x
  OBVIOUS
<1>2. {m[x] : x \in S} = S
  OBVIOUS
<1> HIDE DEF m
<1>3. SumFunctionOnSet(f, S) = SumFunctionOnSet(k, {m[x] : x \in S})
  BY <1>1, SumOfMatches
<1>4. QED
  BY <1>2, <1>3

\* What finitely many elements are mapped to is finite.
LEMMA ImagesAreFinite ==
    ASSUME NEW S, IsFiniteSet(S), NEW key
    PROVE  IsFiniteSet({key[x] : x \in S})
<1> DEFINE f == [x \in S |-> key[x]]
           T == {key[x] : x \in S}
<1>1. f \in [S -> T] /\ \A t \in T : \E s \in S : f[s] = t
  OBVIOUS
<1> HIDE DEF f, T
<1>2. f \in Surjection(S, T)
  BY <1>1 DEF Surjection
<1>3. IsFiniteSet(T)
  BY <1>2, FS_Surjection
<1>4. QED
  BY <1>3 DEF T

LEMMA SumOfNone == ASSUME NEW f PROVE SumFunctionOnSet(f, {}) = 0
<1>1. IsFiniteSet({}) /\ \A x \in {} : f[x] \in Int
  BY FS_EmptySet
<1>2. QED
  BY <1>1, SumTakesOut

\* Two sets with nothing in common sum to the sum of their sums.
LEMMA SumOfUnion ==
    ASSUME NEW S, IsFiniteSet(S), NEW f, \A x \in S : f[x] \in Int,
           NEW T \in SUBSET S, NEW U \in SUBSET S, T \cap U = {}
    PROVE  SumFunctionOnSet(f, T \cup U)
             = SumFunctionOnSet(f, T) + SumFunctionOnSet(f, U)
<1>1. PICK g : Sums(g, S, f, First(S))
  BY SumIsOne
<1>2. \A V \in SUBSET S : SumFunctionOnSet(f, V) = g[V]
  BY <1>1, SumOfPart
<1>3. /\ g[{}] = 0 /\ \A s \in SUBSET S : g[s] \in Int
      /\ \A s \in SUBSET S : \A x \in s : g[s] = f[x] + g[s \ {x}]
  BY <1>1, FirstChooses, SumsUnfold, SumsTakeOut
<1> DEFINE B == {s \in SUBSET T : g[s \cup U] # g[s] + g[U]}
<1>4. ASSUME B # {} PROVE FALSE
  <2>1. PICK s \in B : \A t \in SUBSET s : t # s => t \notin B
    <3>1. IsFiniteSet(T) /\ B \in SUBSET (SUBSET T)
      BY FS_Subset
    <3> HIDE DEF B
    <3>2. QED
      BY <1>4, <3>1, SmallestSet
  <2>2. s \in SUBSET T /\ g[s \cup U] # g[s] + g[U]
    OBVIOUS
  <2>3. s # {}
    <3>1. {} \cup U = U /\ g[{}] + g[U] = g[U]
      BY <1>3
    <3> HIDE DEF B
    <3>2. QED
      BY <2>2, <3>1
  <2>4. PICK x \in s : TRUE
    BY <2>3
  <2>5. g[(s \ {x}) \cup U] = g[s \ {x}] + g[U]
    <3>1. s \ {x} \notin B /\ s \ {x} \in SUBSET T
      BY <2>1, <2>2, <2>4
    <3>2. QED
      BY <3>1
  <2> HIDE DEF B
  <2>6. (s \ {x}) \cup U = (s \cup U) \ {x} /\ x \in s \cup U /\ s \cup U \in SUBSET S /\ x \in S
    BY <2>2, <2>4
  <2>7. g[s] = f[x] + g[s \ {x}] /\ g[s \cup U] = f[x] + g[(s \ {x}) \cup U]
    BY <1>3, <2>2, <2>4, <2>6
  <2>8. f[x] \in Int /\ g[s \ {x}] \in Int /\ g[U] \in Int
    BY <1>3, <2>2, <2>6
  <2>9. QED
    BY <2>2, <2>5, <2>7, <2>8
<1>5. T \notin B
  BY <1>4
<1>6. QED
  BY <1>2, <1>5

\* A sum may be taken by a key: first of each key's numbers, then of the keys'.
LEMMA SumOfSums ==
    ASSUME NEW S, IsFiniteSet(S), NEW f, \A x \in S : f[x] \in Int,
           NEW K, IsFiniteSet(K), NEW key, \A x \in S : key[x] \in K,
           NEW of, \A k \in K : of[k] = {x \in S : key[x] = k},
           NEW part, \A k \in K : part[k] = SumFunctionOnSet(f, of[k])
    PROVE  SumFunctionOnSet(part, K) = SumFunctionOnSet(f, S)
<1> DEFINE Of(L) == {x \in S : key[x] \in L}
<1>1. \A T \in SUBSET S : SumFunctionOnSet(f, T) \in Int
  <2> TAKE T \in SUBSET S
  <2>1. IsFiniteSet(T)
    BY FS_Subset
  <2>2. QED
    BY <2>1, SumTakesOut
<1>2. \A k \in K : part[k] \in Int
  <2> TAKE k \in K
  <2>1. of[k] \in SUBSET S
    OBVIOUS
  <2>2. QED
    BY <1>1, <2>1
<1>3. SumFunctionOnSet(part, {}) = 0
  BY SumOfNone
<1>4. ASSUME NEW L \in SUBSET K, NEW k \in L
      PROVE  SumFunctionOnSet(part, L) = part[k] + SumFunctionOnSet(part, L \ {k})
  <2>1. IsFiniteSet(L) /\ \A x \in L : part[x] \in Int
    BY <1>2, FS_Subset
  <2>2. \A x \in L : SumFunctionOnSet(part, L) = part[x] + SumFunctionOnSet(part, L \ {x})
    BY Zenon, <2>1, SumTakesOut
  <2>3. QED
    BY <2>2
<1> DEFINE B == {L \in SUBSET K : SumFunctionOnSet(part, L) # SumFunctionOnSet(f, Of(L))}
<1>5. ASSUME B # {} PROVE FALSE
  <2>1. PICK L \in B : \A t \in SUBSET L : t # L => t \notin B
    <3>1. B \in SUBSET (SUBSET K)
      OBVIOUS
    <3> HIDE DEF B
    <3>2. QED
      BY <1>5, <3>1, SmallestSet
  <2>2. L \in SUBSET K /\ SumFunctionOnSet(part, L) # SumFunctionOnSet(f, Of(L))
    OBVIOUS
  <2>3. L # {}
    <3>1. Of({}) = {} /\ SumFunctionOnSet(f, {}) = 0
      BY SumOfNone
    <3> HIDE DEF B, Of
    <3>2. QED
      BY <1>3, <2>2, <3>1
  <2>4. PICK k \in L : TRUE
    BY <2>3
  <2>5. SumFunctionOnSet(part, L \ {k}) = SumFunctionOnSet(f, Of(L \ {k}))
    <3>1. L \ {k} \notin B /\ L \ {k} \in SUBSET K
      BY <2>1, <2>2, <2>4
    <3>2. QED
      BY <3>1
  <2>6. /\ Of(L) = of[k] \cup Of(L \ {k}) /\ of[k] \cap Of(L \ {k}) = {}
        /\ of[k] \in SUBSET S /\ Of(L \ {k}) \in SUBSET S
    BY <2>4
  <2>7. part[k] = SumFunctionOnSet(f, of[k])
    BY <2>2, <2>4
  <2> HIDE DEF B
  <2>8. SumFunctionOnSet(f, Of(L))
          = SumFunctionOnSet(f, of[k]) + SumFunctionOnSet(f, Of(L \ {k}))
    <3> DEFINE A == of[k]
               C == Of(L \ {k})
    <3>1. A \in SUBSET S /\ C \in SUBSET S /\ A \cap C = {} /\ Of(L) = A \cup C
      BY <2>6
    <3> HIDE DEF A, C, Of
    <3>2. SumFunctionOnSet(f, A \cup C) = SumFunctionOnSet(f, A) + SumFunctionOnSet(f, C)
      BY <3>1, SumOfUnion
    <3>3. QED
      BY <3>1, <3>2 DEF A, C
  <2>9. SumFunctionOnSet(part, L) = part[k] + SumFunctionOnSet(part, L \ {k})
    BY <1>4, <2>2, <2>4
  <2> HIDE DEF Of
  <2>10. QED
    BY <2>2, <2>5, <2>7, <2>8, <2>9
<1>6. K \notin B
  BY <1>5
<1>7. Of(K) = S
  OBVIOUS
<1>8. QED
  BY <1>6, <1>7
=============================================================================
