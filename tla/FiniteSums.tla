----------------------------- MODULE FiniteSums -----------------------------
(***************************************************************************)
(* What a sum over a finite set, added up in some order as MapThenSumSet    *)
(* does, comes to in any order.  A sum is the last entry of a table of the  *)
(* sums over the subsets.  Each lemma that needs induction takes a smallest *)
(* counterexample instead: there is one, for strict inclusion is well       *)
(* founded on finite sets.                                                  *)
(***************************************************************************)
EXTENDS Integers, FiniteSets, FiniteSetTheorems, TLAPS

AnyOf(s) == CHOOSE x \in s : TRUE

\* g tabulates the sums of f over the subsets of S.
Tabulates(g, f, S) ==
    g = [s \in SUBSET S |-> IF s = {} THEN 0 ELSE f[AnyOf(s)] + g[s \ {AnyOf(s)}]]

SumOver(f, S) == (CHOOSE g : Tabulates(g, f, S))[S]

\* A set of finite sets that is not empty has a smallest one.
LEMMA SmallestSet ==
  ASSUME NEW S, IsFiniteSet(S), NEW Bad \in SUBSET (SUBSET S), Bad # {}
  PROVE  \E T \in Bad : \A R \in SUBSET T : R # T => R \notin Bad
<1> DEFINE Ord == StrictSubsetOrdering(S)
<1>1. IsWellFoundedOn(Ord, SUBSET S)
  BY FS_StrictSubsetOrderingWellFounded, FS_FiniteSubsetsOfFinite
<1> HIDE DEF Ord
<1>2. PICK T \in Bad : \A R \in Bad : <<R, T>> \notin Ord
  BY <1>1, WFMin
<1>3. ASSUME NEW R \in SUBSET T, R # T, R \in Bad PROVE FALSE
  <2>1. <<R, T>> \in Ord
    BY <1>3 DEF StrictSubsetOrdering, Ord
  <2> QED
    BY <1>2, <1>3, <2>1
<1> QED
  BY <1>2, <1>3

LEMMA AnyIn == ASSUME NEW S, S # {} PROVE AnyOf(S) \in S
  BY DEF AnyOf

\* Tables agree wherever they overlap.
LEMMA TablesAgree ==
  ASSUME NEW S, NEW T, IsFiniteSet(S), NEW f, NEW g, NEW h,
         Tabulates(g, f, S), Tabulates(h, f, T)
  PROVE  \A s \in SUBSET (S \cap T) : g[s] = h[s]
<1> DEFINE Bad == {s \in SUBSET (S \cap T) : g[s] # h[s]}
<1> SUFFICES ASSUME Bad # {} PROVE FALSE
  OBVIOUS
<1>1. PICK s \in Bad : \A R \in SUBSET s : R # s => R \notin Bad
  <2>1. Bad \in SUBSET (SUBSET S)
    OBVIOUS
  <2> HIDE DEF Bad
  <2> QED
    BY <2>1, SmallestSet
<1>2. s # {}
  BY DEF Tabulates
<1>3. AnyOf(s) \in s
  BY <1>2, AnyIn
<1>4. s \ {AnyOf(s)} \in SUBSET (S \cap T) /\ g[s \ {AnyOf(s)}] = h[s \ {AnyOf(s)}]
  BY <1>1, <1>3
<1>5. g[s] = f[AnyOf(s)] + g[s \ {AnyOf(s)}] /\ h[s] = f[AnyOf(s)] + h[s \ {AnyOf(s)}]
  BY <1>2 DEF Tabulates
<1> QED
  BY <1>4, <1>5

\* There is a table.
LEMMA TableExists ==
  ASSUME NEW S, IsFiniteSet(S), NEW f
  PROVE  \E g : Tabulates(g, f, S)
<1> DEFINE Bad == {s \in SUBSET S : ~\E g : Tabulates(g, f, s)}
<1> SUFFICES ASSUME Bad # {} PROVE FALSE
  OBVIOUS
<1>1. PICK T \in Bad : \A R \in SUBSET T : R # T => R \notin Bad
  <2> HIDE DEF Bad
  <2>1. Bad \in SUBSET (SUBSET S)
    BY DEF Bad
  <2> QED
    BY <2>1, SmallestSet
<1> DEFINE Table(s) == CHOOSE g : Tabulates(g, f, s)
           Val(s) == Table(s)[s]
           New == [s \in SUBSET T |-> IF s = {} THEN 0 ELSE f[AnyOf(s)] + Val(s \ {AnyOf(s)})]
<1>2. \A s \in SUBSET T : s # T => Tabulates(Table(s), f, s)
  BY <1>1
<1> HIDE DEF Table
<1>3. ASSUME NEW s \in SUBSET T, s # {}
      PROVE  New[s \ {AnyOf(s)}] = Val(s \ {AnyOf(s)})
  <2> DEFINE r == s \ {AnyOf(s)}
  <2>1. r \in SUBSET T /\ r # T
    BY <1>3, AnyIn
  <2>2. Tabulates(Table(r), f, r) /\ IsFiniteSet(r)
    BY <1>2, <2>1, FS_Subset
  <2>3. CASE r = {}
    BY <2>1, <2>2, <2>3 DEF Tabulates
  <2>4. CASE r # {}
    <3>1. AnyOf(r) \in r
      BY <2>4, AnyIn
    <3> DEFINE q == r \ {AnyOf(r)}
    <3>2. q \in SUBSET T /\ q # T /\ q \in SUBSET r
      BY <2>1, <3>1
    <3>3. Tabulates(Table(q), f, q)
      BY <1>2, <3>2
    <3>4. Table(r)[q] = Table(q)[q]
      BY <2>2, <3>2, <3>3, TablesAgree
    <3>5. Table(r)[r] = f[AnyOf(r)] + Table(r)[q]
      BY <2>2, <2>4 DEF Tabulates
    <3>6. New[r] = f[AnyOf(r)] + Val(q)
      BY <2>1, <2>4
    <3> QED
      BY <3>4, <3>5, <3>6
  <2> QED
    BY <2>3, <2>4
<1>4. Tabulates(New, f, T)
  BY <1>3 DEF Tabulates
<1> QED
  BY <1>4
-----------------------------------------------------------------------------
\* The sum over nothing, and over something by one of its elements.
LEMMA SumUnfolds ==
  ASSUME NEW S, IsFiniteSet(S), NEW f
  PROVE  /\ SumOver(f, {}) = 0
         /\ S # {} => SumOver(f, S) = f[AnyOf(S)] + SumOver(f, S \ {AnyOf(S)})
<1> DEFINE Table(s) == CHOOSE g : Tabulates(g, f, s)
<1>1. \A s \in SUBSET S : Tabulates(Table(s), f, s)
  <2> TAKE s \in SUBSET S
  <2>1. \E g : Tabulates(g, f, s)
    BY FS_Subset, TableExists
  <2> QED
    BY <2>1
<1>2. \A s : SumOver(f, s) = Table(s)[s]
  BY DEF SumOver
<1> HIDE DEF Table
<1>3. SumOver(f, {}) = 0
  BY <1>1, <1>2 DEF Tabulates
<1>4. ASSUME S # {} PROVE SumOver(f, S) = f[AnyOf(S)] + SumOver(f, S \ {AnyOf(S)})
  <2> DEFINE r == S \ {AnyOf(S)}
  <2>1. Table(S)[S] = f[AnyOf(S)] + Table(S)[r]
    BY <1>1, <1>4 DEF Tabulates
  <2>2. Table(S)[r] = Table(r)[r]
    BY <1>1, TablesAgree
  <2> QED
    BY <1>2, <2>1, <2>2
<1> QED
  BY <1>3, <1>4

\* Every table of the sums ends in the sum.
LEMMA SumTabulated ==
  ASSUME NEW S, IsFiniteSet(S), NEW f, NEW g, Tabulates(g, f, S)
  PROVE  g[S] = SumOver(f, S)
<1> DEFINE Table == CHOOSE h : Tabulates(h, f, S)
<1>1. Tabulates(Table, f, S)
  OBVIOUS
<1> HIDE DEF Table
<1>2. g[S] = Table[S]
  BY <1>1, TablesAgree
<1> QED
  BY <1>2 DEF SumOver, Table

\* A sum of integers is one.
LEMMA SumType ==
  ASSUME NEW S, IsFiniteSet(S), NEW f, \A x \in S : f[x] \in Int
  PROVE  /\ SumOver(f, S) \in Int
         /\ (\A x \in S : f[x] >= 0) => SumOver(f, S) >= 0
<1> DEFINE Good(s) == /\ SumOver(f, s) \in Int
                      /\ (\A x \in S : f[x] >= 0) => SumOver(f, s) >= 0
           Bad == {s \in SUBSET S : ~Good(s)}
<1> SUFFICES ASSUME Bad # {} PROVE FALSE
  OBVIOUS
<1>1. PICK T \in Bad : \A R \in SUBSET T : R # T => R \notin Bad
  <2> HIDE DEF Bad
  <2>1. Bad \in SUBSET (SUBSET S)
    BY DEF Bad
  <2> QED
    BY <2>1, SmallestSet
<1>2. IsFiniteSet(T)
  BY FS_Subset
<1>3. T # {}
  <2> SUFFICES ASSUME T = {} PROVE FALSE
    OBVIOUS
  <2>1. SumOver(f, T) = 0
    BY <1>2, SumUnfolds
  <2> QED
    BY <2>1
<1>4. AnyOf(T) \in T /\ Good(T \ {AnyOf(T)})
  BY <1>1, <1>3, AnyIn
<1>5. SumOver(f, T) = f[AnyOf(T)] + SumOver(f, T \ {AnyOf(T)}) /\ f[AnyOf(T)] \in Int
  BY <1>2, <1>3, <1>4, SumUnfolds
<1> QED
  BY <1>4, <1>5

\* Whichever element is taken out, it makes up the rest: the order does not matter.
LEMMA SumRemove ==
  ASSUME NEW S, IsFiniteSet(S), NEW f, \A x \in S : f[x] \in Int
  PROVE  \A x \in S : SumOver(f, S) = f[x] + SumOver(f, S \ {x})
<1> DEFINE Good(s) == \A x \in s : SumOver(f, s) = f[x] + SumOver(f, s \ {x})
           Bad == {s \in SUBSET S : ~Good(s)}
<1> SUFFICES ASSUME Bad # {} PROVE FALSE
  OBVIOUS
<1>1. PICK T \in Bad : \A R \in SUBSET T : R # T => R \notin Bad
  <2> HIDE DEF Bad
  <2>1. Bad \in SUBSET (SUBSET S)
    BY DEF Bad
  <2> QED
    BY <2>1, SmallestSet
<1>2. \A s \in SUBSET S : IsFiniteSet(s) /\ SumOver(f, s) \in Int
  <2> TAKE s \in SUBSET S
  <2>1. IsFiniteSet(s)
    BY FS_Subset
  <2> QED
    BY <2>1, SumType
<1>3. PICK x \in T : SumOver(f, T) # f[x] + SumOver(f, T \ {x})
  OBVIOUS
<1> DEFINE y == AnyOf(T)
<1>4. y \in T /\ SumOver(f, T) = f[y] + SumOver(f, T \ {y})
  BY <1>2, AnyIn, SumUnfolds
<1>5. x # y
  BY <1>3, <1>4
<1>6. Good(T \ {y}) /\ Good(T \ {x})
  BY <1>1, <1>4
<1>7. /\ SumOver(f, T \ {y}) = f[x] + SumOver(f, (T \ {y}) \ {x})
      /\ SumOver(f, T \ {x}) = f[y] + SumOver(f, (T \ {x}) \ {y})
  BY <1>4, <1>5, <1>6
<1>8. (T \ {y}) \ {x} = (T \ {x}) \ {y}
  OBVIOUS
<1>9. /\ f[x] \in Int /\ f[y] \in Int /\ SumOver(f, (T \ {x}) \ {y}) \in Int
      /\ SumOver(f, T \ {x}) \in Int /\ SumOver(f, T \ {y}) \in Int
  BY <1>2, <1>4
<1>10. SumOver(f, T) = f[y] + (f[x] + SumOver(f, (T \ {x}) \ {y}))
  BY <1>4, <1>7, <1>8
<1>11. SumOver(f, T) = f[x] + (f[y] + SumOver(f, (T \ {x}) \ {y}))
  BY <1>9, <1>10
<1> QED
  BY <1>3, <1>7, <1>11

\* Adding an element adds its term.
LEMMA SumAdd ==
  ASSUME NEW S, IsFiniteSet(S), NEW x, x \notin S, NEW f, \A y \in S \cup {x} : f[y] \in Int
  PROVE  SumOver(f, S \cup {x}) = f[x] + SumOver(f, S)
<1>1. IsFiniteSet(S \cup {x}) /\ (S \cup {x}) \ {x} = S
  BY FS_AddElement
<1> QED
  BY <1>1, SumRemove

\* Terms outside the set do not count.
LEMMA SumAgree ==
  ASSUME NEW S, IsFiniteSet(S), NEW f, NEW h, \A x \in S : f[x] = h[x]
  PROVE  SumOver(f, S) = SumOver(h, S)
<1> DEFINE Bad == {s \in SUBSET S : SumOver(f, s) # SumOver(h, s)}
<1> SUFFICES ASSUME Bad # {} PROVE FALSE
  OBVIOUS
<1>1. PICK T \in Bad : \A R \in SUBSET T : R # T => R \notin Bad
  <2> HIDE DEF Bad
  <2>1. Bad \in SUBSET (SUBSET S)
    BY DEF Bad
  <2> QED
    BY <2>1, SmallestSet
<1>2. IsFiniteSet(T)
  BY FS_Subset
<1>3. T # {}
  BY <1>2, SumUnfolds
<1>4. AnyOf(T) \in T /\ SumOver(f, T \ {AnyOf(T)}) = SumOver(h, T \ {AnyOf(T)})
  BY <1>1, <1>3, AnyIn
<1> QED
  BY <1>2, <1>3, <1>4, SumUnfolds

\* A sum of nothing negative is no less than a part of it.
LEMMA SumGrows ==
  ASSUME NEW S, IsFiniteSet(S), NEW R \in SUBSET S, NEW f, \A x \in S : f[x] \in Nat
  PROVE  SumOver(f, R) <= SumOver(f, S)
<1> DEFINE Bad == {s \in SUBSET S : R \subseteq s /\ ~(SumOver(f, R) <= SumOver(f, s))}
<1> SUFFICES ASSUME Bad # {} PROVE FALSE
  OBVIOUS
<1>1. PICK T \in Bad : \A s \in SUBSET T : s # T => s \notin Bad
  <2> HIDE DEF Bad
  <2>1. Bad \in SUBSET (SUBSET S)
    BY DEF Bad
  <2> QED
    BY <2>1, SmallestSet
<1>2. \A s \in SUBSET S : IsFiniteSet(s) /\ SumOver(f, s) \in Int
  <2> TAKE s \in SUBSET S
  <2>1. IsFiniteSet(s)
    BY FS_Subset
  <2> QED
    BY <2>1, SumType
<1>3. PICK x \in T : x \notin R
  <2>1. T # R
    BY <1>2
  <2> QED
    BY <2>1
<1>4. SumOver(f, R) <= SumOver(f, T \ {x})
  BY <1>1, <1>3
<1>5. SumOver(f, T) = f[x] + SumOver(f, T \ {x})
  <2>1. IsFiniteSet(T) /\ \A y \in T : f[y] \in Int
    BY <1>2
  <2> QED
    BY <1>3, <2>1, SumRemove
<1> QED
  BY <1>2, <1>4, <1>5

\* The sum of two tables, entry by entry, is the sum of their sums.
LEMMA SumPlus ==
  ASSUME NEW S, IsFiniteSet(S), NEW f, NEW g, NEW h,
         \A x \in S : f[x] \in Int /\ g[x] \in Int /\ h[x] = f[x] + g[x]
  PROVE  SumOver(h, S) = SumOver(f, S) + SumOver(g, S)
<1> DEFINE Bad == {s \in SUBSET S : SumOver(h, s) # SumOver(f, s) + SumOver(g, s)}
<1> SUFFICES ASSUME Bad # {} PROVE FALSE
  OBVIOUS
<1>1. PICK T \in Bad : \A R \in SUBSET T : R # T => R \notin Bad
  <2> HIDE DEF Bad
  <2>1. Bad \in SUBSET (SUBSET S)
    BY DEF Bad
  <2> QED
    BY <2>1, SmallestSet
<1>2. \A s \in SUBSET S : IsFiniteSet(s) /\ SumOver(f, s) \in Int /\ SumOver(g, s) \in Int
  <2> TAKE s \in SUBSET S
  <2>1. IsFiniteSet(s)
    BY FS_Subset
  <2> QED
    BY <2>1, SumType
<1>3. T # {}
  <2> SUFFICES ASSUME T = {} PROVE FALSE
    OBVIOUS
  <2>1. SumOver(h, T) = 0 /\ SumOver(f, T) = 0 /\ SumOver(g, T) = 0
    BY <1>2, SumUnfolds
  <2> QED
    BY <2>1
<1> DEFINE y == AnyOf(T)
<1>4. y \in T /\ SumOver(h, T \ {y}) = SumOver(f, T \ {y}) + SumOver(g, T \ {y})
  BY <1>1, <1>3, AnyIn
<1>5. /\ SumOver(h, T) = h[y] + SumOver(h, T \ {y}) /\ SumOver(f, T) = f[y] + SumOver(f, T \ {y})
      /\ SumOver(g, T) = g[y] + SumOver(g, T \ {y})
  BY <1>2, <1>3, SumUnfolds
<1>6. /\ SumOver(f, T \ {y}) \in Int /\ SumOver(g, T \ {y}) \in Int
      /\ f[y] \in Int /\ g[y] \in Int /\ h[y] = f[y] + g[y]
  BY <1>2, <1>4
<1>7. SumOver(h, T) = SumOver(f, T) + SumOver(g, T)
  <2> HIDE DEF y, Bad
  <2> QED
    BY <1>4, <1>5, <1>6
<1> QED
  BY <1>7

\* A sum over two sets that share nothing is the sum of the two.
LEMMA SumDisjoint ==
  ASSUME NEW A, IsFiniteSet(A), NEW B, IsFiniteSet(B), A \cap B = {}, NEW f,
         \A x \in A \cup B : f[x] \in Int
  PROVE  SumOver(f, A \cup B) = SumOver(f, A) + SumOver(f, B)
<1> DEFINE Bad == {s \in SUBSET B : SumOver(f, A \cup s) # SumOver(f, A) + SumOver(f, s)}
<1> SUFFICES ASSUME Bad # {} PROVE FALSE
  OBVIOUS
<1>1. PICK T \in Bad : \A R \in SUBSET T : R # T => R \notin Bad
  <2> HIDE DEF Bad
  <2>1. Bad \in SUBSET (SUBSET B)
    BY DEF Bad
  <2> QED
    BY <2>1, SmallestSet
<1>2. /\ IsFiniteSet(A \cup T) /\ IsFiniteSet(T)
      /\ SumOver(f, A) \in Int /\ \A s \in SUBSET T : SumOver(f, s) \in Int
  <2>1. IsFiniteSet(T)
    BY FS_Subset
  <2>2. IsFiniteSet(A \cup T)
    BY <2>1, FS_Union
  <2>3. SumOver(f, A) \in Int
    BY SumType
  <2>4. ASSUME NEW s \in SUBSET T PROVE SumOver(f, s) \in Int
    <3>1. IsFiniteSet(s) /\ \A x \in s : f[x] \in Int
      BY <2>1, FS_Subset
    <3> QED
      BY <3>1, SumType
  <2> QED
    BY <2>1, <2>2, <2>3, <2>4
<1>3. PICK x \in T : TRUE
  <2>1. T # {}
    <3> SUFFICES ASSUME T = {} PROVE FALSE
      OBVIOUS
    <3>1. SumOver(f, T) = 0 /\ A \cup T = A
      BY <1>2, SumUnfolds
    <3> QED
      BY <1>2, <3>1
  <2> QED
    BY <2>1
<1>4. SumOver(f, A \cup (T \ {x})) = SumOver(f, A) + SumOver(f, T \ {x})
  BY <1>1
<1>5. SumOver(f, T) = f[x] + SumOver(f, T \ {x})
  <2>1. \A y \in T : f[y] \in Int
    OBVIOUS
  <2> QED
    BY <1>2, <2>1, SumRemove
<1>6. SumOver(f, A \cup T) = f[x] + SumOver(f, A \cup (T \ {x}))
  <2>1. (\A y \in A \cup T : f[y] \in Int) /\ (A \cup T) \ {x} = A \cup (T \ {x})
    OBVIOUS
  <2>2. SumOver(f, A \cup T) = f[x] + SumOver(f, (A \cup T) \ {x})
    BY <1>2, <2>1, SumRemove
  <2> QED
    BY <2>1, <2>2
<1>7. f[x] \in Int /\ SumOver(f, T \ {x}) \in Int
  BY <1>2
<1>8. SumOver(f, A \cup T) = SumOver(f, A) + SumOver(f, T)
  <2> HIDE DEF Bad
  <2> QED
    BY <1>2, <1>4, <1>5, <1>6, <1>7
<1> QED
  BY <1>8

\* A sum of nothing but zeros, and of one term beside them.
LEMMA SumZero ==
  ASSUME NEW S, IsFiniteSet(S), NEW f, \A x \in S : f[x] = 0
  PROVE  SumOver(f, S) = 0
<1> DEFINE Bad == {s \in SUBSET S : SumOver(f, s) # 0}
<1> SUFFICES ASSUME Bad # {} PROVE FALSE
  OBVIOUS
<1>1. PICK T \in Bad : \A R \in SUBSET T : R # T => R \notin Bad
  <2> HIDE DEF Bad
  <2>1. Bad \in SUBSET (SUBSET S)
    BY DEF Bad
  <2> QED
    BY <2>1, SmallestSet
<1>2. IsFiniteSet(T)
  BY FS_Subset
<1>3. T # {}
  BY <1>2, SumUnfolds
<1>4. AnyOf(T) \in T /\ SumOver(f, T \ {AnyOf(T)}) = 0
  BY <1>1, <1>3, AnyIn
<1> QED
  BY <1>2, <1>3, <1>4, SumUnfolds

LEMMA SumSingle ==
  ASSUME NEW S, IsFiniteSet(S), NEW f, NEW x \in S, f[x] \in Int, \A y \in S \ {x} : f[y] = 0
  PROVE  SumOver(f, S) = f[x]
<1>1. IsFiniteSet(S \ {x})
  BY FS_RemoveElement
<1>2. SumOver(f, S \ {x}) = 0
  BY <1>1, SumZero
<1>3. SumOver(f, S) = f[x] + SumOver(f, S \ {x})
  BY SumRemove
<1> QED
  BY <1>2, <1>3
=============================================================================
