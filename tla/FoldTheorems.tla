----------------------------- MODULE FoldTheorems -----------------------------
(***************************************************************************)
(* Induction and folds over finite sets, for the proofs about counts and   *)
(* sums.  A property of numbers or of subsets is given as the set of those *)
(* that have it, so that the lemmas can be instantiated by every prover.   *)
(***************************************************************************)
EXTENDS FiniteSetTheorems, SequenceTheorems, SequencesExt, Subsequences, TLAPS

-----------------------------------------------------------------------------
(* Induction. *)

\* A set of natural numbers has a least one.
LEMMA LeastNatural ==
  ASSUME NEW T, T \subseteq Nat, T # {}
  PROVE  \E n \in T : \A m \in T : n <= m
<1> DEFINE R == {p \in Nat \X Nat : p[1] < p[2]}
<1>1. IsWellFoundedOn(R, Nat)
  BY NatLessThanWellFounded DEF OpToRel
<1>2. PICK n \in T : \A m \in T : <<m, n>> \notin R
  <2> HIDE DEF R
  <2> QED
    BY <1>1, WFMin
<1>3. \A m \in T : ~(m < n)
  BY <1>2
<1> QED
  BY <1>3

\* A set that holds 0 and the successor of each of its numbers holds every number.
LEMMA NaturalsByInduction ==
  ASSUME NEW P, 0 \in P, \A n \in Nat : n \in P => n + 1 \in P
  PROVE  Nat \subseteq P
<1> SUFFICES ASSUME Nat \ P # {} PROVE FALSE
  OBVIOUS
<1>1. PICK n \in Nat \ P : \A m \in Nat \ P : n <= m
  BY LeastNatural
<1>2. n - 1 \in Nat /\ ~(n <= n - 1) /\ (n - 1) + 1 = n
  BY <1>1
<1> QED
  BY <1>1, <1>2

\* A set of subsets of a finite set that holds the empty one, and each subset that is
\* larger by one element than one that it holds, holds them all.
LEMMA SubsetsByInduction ==
  ASSUME NEW S, IsFiniteSet(S), NEW P, {} \in P,
         \A s \in SUBSET S : \A x \in S \ s : s \in P => s \cup {x} \in P
  PROVE  SUBSET S \subseteq P
<1> DEFINE N == {n \in Nat : \A s \in SUBSET S : Cardinality(s) = n => s \in P}
<1>1. \A s \in SUBSET S : IsFiniteSet(s) /\ Cardinality(s) \in Nat
  BY FS_Subset, FS_CardinalityType
<1>2. 0 \in N
  BY <1>1, FS_EmptySet
<1>3. ASSUME NEW n \in Nat, n \in N PROVE n + 1 \in N
  <2> SUFFICES ASSUME NEW s \in SUBSET S, Cardinality(s) = n + 1 PROVE s \in P
    OBVIOUS
  <2>0. s # {}
    <3>1. Cardinality({}) # n + 1
      BY FS_EmptySet
    <3> QED
      BY <3>1
  <2>1. PICK x \in s : TRUE
    BY <2>0
  <2>2. Cardinality(s \ {x}) = n
    <3>1. Cardinality(s \ {x}) = Cardinality(s) - 1
      BY <1>1, <2>1, FS_RemoveElement
    <3> QED
      BY <3>1
  <2>3. s \ {x} \in P /\ (s \ {x}) \cup {x} = s
    BY <1>3, <2>1, <2>2
  <2> QED
    BY <2>3
<1>4. Nat \subseteq N
  <2> HIDE DEF N
  <2> QED
    BY <1>2, <1>3, NaturalsByInduction
<1> QED
  BY <1>1, <1>4

-----------------------------------------------------------------------------
(* Folds: pick gives the element of a subset that is folded last, and step what it makes *)
(* of the value folded so far. *)

IsFold(g, S, base, pick, step) ==
  \A s \in SUBSET S : g[s] = IF s = {} THEN base ELSE step[<<pick[s], g[s \ {pick[s]}]>>]

\* The recursive function that defines a fold exists.
LEMMA FoldExists ==
  ASSUME NEW S, IsFiniteSet(S), NEW V, NEW base \in V,
         NEW pick, \A s \in SUBSET S : s # {} => pick[s] \in s,
         NEW step \in [S \X V -> V]
  PROVE  \E g \in [SUBSET S -> V] : IsFold(g, S, base, pick, step)
<1> DEFINE Upto(n) == {s \in SUBSET S : Cardinality(s) <= n}
           Value(g, s) == IF s = {} THEN base ELSE step[<<pick[s], g[s \ {pick[s]}]>>]
           N == {n \in Nat : \E g \in [Upto(n) -> V] : \A s \in Upto(n) : g[s] = Value(g, s)}
<1>1. \A s \in SUBSET S : IsFiniteSet(s) /\ Cardinality(s) \in Nat
  BY FS_Subset, FS_CardinalityType
<1>2. \A s \in SUBSET S : s # {} => /\ pick[s] \in S
                                    /\ s \ {pick[s]} \in SUBSET S
                                    /\ Cardinality(s \ {pick[s]}) = Cardinality(s) - 1
  BY <1>1, FS_RemoveElement
<1>3. 0 \in N
  <2>1. \A s \in Upto(0) : s = {}
    <3>1. \A n \in Nat : n <= 0 => n = 0
      OBVIOUS
    <3> QED
      BY <1>1, <3>1, FS_EmptySet
  <2>2. [s \in Upto(0) |-> base] \in [Upto(0) -> V]
    OBVIOUS
  <2>3. \A s \in Upto(0) : [t \in Upto(0) |-> base][s] = Value([t \in Upto(0) |-> base], s)
    BY <2>1
  <2> HIDE DEF Value, Upto
  <2> QED
    BY <2>2, <2>3
<1>4. ASSUME NEW n \in Nat, n \in N PROVE n + 1 \in N
  <2>1. PICK g \in [Upto(n) -> V] : \A s \in Upto(n) : g[s] = Value(g, s)
    BY <1>4
  <2> DEFINE h == [s \in Upto(n + 1) |-> Value(g, s)]
  <2>2. \A s \in Upto(n + 1) : s # {} => s \ {pick[s]} \in Upto(n) /\ pick[s] \in S
    <3> SUFFICES ASSUME NEW s \in Upto(n + 1), s # {}
                 PROVE  s \ {pick[s]} \in Upto(n) /\ pick[s] \in S
      OBVIOUS
    <3>1. \A k \in Nat : k <= n + 1 => k - 1 <= n
      OBVIOUS
    <3> QED
      BY <1>1, <1>2, <3>1
  <2>3. \A s \in Upto(n) : s \in Upto(n + 1)
    <3>1. \A k \in Nat : k <= n => k <= n + 1
      OBVIOUS
    <3> QED
      BY <1>1, <3>1
  <2>4. \A s \in Upto(n + 1) : Value(g, s) \in V
    BY <2>1, <2>2
  <2>5. h \in [Upto(n + 1) -> V]
    BY <2>4
  <2>6. \A s \in Upto(n) : h[s] = g[s]
    BY <2>1, <2>3
  <2>7. \A s \in Upto(n + 1) : h[s] = Value(h, s)
    <3> SUFFICES ASSUME NEW s \in Upto(n + 1) PROVE Value(g, s) = Value(h, s)
      OBVIOUS
    <3>1. s # {} => h[s \ {pick[s]}] = g[s \ {pick[s]}]
      BY <2>2, <2>6
    <3> HIDE DEF h
    <3> QED
      BY <3>1
  <2> HIDE DEF h, Value, Upto
  <2> QED
    BY <2>5, <2>7
<1>5. Cardinality(S) \in N
  <2> HIDE DEF N
  <2>1. Nat \subseteq N
    BY <1>3, <1>4, NaturalsByInduction
  <2> QED
    BY <1>1, <2>1
<1>6. Upto(Cardinality(S)) = SUBSET S
  BY FS_Subset
<1> QED
  BY <1>5, <1>6 DEF IsFold

\* What every step of a fold keeps is true of the whole.
LEMMA FoldKeeps ==
  ASSUME NEW S, IsFiniteSet(S), NEW V, NEW g, NEW pick, g[{}] \in V,
         \A s \in SUBSET S :
           s # {} => pick[s] \in s /\ (g[s \ {pick[s]}] \in V => g[s] \in V)
  PROVE  g[S] \in V
<1> DEFINE N == {n \in Nat : \A s \in SUBSET S : Cardinality(s) = n => g[s] \in V}
<1>1. \A s \in SUBSET S : IsFiniteSet(s) /\ Cardinality(s) \in Nat
  BY FS_Subset, FS_CardinalityType
<1>2. 0 \in N
  BY <1>1, FS_EmptySet
<1>3. ASSUME NEW n \in Nat, n \in N PROVE n + 1 \in N
  <2> SUFFICES ASSUME NEW s \in SUBSET S, Cardinality(s) = n + 1 PROVE g[s] \in V
    OBVIOUS
  <2>1. s # {}
    BY FS_EmptySet
  <2>2. pick[s] \in s /\ s \ {pick[s]} \in SUBSET S
    BY <2>1
  <2>3. Cardinality(s \ {pick[s]}) = n
    BY <1>1, <2>2, FS_RemoveElement
  <2> QED
    BY <1>3, <2>1, <2>2, <2>3
<1>4. Cardinality(S) \in N
  <2> HIDE DEF N
  <2>1. Nat \subseteq N
    BY <1>2, <1>3, NaturalsByInduction
  <2> QED
    BY <1>1, <2>1
<1> QED
  BY <1>4

-----------------------------------------------------------------------------
(* Sums (SumFunctionOnSet of module Functions). *)

Picked(s) == CHOOSE x \in s : TRUE

\* The element that a fold picks is one of the set.
LEMMA PickedElement ==
  ASSUME NEW s, s # {}
  PROVE  Picked(s) \in s
BY DEF Picked

\* g gives the sum of f over each subset of S.
IsSum(g, f, S) ==
  \A s \in SUBSET S : g[s] = IF s = {} THEN 0 ELSE f[Picked(s)] + g[s \ {Picked(s)}]

\* The sums over the subsets are determined.
LEMMA SumUnique ==
  ASSUME NEW S, IsFiniteSet(S), NEW T \in SUBSET S, NEW f, NEW g, NEW h,
         IsSum(g, f, S), IsSum(h, f, T)
  PROVE  \A s \in SUBSET T : g[s] = h[s]
<1> DEFINE N == {n \in Nat : \A s \in SUBSET T : Cardinality(s) = n => g[s] = h[s]}
<1>1. \A s \in SUBSET T : IsFiniteSet(s) /\ Cardinality(s) \in Nat
  BY FS_Subset, FS_CardinalityType
<1>2. 0 \in N
  <2>1. \A s \in SUBSET T : Cardinality(s) = 0 => s = {}
    BY <1>1, FS_EmptySet
  <2> QED
    BY <2>1 DEF IsSum
<1>3. ASSUME NEW n \in Nat, n \in N PROVE n + 1 \in N
  <2> SUFFICES ASSUME NEW s \in SUBSET T, Cardinality(s) = n + 1 PROVE g[s] = h[s]
    OBVIOUS
  <2>1. s # {}
    <3>1. Cardinality({}) # n + 1
      BY FS_EmptySet
    <3> QED
      BY <3>1
  <2>2. Picked(s) \in s /\ Cardinality(s \ {Picked(s)}) = n
    <3>1. Picked(s) \in s /\ Cardinality(s \ {Picked(s)}) = Cardinality(s) - 1
      BY <1>1, <2>1, PickedElement, FS_RemoveElement
    <3> QED
      BY <3>1
  <2>3. g[s \ {Picked(s)}] = h[s \ {Picked(s)}]
    BY <1>3, <2>2
  <2> QED
    BY <2>1, <2>3 DEF IsSum
<1>4. Nat \subseteq N
  <2> HIDE DEF N
  <2> QED
    BY <1>2, <1>3, NaturalsByInduction
<1> QED
  BY <1>1, <1>4

\* SumFunctionOnSet is the sum of the whole set.
LEMMA SumIsFold ==
  ASSUME NEW S, IsFiniteSet(S), NEW f, \A x \in S : f[x] \in Int
  PROVE  \E g \in [SUBSET S -> Int] : IsSum(g, f, S) /\ SumFunctionOnSet(f, S) = g[S]
<1> DEFINE P(h) == h = [s \in SUBSET S |-> IF s = {} THEN 0
                           ELSE f[CHOOSE x \in s : TRUE] + h[s \ {CHOOSE x \in s : TRUE}]]
           iter == CHOOSE h : P(h)
           pick == [s \in SUBSET S |-> Picked(s)]
           step == [p \in S \X Int |-> f[p[1]] + p[2]]
<1>1. SumFunctionOnSet(f, S) = iter[S]
  BY DEF SumFunctionOnSet, FoldFunctionOnSet, MapThenFoldSet
<1>2. PICK g \in [SUBSET S -> Int] : IsFold(g, S, 0, pick, step)
  <2>1. \A s \in SUBSET S : s # {} => pick[s] \in s
    BY PickedElement
  <2>2. step \in [S \X Int -> Int]
    OBVIOUS
  <2>3. 0 \in Int
    OBVIOUS
  <2> HIDE DEF pick, step
  <2> QED
    BY <2>1, <2>2, <2>3, FoldExists
<1>3. IsSum(g, f, S)
  <2> SUFFICES ASSUME NEW s \in SUBSET S, s # {}
               PROVE  g[s] = f[Picked(s)] + g[s \ {Picked(s)}]
    BY <1>2 DEF IsFold, IsSum
  <2>1. Picked(s) \in S /\ g[s \ {Picked(s)}] \in Int /\ pick[s] = Picked(s)
    BY PickedElement
  <2>2. g[s] = step[<<pick[s], g[s \ {pick[s]}]>>]
    BY <1>2 DEF IsFold
  <2> QED
    BY <2>1, <2>2
<1>4. P(g)
  BY <1>3 DEF Picked, IsSum
<1>5. P(iter)
  <2> HIDE DEF P
  <2> QED
    BY <1>4
<1>6. IsSum(iter, f, S)
  <2> HIDE DEF iter
  <2> QED
    BY <1>5 DEF Picked, IsSum
<1>7. iter[S] = g[S]
  <2> HIDE DEF iter
  <2> QED
    BY <1>3, <1>6, SumUnique
<1> QED
  BY <1>1, <1>3, <1>7

\* One function gives the sum over each subset.
LEMMA SumOfSubsets ==
  ASSUME NEW S, IsFiniteSet(S), NEW f, \A x \in S : f[x] \in Int
  PROVE  \A s \in SUBSET S :
           /\ SumFunctionOnSet(f, s) \in Int
           /\ SumFunctionOnSet(f, s) =
                IF s = {} THEN 0 ELSE f[Picked(s)] + SumFunctionOnSet(f, s \ {Picked(s)})
<1>1. PICK g \in [SUBSET S -> Int] : IsSum(g, f, S) /\ SumFunctionOnSet(f, S) = g[S]
  BY SumIsFold
<1>2. ASSUME NEW s \in SUBSET S PROVE SumFunctionOnSet(f, s) = g[s]
  <2>1. IsFiniteSet(s) /\ \A x \in s : f[x] \in Int
    BY FS_Subset
  <2>2. PICK h \in [SUBSET s -> Int] : IsSum(h, f, s) /\ SumFunctionOnSet(f, s) = h[s]
    BY <2>1, SumIsFold
  <2> QED
    BY <1>1, <2>2, SumUnique
<1>3. ASSUME NEW s \in SUBSET S, s # {}
      PROVE  SumFunctionOnSet(f, s) = f[Picked(s)] + SumFunctionOnSet(f, s \ {Picked(s)})
  <2>1. s \ {Picked(s)} \in SUBSET S
    OBVIOUS
  <2> QED
    BY <1>1, <1>2, <1>3, <2>1 DEF IsSum
<1>4. g[{}] = 0
  BY <1>1 DEF IsSum
<1> QED
  BY <1>2, <1>3, <1>4

\* Nothing is summed over the empty set.
LEMMA SumEmpty ==
  ASSUME NEW f
  PROVE  SumFunctionOnSet(f, {}) = 0
BY SumOfSubsets, FS_EmptySet

\* A sum of integers is an integer.
LEMMA SumType ==
  ASSUME NEW S, IsFiniteSet(S), NEW f, \A x \in S : f[x] \in Int
  PROVE  SumFunctionOnSet(f, S) \in Int
BY SumOfSubsets

\* The order of the summands does not matter: any of them can be taken out.
LEMMA SumRemove ==
  ASSUME NEW S, IsFiniteSet(S), NEW f, \A x \in S : f[x] \in Int, NEW x \in S
  PROVE  SumFunctionOnSet(f, S) = f[x] + SumFunctionOnSet(f, S \ {x})
<1> DEFINE Sum(s) == SumFunctionOnSet(f, s)
           N == {n \in Nat : \A s \in SUBSET S : Cardinality(s) = n =>
                                \A y \in s : Sum(s) = f[y] + Sum(s \ {y})}
<1>1. \A s \in SUBSET S : IsFiniteSet(s) /\ Cardinality(s) \in Nat
  BY FS_Subset, FS_CardinalityType
<1>2. \A s \in SUBSET S : Sum(s) \in Int
  BY SumOfSubsets
<1>3. \A s \in SUBSET S : s # {} => Sum(s) = f[Picked(s)] + Sum(s \ {Picked(s)})
  BY SumOfSubsets
<1> HIDE DEF Sum
<1>4. 0 \in N
  <2>1. \A s \in SUBSET S : Cardinality(s) = 0 => s = {}
    BY <1>1, FS_EmptySet
  <2> QED
    BY <2>1
<1>5. ASSUME NEW n \in Nat, n \in N PROVE n + 1 \in N
  <2> SUFFICES ASSUME NEW s \in SUBSET S, Cardinality(s) = n + 1, NEW y \in s
               PROVE  Sum(s) = f[y] + Sum(s \ {y})
    OBVIOUS
  <2> DEFINE c == Picked(s)
  <2>1. c \in s
    BY PickedElement
  <2> HIDE DEF c
  <2>2. Sum(s) = f[c] + Sum(s \ {c})
    BY <1>3 DEF c
  <2>3. CASE c = y
    BY <2>2, <2>3
  <2>4. CASE c # y
    <3>1. \A z \in s : Cardinality(s \ {z}) = n
      <4>1. \A z \in s : Cardinality(s \ {z}) = (n + 1) - 1
        BY <1>1, FS_RemoveElement
      <4> QED
        BY <4>1
    <3>2. Sum(s \ {c}) = f[y] + Sum((s \ {c}) \ {y})
      BY <1>5, <2>1, <2>4, <3>1
    <3>3. Sum(s \ {y}) = f[c] + Sum((s \ {y}) \ {c})
      BY <1>5, <2>1, <2>4, <3>1
    <3>4. (s \ {c}) \ {y} = (s \ {y}) \ {c}
      OBVIOUS
    <3>5. Sum((s \ {y}) \ {c}) \in Int /\ f[c] \in Int /\ f[y] \in Int
      BY <1>2, <2>1
    <3>6. \A i, j, k \in Int : i + (j + k) = j + (i + k)
      OBVIOUS
    <3>7. f[c] + (f[y] + Sum((s \ {y}) \ {c})) = f[y] + (f[c] + Sum((s \ {y}) \ {c}))
      BY <3>5, <3>6
    <3> QED
      BY <2>2, <3>2, <3>3, <3>4, <3>7
  <2> QED
    BY <2>3, <2>4
<1>6. Cardinality(S) \in N
  <2> HIDE DEF N
  <2>1. Nat \subseteq N
    BY <1>4, <1>5, NaturalsByInduction
  <2> QED
    BY <1>1, <2>1
<1> QED
  BY <1>6 DEF Sum

\* A sum depends on its summands only.
LEMMA SumEqual ==
  ASSUME NEW S, IsFiniteSet(S), NEW f, NEW g, \A x \in S : f[x] \in Int /\ g[x] = f[x]
  PROVE  SumFunctionOnSet(g, S) = SumFunctionOnSet(f, S)
<1> DEFINE P == {s \in SUBSET S : SumFunctionOnSet(g, s) = SumFunctionOnSet(f, s)}
<1>1. {} \in P
  BY SumEmpty
<1>2. ASSUME NEW s \in SUBSET S, NEW x \in S \ s, s \in P PROVE s \cup {x} \in P
  <2>1. IsFiniteSet(s \cup {x}) /\ s \cup {x} \in SUBSET S /\ (s \cup {x}) \ {x} = s
    BY FS_Subset
  <2>2. SumFunctionOnSet(f, s \cup {x}) = f[x] + SumFunctionOnSet(f, (s \cup {x}) \ {x})
    BY <2>1, SumRemove
  <2>3. SumFunctionOnSet(g, s \cup {x}) = g[x] + SumFunctionOnSet(g, (s \cup {x}) \ {x})
    BY <2>1, SumRemove
  <2> QED
    BY <1>2, <2>1, <2>2, <2>3
<1>3. SUBSET S \subseteq P
  <2> HIDE DEF P
  <2> QED
    BY <1>1, <1>2, SubsetsByInduction
<1> QED
  BY <1>3

\* A summand is replaced.
LEMMA SumReplace ==
  ASSUME NEW S, IsFiniteSet(S), NEW f, NEW g, NEW x \in S, \A y \in S : f[y] \in Int,
         g[x] \in Int, \A y \in S \ {x} : g[y] = f[y]
  PROVE  /\ SumFunctionOnSet(g, S) = SumFunctionOnSet(f, S) - f[x] + g[x]
         /\ SumFunctionOnSet(f, S) \in Int
<1>1. IsFiniteSet(S \ {x})
  BY FS_RemoveElement
<1>2. SumFunctionOnSet(g, S \ {x}) = SumFunctionOnSet(f, S \ {x})
  BY <1>1, SumEqual
<1>3. SumFunctionOnSet(f, S) = f[x] + SumFunctionOnSet(f, S \ {x})
  BY SumRemove
<1>4. SumFunctionOnSet(g, S) = g[x] + SumFunctionOnSet(g, S \ {x})
  <2>1. \A y \in S : g[y] \in Int
    OBVIOUS
  <2> QED
    BY <2>1, SumRemove
<1>5. SumFunctionOnSet(f, S \ {x}) \in Int
  BY <1>1, SumType
<1>6. \A i, j, k \in Int : i + k = (j + k) - j + i /\ j + k \in Int
  OBVIOUS
<1> QED
  BY <1>2, <1>3, <1>4, <1>5, <1>6

\* A sum of natural numbers is one, and at most as many times a bound of its summands as
\* there are.
LEMMA SumBounded ==
  ASSUME NEW S, IsFiniteSet(S), NEW f, NEW b \in Nat, \A x \in S : f[x] \in Nat /\ f[x] <= b
  PROVE  /\ SumFunctionOnSet(f, S) \in Nat
         /\ SumFunctionOnSet(f, S) <= Cardinality(S) * b
<1> DEFINE P == {s \in SUBSET S : /\ SumFunctionOnSet(f, s) \in Nat
                                 /\ SumFunctionOnSet(f, s) <= Cardinality(s) * b}
<1>1. {} \in P
  <2>1. 0 * b = 0
    OBVIOUS
  <2> QED
    BY <2>1, SumEmpty, FS_EmptySet
<1>2. ASSUME NEW s \in SUBSET S, NEW x \in S \ s, s \in P PROVE s \cup {x} \in P
  <2>1. IsFiniteSet(s \cup {x}) /\ s \cup {x} \in SUBSET S /\ (s \cup {x}) \ {x} = s
    BY FS_Subset
  <2>2. SumFunctionOnSet(f, s \cup {x}) = f[x] + SumFunctionOnSet(f, s)
    BY <2>1, SumRemove
  <2>3. Cardinality(s \cup {x}) = Cardinality(s) + 1 /\ Cardinality(s) \in Nat
    BY FS_Subset, FS_AddElement, FS_CardinalityType
  <2>4. \A i, j, n \in Nat : i <= b /\ j <= n * b => i + j \in Nat /\ i + j <= (n + 1) * b
    <3>1. \A n \in Nat : (n + 1) * b = n * b + b /\ n * b \in Nat
      OBVIOUS
    <3>2. \A i, j, k \in Nat : i <= b /\ j <= k => i + j \in Nat /\ i + j <= k + b
      OBVIOUS
    <3> QED
      BY <3>1, <3>2
  <2> QED
    BY <1>2, <2>1, <2>2, <2>3, <2>4
<1>3. SUBSET S \subseteq P
  <2> HIDE DEF P
  <2> QED
    BY <1>1, <1>2, SubsetsByInduction
<1> QED
  BY <1>3

\* A sum of natural numbers is a natural number.
LEMMA SumNatural ==
  ASSUME NEW S, IsFiniteSet(S), NEW f, \A x \in S : f[x] \in Nat
  PROVE  SumFunctionOnSet(f, S) \in Nat
<1> DEFINE P == {s \in SUBSET S : SumFunctionOnSet(f, s) \in Nat}
<1>1. {} \in P
  BY SumEmpty
<1>2. ASSUME NEW s \in SUBSET S, NEW x \in S \ s, s \in P PROVE s \cup {x} \in P
  <2>1. IsFiniteSet(s \cup {x}) /\ s \cup {x} \in SUBSET S /\ (s \cup {x}) \ {x} = s
    BY FS_Subset
  <2>2. SumFunctionOnSet(f, s \cup {x}) = f[x] + SumFunctionOnSet(f, s)
    BY <2>1, SumRemove
  <2> QED
    BY <1>2, <2>1, <2>2
<1>3. SUBSET S \subseteq P
  <2> HIDE DEF P
  <2> QED
    BY <1>1, <1>2, SubsetsByInduction
<1> QED
  BY <1>3

\* A sum of zeros is zero.
LEMMA SumZero ==
  ASSUME NEW S, IsFiniteSet(S), NEW f, \A x \in S : f[x] = 0
  PROVE  SumFunctionOnSet(f, S) = 0
<1>1. /\ SumFunctionOnSet(f, S) \in Nat
      /\ SumFunctionOnSet(f, S) <= Cardinality(S) * 0
  BY SumBounded
<1>2. Cardinality(S) * 0 = 0
  BY FS_CardinalityType
<1> QED
  BY <1>1, <1>2

\* A sum exceeds another by at most what its terms exceed the other's.
LEMMA SumExceeds ==
  ASSUME NEW S, IsFiniteSet(S), NEW f, NEW g, NEW b \in Nat,
         \A x \in S : f[x] \in Int /\ g[x] \in Int /\ f[x] <= g[x] + b
  PROVE  SumFunctionOnSet(f, S) <= SumFunctionOnSet(g, S) + Cardinality(S) * b
<1> DEFINE P == {s \in SUBSET S : /\ SumFunctionOnSet(f, s) \in Int
                                 /\ SumFunctionOnSet(g, s) \in Int
                                 /\ SumFunctionOnSet(f, s)
                                      <= SumFunctionOnSet(g, s) + Cardinality(s) * b}
<1>1. {} \in P
  <2>1. 0 * b = 0
    OBVIOUS
  <2> QED
    BY <2>1, SumEmpty, FS_EmptySet
<1>2. ASSUME NEW s \in SUBSET S, NEW x \in S \ s, s \in P PROVE s \cup {x} \in P
  <2>1. IsFiniteSet(s \cup {x}) /\ s \cup {x} \in SUBSET S /\ (s \cup {x}) \ {x} = s
    BY FS_Subset
  <2>2. /\ SumFunctionOnSet(f, s \cup {x}) = f[x] + SumFunctionOnSet(f, s)
        /\ SumFunctionOnSet(g, s \cup {x}) = g[x] + SumFunctionOnSet(g, s)
    BY <2>1, SumRemove
  <2>3. Cardinality(s \cup {x}) = Cardinality(s) + 1 /\ Cardinality(s) \in Nat
    BY FS_Subset, FS_AddElement, FS_CardinalityType
  <2>4. \A u, v, i, j \in Int : \A n \in Nat :
          u <= v + b /\ i <= j + n * b => u + i <= (v + j) + (n + 1) * b
    <3>1. \A n \in Nat : (n + 1) * b = n * b + b /\ n * b \in Nat
      OBVIOUS
    <3>2. \A u, v, i, j \in Int : \A k \in Nat :
            u <= v + b /\ i <= j + k => u + i <= (v + j) + (k + b)
      OBVIOUS
    <3> QED
      BY <3>1, <3>2
  <2> QED
    BY <1>2, <2>1, <2>2, <2>3, <2>4
<1>3. SUBSET S \subseteq P
  <2> HIDE DEF P
  <2> QED
    BY <1>1, <1>2, SubsetsByInduction
<1> QED
  BY <1>3

\* The sum over a sequence to which an element is appended.
LEMMA SumAppended ==
  ASSUME NEW n \in Nat, NEW f, NEW g, \A i \in 1 .. n : f[i] \in Int /\ g[i] = f[i],
         g[n + 1] \in Int
  PROVE  SumFunctionOnSet(g, 1 .. n + 1) = SumFunctionOnSet(f, 1 .. n) + g[n + 1]
<1>1. /\ IsFiniteSet(1 .. n + 1) /\ IsFiniteSet(1 .. n)
      /\ n + 1 \in 1 .. n + 1 /\ (1 .. n + 1) \ {n + 1} = 1 .. n
  <2>1. IsFiniteSet(1 .. n + 1) /\ IsFiniteSet(1 .. n)
    BY FS_Interval
  <2>2. n + 1 \in 1 .. n + 1
    OBVIOUS
  <2>3. (1 .. n + 1) \ {n + 1} = 1 .. n
    OBVIOUS
  <2> QED
    BY <2>1, <2>2, <2>3
<1>2. \A i \in 1 .. n + 1 : i \in 1 .. n \/ i = n + 1
  OBVIOUS
<1>3. SumFunctionOnSet(g, 1 .. n + 1) = g[n + 1] + SumFunctionOnSet(g, 1 .. n)
  <2>1. \A i \in 1 .. n + 1 : g[i] \in Int
    BY <1>2
  <2> QED
    BY <1>1, <2>1, SumRemove
<1>4. SumFunctionOnSet(g, 1 .. n) = SumFunctionOnSet(f, 1 .. n)
  BY <1>1, SumEqual
<1>5. SumFunctionOnSet(f, 1 .. n) \in Int
  BY <1>1, SumType
<1>6. \A i, j \in Int : i + j = j + i
  OBVIOUS
<1> QED
  BY <1>3, <1>4, <1>5, <1>6

\* The sum over a sequence of which the head is taken.
LEMMA SumTail ==
  ASSUME NEW n \in Nat, NEW f, NEW g, \A i \in 1 .. n + 1 : f[i] \in Int,
         \A i \in 1 .. n : g[i] = f[i + 1]
  PROVE  SumFunctionOnSet(f, 1 .. n + 1) = f[1] + SumFunctionOnSet(g, 1 .. n)
<1> DEFINE N == {k \in Nat : k <= n =>
                   SumFunctionOnSet(f, 1 .. k + 1) = f[1] + SumFunctionOnSet(g, 1 .. k)}
<1>1. 0 \in N
  <2>1. 1 .. 0 + 1 = {1} /\ 1 .. 0 = {} /\ {1} \ {1} = {}
    OBVIOUS
  <2>2. f[1] \in Int
    OBVIOUS
  <2>3. SumFunctionOnSet(f, {1}) = f[1] + SumFunctionOnSet(f, {1} \ {1})
    <3>1. IsFiniteSet({1}) /\ \A x \in {1} : f[x] \in Int
      BY <2>2, FS_Singleton
    <3> QED
      BY <3>1, SumRemove
  <2>4. SumFunctionOnSet(f, {}) = SumFunctionOnSet(g, {})
    BY SumEmpty
  <2> QED
    BY <2>1, <2>3, <2>4
<1>2. ASSUME NEW k \in Nat, k \in N PROVE k + 1 \in N
  <2> SUFFICES ASSUME k + 1 <= n
               PROVE  SumFunctionOnSet(f, 1 .. (k + 1) + 1) =
                        f[1] + SumFunctionOnSet(g, 1 .. k + 1)
    OBVIOUS
  <2>1. /\ k <= n /\ k + 1 \in Nat
        /\ 1 .. k + 1 \subseteq 1 .. n /\ 1 .. (k + 1) + 1 \subseteq 1 .. n + 1
        /\ 1 .. k \subseteq 1 .. n /\ 1 .. k + 1 \subseteq 1 .. n + 1
        /\ k + 1 \in 1 .. n /\ (k + 1) + 1 \in 1 .. n + 1 /\ 1 \in 1 .. n + 1
    OBVIOUS
  <2>2. \A i \in 1 .. n : i + 1 \in 1 .. n + 1
    OBVIOUS
  <2>3. SumFunctionOnSet(f, 1 .. (k + 1) + 1) =
          SumFunctionOnSet(f, 1 .. k + 1) + f[(k + 1) + 1]
    BY <2>1, SumAppended
  <2>4. \A i \in 1 .. n : g[i] \in Int
    BY <2>2
  <2>5. SumFunctionOnSet(g, 1 .. k + 1) = SumFunctionOnSet(g, 1 .. k) + g[k + 1]
    BY <2>1, <2>4, SumAppended
  <2>6. SumFunctionOnSet(g, 1 .. k) \in Int
    <3>1. IsFiniteSet(1 .. k) /\ \A i \in 1 .. k : g[i] \in Int
      BY <2>1, <2>4, FS_Interval
    <3> QED
      BY <3>1, SumType
  <2>7. SumFunctionOnSet(f, 1 .. k + 1) = f[1] + SumFunctionOnSet(g, 1 .. k)
    BY <1>2, <2>1
  <2>8. f[1] \in Int /\ g[k + 1] \in Int /\ g[k + 1] = f[(k + 1) + 1]
    BY <2>1, <2>4
  <2>9. \A i, j, m \in Int : (i + j) + m = i + (j + m)
    OBVIOUS
  <2>10. (f[1] + SumFunctionOnSet(g, 1 .. k)) + g[k + 1]
           = f[1] + (SumFunctionOnSet(g, 1 .. k) + g[k + 1])
    BY <2>6, <2>8, <2>9
  <2> QED
    BY <2>3, <2>5, <2>7, <2>8, <2>10
<1>3. n \in N
  <2> HIDE DEF N
  <2> QED
    BY <1>1, <1>2, NaturalsByInduction
<1>4. n <= n
  OBVIOUS
<1> QED
  BY <1>3, <1>4

\* A sum of natural numbers is at most another one if each summand has a summand of its
\* own in the other one that is at least as large.
LEMMA SumDominates ==
  ASSUME NEW S, IsFiniteSet(S), NEW T, IsFiniteSet(T), NEW f, NEW g, NEW h,
         \A x \in S : f[x] \in Nat, \A y \in T : g[y] \in Nat,
         \A x \in S : h[x] \in T /\ f[x] <= g[h[x]],
         \A x, y \in S : h[x] = h[y] => x = y
  PROVE  SumFunctionOnSet(f, S) <= SumFunctionOnSet(g, T)
<1> DEFINE P == {s \in SUBSET S : \A t \in SUBSET T :
                   (\A x \in s : h[x] \in t) =>
                     SumFunctionOnSet(f, s) <= SumFunctionOnSet(g, t)}
<1>1. \A t \in SUBSET T : SumFunctionOnSet(g, t) \in Nat /\ IsFiniteSet(t)
  BY FS_Subset, SumNatural
<1>2. \A s \in SUBSET S : SumFunctionOnSet(f, s) \in Nat /\ IsFiniteSet(s)
  BY FS_Subset, SumNatural
<1>3. {} \in P
  <2>1. \A n \in Nat : 0 <= n
    OBVIOUS
  <2> QED
    BY <1>1, <2>1, SumEmpty
<1>4. ASSUME NEW s \in SUBSET S, NEW x \in S \ s, s \in P PROVE s \cup {x} \in P
  <2> SUFFICES ASSUME NEW t \in SUBSET T, \A y \in s \cup {x} : h[y] \in t
               PROVE  SumFunctionOnSet(f, s \cup {x}) <= SumFunctionOnSet(g, t)
    BY <1>4
  <2> DEFINE u == t \ {h[x]}
  <2>1. s \cup {x} \in SUBSET S /\ (s \cup {x}) \ {x} = s /\ u \in SUBSET T /\ h[x] \in t
    OBVIOUS
  <2>2. \A y \in s : h[y] \in u
    OBVIOUS
  <2>3. SumFunctionOnSet(f, s) <= SumFunctionOnSet(g, u)
    BY <1>4, <2>1, <2>2
  <2>4. SumFunctionOnSet(f, s \cup {x}) = f[x] + SumFunctionOnSet(f, (s \cup {x}) \ {x})
    BY <1>2, <2>1, SumRemove
  <2>5. SumFunctionOnSet(g, t) = g[h[x]] + SumFunctionOnSet(g, u)
    BY <1>1, <2>1, SumRemove
  <2>6. \A i, j, k, l \in Nat : i <= j /\ k <= l => i + k <= j + l
    OBVIOUS
  <2>7. f[x] \in Nat /\ g[h[x]] \in Nat /\ f[x] <= g[h[x]]
    OBVIOUS
  <2> HIDE DEF u
  <2> QED
    BY <1>1, <1>2, <2>1, <2>3, <2>4, <2>5, <2>6, <2>7
<1>5. S \in P
  <2> HIDE DEF P
  <2>1. SUBSET S \subseteq P
    BY <1>3, <1>4, SubsetsByInduction
  <2> QED
    BY <2>1
<1> QED
  BY <1>5

\* A sum is the sum over the classes of its summands.
LEMMA SumOfClasses ==
  ASSUME NEW S, IsFiniteSet(S), NEW B, IsFiniteSet(B), NEW f, NEW class,
         \A x \in S : f[x] \in Int /\ class[x] \in B
  PROVE  SumFunctionOnSet(f, S) =
           SumFunctionOnSet([b \in B |-> SumFunctionOnSet(f, {x \in S : class[x] = b})], B)
<1> DEFINE Class(s, b) == {x \in s : class[x] = b}
           F(s) == [b \in B |-> SumFunctionOnSet(f, Class(s, b))]
           P == {s \in SUBSET S : SumFunctionOnSet(f, s) = SumFunctionOnSet(F(s), B)}
<1>1. \A s \in SUBSET S : /\ IsFiniteSet(s)
                          /\ SumFunctionOnSet(f, s) \in Int
                          /\ \A b : Class(s, b) \in SUBSET S
  BY FS_Subset, SumType
<1>2. \A s \in SUBSET S : \A b \in B : F(s)[b] \in Int
  BY <1>1
<1>3. {} \in P
  <2>1. \A b \in B : F({})[b] = 0
    <3>1. \A b : Class({}, b) = {}
      OBVIOUS
    <3> QED
      BY <3>1, SumEmpty
  <2> HIDE DEF F
  <2>2. SumFunctionOnSet(F({}), B) = 0
    BY <2>1, SumZero
  <2> QED
    BY <2>2, SumEmpty
<1>4. ASSUME NEW s \in SUBSET S, NEW x \in S \ s, s \in P PROVE s \cup {x} \in P
  <2> DEFINE u == s \cup {x}
             c == class[x]
  <2>1. u \in SUBSET S /\ u \ {x} = s /\ x \in u /\ c \in B /\ f[x] \in Int
    OBVIOUS
  <2>2. SumFunctionOnSet(f, u) = f[x] + SumFunctionOnSet(f, s)
    BY <1>1, <2>1, SumRemove
  <2>3. Class(u, c) \ {x} = Class(s, c) /\ x \in Class(u, c)
    OBVIOUS
  <2>4. \A b \in B \ {c} : Class(u, b) = Class(s, b)
    OBVIOUS
  <2>5. SumFunctionOnSet(f, Class(u, c)) = f[x] + SumFunctionOnSet(f, Class(s, c))
    <3>1. Class(u, c) \in SUBSET S
      BY <1>1, <2>1
    <3> HIDE DEF Class
    <3>2. IsFiniteSet(Class(u, c)) /\ \A y \in Class(u, c) : f[y] \in Int
      BY <1>1, <3>1
    <3>3. x \in Class(u, c)
      BY <2>3
    <3>4. SumFunctionOnSet(f, Class(u, c)) = f[x] + SumFunctionOnSet(f, Class(u, c) \ {x})
      BY <3>2, <3>3, SumRemove
    <3> QED
      BY <2>3, <3>4
  <2>6. F(u)[c] = f[x] + F(s)[c] /\ \A b \in B \ {c} : F(u)[b] = F(s)[b]
    BY <2>1, <2>4, <2>5
  <2>7. (\A b \in B : F(s)[b] \in Int) /\ F(u)[c] \in Int
    BY <1>2, <2>1
  <2> HIDE DEF F, Class, u, c
  <2>8. /\ SumFunctionOnSet(F(u), B) = SumFunctionOnSet(F(s), B) - F(s)[c] + F(u)[c]
        /\ SumFunctionOnSet(F(s), B) \in Int
    <3> DEFINE old == F(s)
               new == F(u)
    <3>1. /\ c \in B /\ (\A b \in B : old[b] \in Int) /\ new[c] \in Int
          /\ \A b \in B \ {c} : new[b] = old[b]
      BY <2>1, <2>6, <2>7
    <3> HIDE DEF old, new
    <3>2. /\ SumFunctionOnSet(new, B) = SumFunctionOnSet(old, B) - old[c] + new[c]
          /\ SumFunctionOnSet(old, B) \in Int
      BY <3>1, SumReplace
    <3> QED
      BY <3>2 DEF old, new
  <2>9. \A i, j, k \in Int : (i - j) + (k + j) = k + i
    OBVIOUS
  <2>10. SumFunctionOnSet(F(u), B) = f[x] + SumFunctionOnSet(F(s), B)
    BY <2>1, <2>6, <2>7, <2>8, <2>9
  <2>11. SumFunctionOnSet(f, u) = SumFunctionOnSet(F(u), B)
    BY <1>4, <2>2, <2>10
  <2> QED
    BY <2>1, <2>11 DEF u
<1>5. S \in P
  <2> HIDE DEF P
  <2>1. SUBSET S \subseteq P
    BY <1>3, <1>4, SubsetsByInduction
  <2> QED
    BY <2>1
<1> QED
  BY <1>5

\* A finite set of numbers has a greatest one.
LEMMA MaxOfFinite ==
  ASSUME NEW S, IsFiniteSet(S), S \subseteq Nat, S # {}
  PROVE  Max(S) \in S /\ \A x \in S : x <= Max(S)
<1> DEFINE P == {s \in SUBSET S : s # {} => \E x \in s : \A y \in s : x >= y}
<1>1. {} \in P
  OBVIOUS
<1>2. ASSUME NEW s \in SUBSET S, NEW x \in S \ s, s \in P PROVE s \cup {x} \in P
  <2>1. CASE s = {}
    <3>1. x >= x
      OBVIOUS
    <3> QED
      BY <2>1, <3>1
  <2>2. CASE s # {}
    <3>1. PICK z \in s : \A y \in s : z >= y
      BY <1>2, <2>2
    <3>2. CASE z >= x
      BY <3>1, <3>2
    <3>3. CASE ~(z >= x)
      <4>1. x >= x /\ \A y \in s : x >= y
        BY <3>1, <3>3
      <4> QED
        BY <4>1
    <3> QED
      BY <3>2, <3>3
  <2> QED
    BY <2>1, <2>2
<1>3. SUBSET S \subseteq P
  <2> HIDE DEF P
  <2> QED
    BY <1>1, <1>2, SubsetsByInduction
<1>4. \E x \in S : \A y \in S : x >= y
  BY <1>3
<1>5. Max(S) \in S /\ \A x \in S : Max(S) >= x
  BY <1>4 DEF Max
<1>6. \A x, y \in Nat : x >= y => y <= x
  OBVIOUS
<1> QED
  BY <1>5, <1>6

-----------------------------------------------------------------------------
(* Folds over the positions of a sequence, the greatest one last (FoldLeft). *)

Folded(g, n, base, step) ==
  \A t \in SUBSET (1 .. n) :
    g[t] = IF t = {} THEN base ELSE step[<<Max(t), g[t \ {Max(t)}]>>]

\* The recursive function that defines such a fold exists.
LEMMA SequenceFold ==
  ASSUME NEW n \in Nat, NEW V, NEW base \in V, NEW step \in [(1 .. n) \X V -> V]
  PROVE  \E g \in [SUBSET (1 .. n) -> V] : Folded(g, n, base, step)
<1> DEFINE D == 1 .. n
           pick == [t \in SUBSET D |-> Max(t)]
<1>1. IsFiniteSet(D) /\ D \subseteq Nat
  BY FS_Interval
<1>2. \A t \in SUBSET D : t # {} => pick[t] \in t
  BY <1>1, FS_Subset, MaxOfFinite
<1>3. PICK g \in [SUBSET D -> V] : IsFold(g, D, base, pick, step)
  <2> HIDE DEF D, pick
  <2>1. step \in [D \X V -> V]
    BY DEF D
  <2> QED
    BY <1>1, <1>2, <2>1, FoldExists
<1> QED
  BY <1>3 DEF IsFold, Folded

\* The prefixes of the natural numbers, with the last one set apart.
LEMMA LastOfPrefix ==
  ASSUME NEW k \in Nat \ {0}
  PROVE  /\ 1 .. k # {} /\ Max(1 .. k) = k
         /\ (1 .. k) \ {k} = 1 .. (k - 1)
<1>1. 1 \in Int /\ k \in Int /\ 1 .. k \subseteq Nat /\ k \in 1 .. k
      /\ \A i \in 1 .. k : i <= k
  OBVIOUS
<1>2. IsFiniteSet(1 .. k)
  BY <1>1, FS_Interval
<1>3. Max(1 .. k) \in 1 .. k /\ \A i \in 1 .. k : i <= Max(1 .. k)
  BY <1>1, <1>2, MaxOfFinite
<1>4. \A i \in 1 .. k : (i <= k /\ k <= i) => i = k
  OBVIOUS
<1>5. \A i \in Int : i \in (1 .. k) \ {k} <=> i \in 1 .. (k - 1)
  OBVIOUS
<1>6. (1 .. k) \ {k} \subseteq Int /\ 1 .. (k - 1) \subseteq Int
  OBVIOUS
<1>7. (1 .. k) \ {k} = 1 .. (k - 1)
  BY <1>5, <1>6
<1>8. Max(1 .. k) = k
  BY <1>1, <1>3, <1>4
<1> QED
  BY <1>1, <1>7, <1>8

\* iter goes through n steps, as long as they make values of V.
Iterates(iter, n, base, step, V) ==
  /\ iter[{}] = base
  /\ \A t \in SUBSET (1 .. n) :
       t # {} /\ iter[t \ {Max(t)}] \in V
         => iter[t] = step[<<Max(t), iter[t \ {Max(t)}]>>]

\* Each step keeps W, which says of a value what is true of it after so many steps.
Maintains(W, n, step, V) ==
  \A k \in 1 .. n : \A x \in V : <<k - 1, x>> \in W => <<k, step[<<k, x>>]>> \in W

\* What each step makes of a value of V is one of V, and what each step keeps, for the
\* number of steps done, is true of the whole.
LEMMA SequenceFoldKeeps ==
  ASSUME NEW n \in Nat, NEW V, NEW base \in V, NEW step \in [(1 .. n) \X V -> V], NEW iter,
         Iterates(iter, n, base, step, V),
         NEW W, <<0, base>> \in W, Maintains(W, n, step, V)
  PROVE  iter[1 .. n] \in V /\ <<n, iter[1 .. n]>> \in W
<1> DEFINE Good(k) == iter[1 .. k] \in V /\ <<k, iter[1 .. k]>> \in W
           N == {k \in Nat : k <= n => Good(k)}
<1>1. 0 \in N
  <2>1. 1 .. 0 = {}
    OBVIOUS
  <2> QED
    BY <2>1 DEF Iterates
<1>2. ASSUME NEW k \in Nat, k \in N PROVE k + 1 \in N
  <2> SUFFICES ASSUME k + 1 <= n PROVE Good(k + 1)
    OBVIOUS
  <2>1. /\ k + 1 \in 1 .. n /\ (k + 1) - 1 = k /\ k <= n
        /\ k + 1 \in Nat \ {0} /\ 1 .. (k + 1) \in SUBSET (1 .. n)
    OBVIOUS
  <2>2. 1 .. (k + 1) # {} /\ Max(1 .. (k + 1)) = k + 1 /\ (1 .. (k + 1)) \ {k + 1} = 1 .. k
    BY <2>1, LastOfPrefix
  <2>3. Good(k)
    BY <1>2, <2>1
  <2>4. iter[1 .. (k + 1)] = step[<<k + 1, iter[1 .. k]>>]
    BY <2>1, <2>2, <2>3 DEF Iterates
  <2>5. step[<<k + 1, iter[1 .. k]>>] \in V
    BY <2>1, <2>3
  <2>6. <<k + 1, step[<<k + 1, iter[1 .. k]>>]>> \in W
    BY <2>1, <2>3 DEF Maintains
  <2> QED
    BY <2>4, <2>5, <2>6
<1>3. Nat \subseteq N
  <2> HIDE DEF N
  <2> QED
    BY <1>1, <1>2, NaturalsByInduction
<1>4. n <= n
  OBVIOUS
<1> HIDE DEF Good
<1>5. Good(n)
  BY <1>3, <1>4
<1> QED
  BY <1>5 DEF Good

-----------------------------------------------------------------------------
(* Subsequences. *)

\* upto gives the subsequence of each prefix of s.
Selects(upto, s, set) ==
  \A n \in 0 .. Len(s) :
    upto[n] = IF n = 0 THEN <<>>
              ELSE IF n \in set THEN Append(upto[n - 1], s[n]) ELSE upto[n - 1]

\* The recursive function that defines a subsequence exists.
LEMMA SubsequenceDefined ==
  ASSUME NEW S, NEW s \in Seq(S), NEW set
  PROVE  \E upto : Selects(upto, s, set) /\ Subsequence(s, set) = upto[Len(s)]
<1> DEFINE Value(g, n) == IF n = 0 THEN <<>>
                          ELSE IF n \in set THEN Append(g[n - 1], s[n]) ELSE g[n - 1]
           P(g) == g = [n \in 0 .. Len(s) |->
                          IF n = 0 THEN <<>>
                          ELSE IF n \in set THEN Append(g[n - 1], s[n]) ELSE g[n - 1]]
           upto == CHOOSE g : P(g)
           N == {m \in Nat : \E g : g = [n \in 0 .. m |-> Value(g, n)]}
<1>1. Subsequence(s, set) = upto[Len(s)]
  BY DEF Subsequence
<1>2. 0 \in N
  <2> DEFINE g == [n \in 0 .. 0 |-> <<>>]
  <2>1. g = [n \in 0 .. 0 |-> Value(g, n)]
    OBVIOUS
  <2> HIDE DEF g
  <2> QED
    BY <2>1
<1>3. ASSUME NEW m \in Nat, m \in N PROVE m + 1 \in N
  <2>1. PICK g : g = [n \in 0 .. m |-> Value(g, n)]
    BY <1>3
  <2> DEFINE h == [n \in 0 .. m + 1 |-> Value(g, n)]
  <2>2. \A n \in 0 .. m : h[n] = g[n]
    <3>1. \A n \in 0 .. m : n \in 0 .. m + 1
      OBVIOUS
    <3>2. \A n \in 0 .. m : g[n] = Value(g, n)
      <4> HIDE DEF Value
      <4> QED
        BY <2>1
    <3> HIDE DEF Value
    <3> QED
      BY <3>1, <3>2
  <2>3. \A n \in 0 .. m + 1 : n # 0 => n - 1 \in 0 .. m
    OBVIOUS
  <2>4. \A n \in 0 .. m + 1 : Value(h, n) = Value(g, n)
    <3> HIDE DEF h
    <3> QED
      BY <2>2, <2>3
  <2>5. h = [n \in 0 .. m + 1 |-> Value(h, n)]
    <3> HIDE DEF Value
    <3> QED
      BY <2>4
  <2>6. \E f : f = [n \in 0 .. m + 1 |-> Value(f, n)]
    <3> HIDE DEF Value, h
    <3> QED
      BY <2>5
  <2> HIDE DEF h, Value
  <2> QED
    BY <2>6
<1>4. Len(s) \in N
  <2> HIDE DEF N
  <2>1. Nat \subseteq N
    BY <1>2, <1>3, NaturalsByInduction
  <2> QED
    BY <2>1
<1>5. P(upto)
  <2>1. \E g : P(g)
    BY <1>4
  <2> HIDE DEF P
  <2> QED
    BY <2>1
<1>6. Selects(upto, s, set)
  <2> HIDE DEF upto
  <2> QED
    BY <1>5 DEF Selects
<1> QED
  BY <1>1, <1>6

\* t has the elements of s at the positions of the set.
Selected(t, s, set) ==
  /\ \A k \in DOMAIN t : \E i \in DOMAIN s : i \in set /\ s[i] = t[k]
  /\ \A i \in DOMAIN s : i \in set => \E k \in DOMAIN t : t[k] = s[i]

\* A subsequence is a sequence of the elements at the positions of the set.
LEMMA SubsequenceElements ==
  ASSUME NEW S, NEW s \in Seq(S), NEW set
  PROVE  /\ Subsequence(s, set) \in Seq(S)
         /\ Selected(Subsequence(s, set), s, set)
<1>1. PICK upto : Selects(upto, s, set) /\ Subsequence(s, set) = upto[Len(s)]
  BY SubsequenceDefined
<1> DEFINE Good(n, t) ==
             /\ t \in Seq(S)
             /\ \A k \in DOMAIN t : \E i \in 1 .. n : i \in set /\ s[i] = t[k]
             /\ \A i \in 1 .. n : i \in set => \E k \in DOMAIN t : t[k] = s[i]
           N == {n \in Nat : n <= Len(s) => Good(n, upto[n])}
<1>2. 0 \in N
  <2>1. upto[0] = <<>>
    BY <1>1 DEF Selects
  <2>2. Good(0, <<>>)
    OBVIOUS
  <2> QED
    BY <2>1, <2>2
<1>3. ASSUME NEW n \in Nat, n \in N PROVE n + 1 \in N
  <2> SUFFICES ASSUME n + 1 <= Len(s) PROVE Good(n + 1, upto[n + 1])
    OBVIOUS
  <2>1. /\ n <= Len(s) /\ n + 1 \in 0 .. Len(s) /\ n + 1 # 0 /\ (n + 1) - 1 = n
        /\ n + 1 \in DOMAIN s
    OBVIOUS
  <2>2. Good(n, upto[n])
    BY <1>3, <2>1
  <2>3. upto[n + 1] = IF n + 1 \in set THEN Append(upto[n], s[n + 1]) ELSE upto[n]
    BY <1>1, <2>1 DEF Selects
  <2>4. s[n + 1] \in S
    BY <2>1
  <2>5. \A i \in 1 .. n + 1 : i \in 1 .. n \/ i = n + 1
    OBVIOUS
  <2>6. n + 1 \in 1 .. n + 1 /\ \A i \in 1 .. n : i \in 1 .. n + 1
    OBVIOUS
  <2>7. CASE n + 1 \notin set
    BY <2>2, <2>3, <2>5, <2>6, <2>7
  <2>8. CASE n + 1 \in set
    <3> DEFINE t == upto[n]
               u == Append(t, s[n + 1])
    <3>1. t \in Seq(S)
      BY <2>2
    <3> HIDE DEF t
    <3>2. /\ u \in Seq(S) /\ DOMAIN u = 1 .. Len(t) + 1 /\ DOMAIN t = 1 .. Len(t)
          /\ \A k \in 1 .. Len(t) : u[k] = t[k]
          /\ u[Len(t) + 1] = s[n + 1]
      BY <2>4, <3>1
    <3>3. /\ \A k \in 1 .. Len(t) + 1 : k \in 1 .. Len(t) \/ k = Len(t) + 1
          /\ \A k \in 1 .. Len(t) : k \in 1 .. Len(t) + 1
          /\ Len(t) + 1 \in 1 .. Len(t) + 1
      BY <3>1
    <3>4. upto[n + 1] = u
      BY <2>3, <2>8 DEF t
    <3>5. Good(n, t)
      BY <2>2 DEF t
    <3> HIDE DEF u
    <3>6. \A k \in DOMAIN u : \E i \in 1 .. n + 1 : i \in set /\ s[i] = u[k]
      BY <2>6, <2>8, <3>2, <3>3, <3>5
    <3>7. \A i \in 1 .. n + 1 : i \in set => \E k \in DOMAIN u : u[k] = s[i]
      BY <2>5, <3>2, <3>3, <3>5
    <3> QED
      BY <3>2, <3>4, <3>6, <3>7
  <2> QED
    BY <2>7, <2>8
<1>4. Nat \subseteq N
  <2> HIDE DEF N
  <2> QED
    BY <1>2, <1>3, NaturalsByInduction
<1>5. Good(Len(s), upto[Len(s)])
  <2>1. Len(s) \in Nat /\ Len(s) <= Len(s)
    OBVIOUS
  <2> HIDE DEF Good
  <2> QED
    BY <1>4, <2>1
<1>6. DOMAIN s = 1 .. Len(s)
  OBVIOUS
<1> QED
  BY <1>1, <1>5, <1>6 DEF Selected

\* e places the elements of s at the positions of the set, each at a place of its own in t.
PlacedBy(e, t, s, set) ==
  \A i \in DOMAIN s : i \in set =>
    /\ e[i] \in DOMAIN t
    /\ t[e[i]] = s[i]
    /\ \A j \in DOMAIN s : j \in set /\ e[j] = e[i] => j = i

\* No element at the positions of the set is lost, equal ones are not merged.
LEMMA SubsequencePlaces ==
  ASSUME NEW S, NEW s \in Seq(S), NEW set
  PROVE  \E e : PlacedBy(e, Subsequence(s, set), s, set)
<1>1. PICK upto : Selects(upto, s, set) /\ Subsequence(s, set) = upto[Len(s)]
  BY SubsequenceDefined
<1> DEFINE Places(n, t, e) ==
             \A i \in 1 .. n : i \in set =>
               /\ e[i] \in DOMAIN t
               /\ t[e[i]] = s[i]
               /\ \A j \in 1 .. n : j \in set /\ e[j] = e[i] => j = i
           Good(n, t) == t \in Seq(S) /\ \E e : Places(n, t, e)
           N == {n \in Nat : n <= Len(s) => Good(n, upto[n])}
<1>2. 0 \in N
  <2>1. upto[0] = <<>>
    BY <1>1 DEF Selects
  <2>2. Good(0, <<>>)
    <3>1. \A e : Places(0, <<>>, e)
      OBVIOUS
    <3>2. <<>> \in Seq(S)
      OBVIOUS
    <3> HIDE DEF Places
    <3> QED
      BY <3>1, <3>2
  <2> HIDE DEF Good
  <2> QED
    BY <2>1, <2>2
<1>3. ASSUME NEW n \in Nat, n \in N PROVE n + 1 \in N
  <2> SUFFICES ASSUME n + 1 <= Len(s) PROVE Good(n + 1, upto[n + 1])
    OBVIOUS
  <2> DEFINE t == upto[n]
  <2>1. /\ n <= Len(s) /\ n + 1 \in 0 .. Len(s) /\ n + 1 # 0 /\ (n + 1) - 1 = n
        /\ n + 1 \in DOMAIN s
    OBVIOUS
  <2>2. Good(n, t)
    <3> HIDE DEF Good
    <3> QED
      BY <1>3, <2>1
  <2>3. PICK e : Places(n, t, e)
    <3> HIDE DEF Places
    <3> QED
      BY <2>2
  <2>4. upto[n + 1] = IF n + 1 \in set THEN Append(t, s[n + 1]) ELSE t
    BY <1>1, <2>1 DEF Selects
  <2>5. s[n + 1] \in S /\ t \in Seq(S)
    BY <2>1, <2>2
  <2>6. \A i \in 1 .. n + 1 : i \in 1 .. n \/ i = n + 1
    OBVIOUS
  <2> HIDE DEF t
  <2>7. CASE n + 1 \notin set
    <3>1. Places(n + 1, t, e)
      BY <2>3, <2>6, <2>7
    <3>2. upto[n + 1] = t
      BY <2>4, <2>7
    <3> HIDE DEF Places
    <3> QED
      BY <2>5, <3>1, <3>2
  <2>8. CASE n + 1 \in set
    <3> DEFINE u == Append(t, s[n + 1])
               d == [i \in 1 .. n + 1 |-> IF i = n + 1 THEN Len(t) + 1 ELSE e[i]]
    <3>1. /\ u \in Seq(S) /\ DOMAIN u = 1 .. Len(t) + 1 /\ DOMAIN t = 1 .. Len(t)
          /\ \A k \in 1 .. Len(t) : u[k] = t[k]
          /\ u[Len(t) + 1] = s[n + 1]
      BY <2>5
    <3>2. /\ \A k \in 1 .. Len(t) : k \in 1 .. Len(t) + 1 /\ k # Len(t) + 1
          /\ Len(t) + 1 \in 1 .. Len(t) + 1
      BY <2>5
    <3>3. /\ \A i \in 1 .. n : i # n + 1 /\ i \in 1 .. n + 1
          /\ n + 1 \in 1 .. n + 1
      OBVIOUS
    <3>4. (\A i \in 1 .. n : d[i] = e[i]) /\ d[n + 1] = Len(t) + 1
      BY <3>3
    <3> HIDE DEF u, d
    <3>5. Places(n + 1, u, d)
      <4> SUFFICES ASSUME NEW i \in 1 .. n + 1, i \in set
                   PROVE  /\ d[i] \in DOMAIN u
                          /\ u[d[i]] = s[i]
                          /\ \A j \in 1 .. n + 1 : j \in set /\ d[j] = d[i] => j = i
        OBVIOUS
      <4>1. \A j \in 1 .. n : j \in set =>
              /\ d[j] \in 1 .. Len(t) /\ d[j] # Len(t) + 1 /\ d[j] \in 1 .. Len(t) + 1
              /\ u[d[j]] = s[j]
              /\ \A k \in 1 .. n : k \in set /\ d[k] = d[j] => k = j
        BY <2>3, <3>1, <3>2, <3>4
      <4>2. CASE i = n + 1
        BY <2>6, <3>1, <3>2, <3>4, <4>1, <4>2
      <4>3. CASE i \in 1 .. n
        BY <2>6, <3>1, <3>4, <4>1, <4>3
      <4> QED
        BY <2>6, <4>2, <4>3
    <3>6. upto[n + 1] = u
      BY <2>4, <2>8 DEF u
    <3> HIDE DEF Places
    <3> QED
      BY <3>1, <3>5, <3>6
  <2> QED
    BY <2>7, <2>8
<1>4. Nat \subseteq N
  <2> HIDE DEF N
  <2> QED
    BY <1>2, <1>3, NaturalsByInduction
<1>5. Good(Len(s), upto[Len(s)])
  <2>1. Len(s) \in Nat /\ Len(s) <= Len(s)
    OBVIOUS
  <2> HIDE DEF Good
  <2> QED
    BY <1>4, <2>1
<1>6. DOMAIN s = 1 .. Len(s)
  OBVIOUS
<1> QED
  BY <1>1, <1>5, <1>6 DEF PlacedBy

\* A finite set in a sequence.
LEMMA SequenceOfSet ==
  ASSUME NEW S, IsFiniteSet(S)
  PROVE  /\ SetToSeq(S) \in Seq(S)
         /\ \A x \in S : \E i \in DOMAIN SetToSeq(S) : SetToSeq(S)[i] = x
<1> DEFINE n == Cardinality(S)
           P(f) == f \in [1 .. n -> S] /\ IsInjective(f)
           s == CHOOSE f : P(f)
<1>1. SetToSeq(S) = CHOOSE f \in [1 .. n -> S] : IsInjective(f)
  BY DEF SetToSeq
<1>2. n \in Nat /\ ExistsBijection(1 .. n, S)
  BY FS_CardinalityType
<1>3. \E f \in [1 .. n -> S] : IsInjective(f)
  BY <1>2 DEF ExistsBijection, Bijection, Injection, IsInjective
<1>4. SetToSeq(S) \in [1 .. n -> S] /\ IsInjective(SetToSeq(S))
  <2> HIDE DEF n
  <2> QED
    BY <1>1, <1>3
<1>5. SetToSeq(S) \in Injection(1 .. n, S)
  BY <1>4 DEF Injection
<1>6. Cardinality(1 .. n) = n
  BY <1>2, FS_Interval
<1>7. SetToSeq(S) \in Surjection(1 .. n, S)
  BY <1>5, <1>6, FS_Injection
<1>8. SetToSeq(S) \in Seq(S)
  BY <1>2, <1>4, IsASeq
<1>9. \A x \in S : \E i \in 1 .. n : SetToSeq(S)[i] = x
  BY <1>7 DEF Surjection, Range
<1> QED
  BY <1>4, <1>8, <1>9

=============================================================================
