---------------------------- MODULE SumTheorems ----------------------------
(***************************************************************************)
(* Facts about the sums the models are written with, SumFunction and       *)
(* SumFunctionOnSet of the community module Functions, for every finite    *)
(* set.  They are proved by induction over the subsets of a finite set,    *)
(* which needs no operator as a parameter: the smallest counterexample of  *)
(* a set of naturals is a fact of the first order.                         *)
(***************************************************************************)
EXTENDS Integers, FiniteSets, Functions, TLAPS, WellFoundedInduction, FiniteSetTheorems

\* The pairs of naturals in order.
Below == {p \in Nat \X Nat : p[1] < p[2]}

\* The order of the naturals has no infinite descent.
LEMMA BelowWellFounded == IsWellFoundedOn(Below, Nat)
<1>1. IsWellFoundedOn(OpToRel(<, Nat), Nat)
  BY NatLessThanWellFounded
<1>2. Below = OpToRel(<, Nat)
  BY DEF Below, OpToRel
<1> QED BY <1>1, <1>2

\* A set of naturals has a smallest element.
LEMMA SmallestElement ==
  ASSUME NEW T \in SUBSET Nat, T # {}
  PROVE  \E m \in T : \A k \in T : m <= k
<1>1. PICK m \in T : \A k \in T : ~(<<k, m>> \in Below)
  BY BelowWellFounded, WFMin
<1>2. ASSUME NEW k \in T PROVE m <= k
  <2>1. <<k, m>> \in Nat \X Nat OBVIOUS
  <2>2. ~(k < m)
    BY <1>1, <2>1 DEF Below
  <2> QED BY <2>2
<1> QED BY <1>2

\* A nonempty set of numbers below a bound has a largest one.
LEMMA LargestElement ==
  ASSUME NEW T \in SUBSET Nat, T # {}, NEW n \in Nat, \A k \in T : k <= n
  PROVE  \E m \in T : \A k \in T : k <= m
<1> DEFINE B == {b \in Nat : \A k \in T : k <= b}
<1>1. PICK m \in B : \A b \in B : m <= b
  <2>1. B \in SUBSET Nat /\ n \in B
    OBVIOUS
  <2> HIDE DEF B
  <2> QED BY <2>1, SmallestElement
<1>2. m \in T
  <2> SUFFICES ASSUME m \notin T PROVE FALSE
    OBVIOUS
  <2>1. m \in Nat /\ \A k \in T : k <= m
    BY <1>1
  <2>2. \A k \in T : k \in Nat /\ k # m
    OBVIOUS
  <2>3. \A k \in T : k <= m - 1
    BY <2>1, <2>2
  <2>4. m - 1 \in Nat
    <3>1. PICK k \in T : TRUE
      OBVIOUS
    <3>2. k \in Nat /\ k <= m - 1
      BY <2>2, <2>3
    <3> QED BY <2>1, <3>2
  <2>5. m - 1 \in B
    BY <2>3, <2>4
  <2>6. m <= m - 1
    BY <1>1, <2>5
  <2> QED BY <2>1, <2>6
<1> QED BY <1>1, <1>2

\* Induction over the subsets of a finite set: Q holds of S when it holds of
\* every part from which any element may be taken without leaving Q.
LEMMA SubsetInduction ==
  ASSUME NEW S, IsFiniteSet(S), NEW Q,
         \A T \in SUBSET S : (\A x \in T : T \ {x} \in Q) => T \in Q
  PROVE  S \in Q
<1> SUFFICES ASSUME S \notin Q PROVE FALSE
  OBVIOUS
<1> DEFINE Bad == {T \in SUBSET S : T \notin Q}
           Sizes == {Cardinality(T) : T \in Bad}
<1>1. \A T \in SUBSET S : IsFiniteSet(T) /\ Cardinality(T) \in Nat
  BY FS_Subset, FS_CardinalityType
<1>2. Sizes \in SUBSET Nat /\ Sizes # {}
  BY <1>1
<1>3. PICK m \in Sizes : \A k \in Sizes : m <= k
  <2> HIDE DEF Sizes
  <2> QED BY <1>2, SmallestElement
<1>4. PICK T \in Bad : m = Cardinality(T)
  BY <1>3
<1>5. PICK x \in T : T \ {x} \notin Q
  BY <1>4
<1>6. T \ {x} \in Bad
  BY <1>4, <1>5
<1>7. Cardinality(T \ {x}) = Cardinality(T) - 1
  BY <1>1, <1>4, <1>5, FS_RemoveElement
<1>8. m <= Cardinality(T \ {x})
  BY <1>3, <1>6
<1>9. Cardinality(T) \in Nat
  BY <1>1, <1>4
<1> QED BY <1>4, <1>7, <1>8, <1>9

-----------------------------------------------------------------------------
\* g is the sum of f over every part of S.
IsSum(g, f, S) ==
  g = [T \in SUBSET S |-> IF T = {} THEN 0
                          ELSE LET x == CHOOSE x \in T : TRUE IN f[x] + g[T \ {x}]]

\* A sum is the value at S of a function that satisfies the recursion.
LEMMA SumUnfold ==
  ASSUME NEW f, NEW S
  PROVE  SumFunctionOnSet(f, S) = (CHOOSE g : IsSum(g, f, S))[S]
BY Zenon DEF SumFunctionOnSet, FoldFunctionOnSet, MapThenFoldSet, IsSum

\* The element of T a sum takes first.
Picked(T) == CHOOSE x \in T : TRUE

\* The recursion has a solution.
LEMMA SumExists ==
  ASSUME NEW f, NEW S, IsFiniteSet(S)
  PROVE  \E g : IsSum(g, f, S)
<1> DEFINE Small(n) == {T \in SUBSET S : Cardinality(T) <= n}
           Step(g, T) == IF T = {} THEN 0 ELSE f[Picked(T)] + g[T \ {Picked(T)}]
           Solves(g, n) == g = [T \in Small(n) |-> Step(g, T)]
           Open == {n \in Nat : ~\E g : Solves(g, n)}
<1>0. \A T \in SUBSET S : IsFiniteSet(T) /\ Cardinality(T) \in Nat
  BY FS_Subset, FS_CardinalityType
<1>1. \A T \in SUBSET S : T # {} => /\ Picked(T) \in T
                                    /\ Cardinality(T \ {Picked(T)}) = Cardinality(T) - 1
  BY <1>0, FS_RemoveElement DEF Picked
<1>2. Open = {}
  <2> SUFFICES ASSUME Open # {} PROVE FALSE
    OBVIOUS
  <2>1. PICK n \in Open : \A k \in Open : n <= k
    <3> HIDE DEF Open
    <3>1. Open \in SUBSET Nat BY DEF Open
    <3> QED BY <3>1, SmallestElement
  <2>2. CASE n = 0
    <3> DEFINE g == [T \in Small(0) |-> 0]
    <3>1. \A T \in Small(0) : T = {}
      BY <1>0, FS_EmptySet
    <3>2. Solves(g, 0)
      BY <3>1
    <3> QED BY <2>1, <2>2, <3>2
  <2>3. CASE n # 0
    <3>1. n - 1 \in Nat /\ n - 1 \notin Open
      <4>1. n \in Nat BY <2>1
      <4> HIDE DEF Open
      <4> QED BY <2>1, <2>3, <4>1
    <3>2. PICK g : Solves(g, n - 1)
      BY <3>1
    <3> DEFINE h == [T \in Small(n) |-> Step(g, T)]
    <3>3. \A T \in Small(n - 1) : T \in Small(n) /\ h[T] = g[T]
      <4>1. ASSUME NEW T \in Small(n - 1) PROVE T \in Small(n) /\ h[T] = g[T]
        <5>1. T \in Small(n)
          BY <1>0, <2>1
        <5>2. g[T] = Step(g, T)
          BY <3>2
        <5> QED BY <5>1, <5>2
      <4> QED BY <4>1
    <3>4. \A T \in Small(n) : Step(g, T) = Step(h, T)
      <4>1. ASSUME NEW T \in Small(n), T # {} PROVE T \ {Picked(T)} \in Small(n - 1)
        BY <4>1, <1>0, <1>1, <2>1
      <4> QED BY <4>1, <3>3
    <3>5. Solves(h, n)
      BY <3>4
    <3> QED BY <2>1, <3>5
  <2> QED BY <2>2, <2>3
<1>3. PICK g : Solves(g, Cardinality(S))
  <2>1. Cardinality(S) \in Nat BY <1>0
  <2> QED BY <1>2, <2>1
<1>4. Small(Cardinality(S)) = SUBSET S
  <2>1. \A T \in SUBSET S : Cardinality(T) <= Cardinality(S)
    BY FS_Subset
  <2> QED BY <2>1
<1>5. IsSum(g, f, S)
  BY <1>3, <1>4 DEF IsSum, Picked
<1> QED BY <1>5
\* A sum is the value at S of a solution.
LEMMA SumIsSum ==
  ASSUME NEW f, NEW S, IsFiniteSet(S)
  PROVE  \E g : IsSum(g, f, S) /\ SumFunctionOnSet(f, S) = g[S]
BY SumExists, SumUnfold

\* Two solutions agree where both are defined.
LEMMA SumsAgree ==
  ASSUME NEW f, NEW S, IsFiniteSet(S), NEW T \in SUBSET S,
         NEW g, IsSum(g, f, S), NEW h, IsSum(h, f, T)
  PROVE  g[T] = h[T]
<1> DEFINE Q == {U \in SUBSET T : g[U] = h[U]}
<1>1. {} \in Q
  BY DEF IsSum
<1>2. ASSUME NEW U \in SUBSET T, U # {}, \A x \in U : U \ {x} \in Q PROVE U \in Q
  <2>1. Picked(U) \in U /\ U \ {Picked(U)} \in SUBSET T
    BY <1>2 DEF Picked
  <2>2. g[U] = f[Picked(U)] + g[U \ {Picked(U)}] /\ h[U] = f[Picked(U)] + h[U \ {Picked(U)}]
    BY <1>2 DEF IsSum, Picked
  <2>3. g[U \ {Picked(U)}] = h[U \ {Picked(U)}]
    BY <1>2, <2>1
  <2> QED BY <2>2, <2>3
<1>3. IsFiniteSet(T)
  BY FS_Subset
<1>4. T \in Q
  <2> HIDE DEF Q
  <2>1. \A U \in SUBSET T : (\A x \in U : U \ {x} \in Q) => U \in Q
    BY <1>1, <1>2
  <2> QED BY <1>3, <2>1, SubsetInduction
<1> QED BY <1>4

\* The empty sum is zero.
LEMMA SumEmpty == ASSUME NEW f PROVE SumFunctionOnSet(f, {}) = 0
<1>1. IsFiniteSet({}) BY FS_EmptySet
<1>2. PICK g : IsSum(g, f, {}) /\ SumFunctionOnSet(f, {}) = g[{}]
  BY <1>1, SumIsSum
<1> QED BY <1>2 DEF IsSum

\* The equation of a sum: one element of it and the rest.
LEMMA SumPick ==
  ASSUME NEW f, NEW S, IsFiniteSet(S), S # {}
  PROVE  /\ Picked(S) \in S
         /\ SumFunctionOnSet(f, S) = f[Picked(S)] + SumFunctionOnSet(f, S \ {Picked(S)})
<1>1. Picked(S) \in S
  BY DEF Picked
<1>2. PICK g : IsSum(g, f, S) /\ SumFunctionOnSet(f, S) = g[S]
  BY SumIsSum
<1>3. IsFiniteSet(S \ {Picked(S)})
  BY FS_Subset
<1>4. PICK h : IsSum(h, f, S \ {Picked(S)}) /\ SumFunctionOnSet(f, S \ {Picked(S)}) = h[S \ {Picked(S)}]
  BY <1>3, SumIsSum
<1>5. g[S \ {Picked(S)}] = h[S \ {Picked(S)}]
  BY <1>2, <1>4, SumsAgree
<1>6. g[S] = f[Picked(S)] + g[S \ {Picked(S)}]
  BY <1>2 DEF IsSum, Picked
<1> QED BY <1>1, <1>2, <1>4, <1>5, <1>6

\* A sum of integers is an integer.
LEMMA SumInt ==
  ASSUME NEW f, NEW S, IsFiniteSet(S), \A x \in S : f[x] \in Int
  PROVE  SumFunctionOnSet(f, S) \in Int
<1> DEFINE Q == {T \in SUBSET S : SumFunctionOnSet(f, T) \in Int}
<1>1. {} \in Q
  BY SumEmpty
<1>2. ASSUME NEW T \in SUBSET S, T # {}, \A x \in T : T \ {x} \in Q PROVE T \in Q
  <2>1. IsFiniteSet(T) BY FS_Subset
  <2>2. Picked(T) \in T /\ SumFunctionOnSet(f, T) = f[Picked(T)] + SumFunctionOnSet(f, T \ {Picked(T)})
    BY <1>2, <2>1, SumPick
  <2> QED BY <1>2, <2>2
<1> HIDE DEF Q
<1>3. \A T \in SUBSET S : (\A x \in T : T \ {x} \in Q) => T \in Q
  BY <1>1, <1>2
<1>4. S \in Q
  BY <1>3, SubsetInduction
<1> QED BY <1>4 DEF Q

\* A sum of naturals is a natural.
LEMMA SumNat ==
  ASSUME NEW f, NEW S, IsFiniteSet(S), \A x \in S : f[x] \in Nat
  PROVE  SumFunctionOnSet(f, S) \in Nat
<1> DEFINE Q == {T \in SUBSET S : SumFunctionOnSet(f, T) \in Nat}
<1>1. {} \in Q
  BY SumEmpty
<1>2. ASSUME NEW T \in SUBSET S, T # {}, \A x \in T : T \ {x} \in Q PROVE T \in Q
  <2>1. IsFiniteSet(T) BY FS_Subset
  <2>2. Picked(T) \in T /\ SumFunctionOnSet(f, T) = f[Picked(T)] + SumFunctionOnSet(f, T \ {Picked(T)})
    BY <1>2, <2>1, SumPick
  <2> QED BY <1>2, <2>2
<1> HIDE DEF Q
<1>3. \A T \in SUBSET S : (\A x \in T : T \ {x} \in Q) => T \in Q
  BY <1>1, <1>2
<1>4. S \in Q
  BY <1>3, SubsetInduction
<1> QED BY <1>4 DEF Q

\* Any element can be taken out of a sum.
LEMMA SumRemove ==
  ASSUME NEW f, NEW S, IsFiniteSet(S), \A x \in S : f[x] \in Int, NEW x \in S
  PROVE  SumFunctionOnSet(f, S) = f[x] + SumFunctionOnSet(f, S \ {x})
<1> DEFINE Sum(T) == SumFunctionOnSet(f, T)
           Q == {T \in SUBSET S : \A y \in T : Sum(T) = f[y] + Sum(T \ {y})}
<1>1. {} \in Q
  OBVIOUS
<1>2. ASSUME NEW T \in SUBSET S, T # {}, \A z \in T : T \ {z} \in Q PROVE T \in Q
  <2> DEFINE p == Picked(T)
  <2>1. p \in T /\ Sum(T) = f[p] + Sum(T \ {p})
    BY <1>2, SumPick, FS_Subset
  <2>2. ASSUME NEW y \in T, y # p PROVE Sum(T) = f[y] + Sum(T \ {y})
    <3> DEFINE R == T \ {p, y}
    <3>1. Sum(T \ {p}) = f[y] + Sum(R)
      <4>1. (T \ {p}) \ {y} = R OBVIOUS
      <4> QED BY <1>2, <2>1, <2>2, <4>1
    <3>2. Sum(T \ {y}) = f[p] + Sum(R)
      <4>1. (T \ {y}) \ {p} = R OBVIOUS
      <4> QED BY <1>2, <2>1, <2>2, <4>1
    <3>3. SumFunctionOnSet(f, R) \in Int
      <4>1. R \in SUBSET S OBVIOUS
      <4> HIDE DEF R
      <4>2. IsFiniteSet(R) BY <4>1, FS_Subset
      <4> QED BY <4>1, <4>2, SumInt
    <3>4. f[p] \in Int /\ f[y] \in Int BY <2>1
    <3> HIDE DEF R, p
    <3> QED BY <2>1, <3>1, <3>2, <3>3, <3>4
  <2> QED BY <2>1, <2>2
<1> HIDE DEF Q
<1>3. \A T \in SUBSET S : (\A z \in T : T \ {z} \in Q) => T \in Q
  BY <1>1, <1>2
<1>4. S \in Q
  BY <1>3, SubsetInduction
<1> QED BY <1>4 DEF Q

\* Functions that agree on a set have one sum over it.
LEMMA SumAgrees ==
  ASSUME NEW S, IsFiniteSet(S), NEW f, NEW g,
         \A x \in S : f[x] = g[x]
  PROVE  SumFunctionOnSet(f, S) = SumFunctionOnSet(g, S)
<1> DEFINE Q == {T \in SUBSET S : SumFunctionOnSet(f, T) = SumFunctionOnSet(g, T)}
<1>1. {} \in Q
  BY SumEmpty
<1>2. ASSUME NEW T \in SUBSET S, T # {}, \A x \in T : T \ {x} \in Q PROVE T \in Q
  <2>1. IsFiniteSet(T) BY FS_Subset
  <2>2. /\ Picked(T) \in T /\ SumFunctionOnSet(f, T) = f[Picked(T)] + SumFunctionOnSet(f, T \ {Picked(T)})
        /\ SumFunctionOnSet(g, T) = g[Picked(T)] + SumFunctionOnSet(g, T \ {Picked(T)})
    BY <1>2, <2>1, SumPick
  <2> QED BY <1>2, <2>2
<1> HIDE DEF Q
<1>3. \A T \in SUBSET S : (\A x \in T : T \ {x} \in Q) => T \in Q
  BY <1>1, <1>2
<1>4. S \in Q
  BY <1>3, SubsetInduction
<1> QED BY <1>4 DEF Q

\* A function that is larger everywhere has a larger sum.
LEMMA SumMonotone ==
  ASSUME NEW S, IsFiniteSet(S), NEW f, NEW g,
         \A x \in S : f[x] \in Int /\ g[x] \in Int /\ f[x] <= g[x]
  PROVE  SumFunctionOnSet(f, S) <= SumFunctionOnSet(g, S)
<1> DEFINE Q == {T \in SUBSET S : SumFunctionOnSet(f, T) <= SumFunctionOnSet(g, T)}
<1>1. {} \in Q
  BY SumEmpty
<1>2. ASSUME NEW T \in SUBSET S, T # {}, \A x \in T : T \ {x} \in Q PROVE T \in Q
  <2>1. IsFiniteSet(T) BY FS_Subset
  <2>2. /\ Picked(T) \in T /\ SumFunctionOnSet(f, T) = f[Picked(T)] + SumFunctionOnSet(f, T \ {Picked(T)})
        /\ SumFunctionOnSet(g, T) = g[Picked(T)] + SumFunctionOnSet(g, T \ {Picked(T)})
    BY <1>2, <2>1, SumPick
  <2>3. SumFunctionOnSet(f, T \ {Picked(T)}) <= SumFunctionOnSet(g, T \ {Picked(T)})
    BY <1>2, <2>2
  <2>4. SumFunctionOnSet(f, T \ {Picked(T)}) \in Int /\ SumFunctionOnSet(g, T \ {Picked(T)}) \in Int
    <3>1. IsFiniteSet(T \ {Picked(T)}) BY <2>1, FS_Subset
    <3> QED BY <3>1, SumInt
  <2>5. f[Picked(T)] \in Int /\ g[Picked(T)] \in Int /\ f[Picked(T)] <= g[Picked(T)]
    BY <2>2
  <2>6. SumFunctionOnSet(f, T) <= SumFunctionOnSet(g, T)
    BY <2>2, <2>3, <2>4, <2>5
  <2> QED BY <2>6
<1> HIDE DEF Q
<1>3. \A T \in SUBSET S : (\A x \in T : T \ {x} \in Q) => T \in Q
  BY <1>1, <1>2
<1>4. S \in Q
  BY <1>3, SubsetInduction
<1> QED BY <1>4 DEF Q

\* A sum whose function changes at one element changes by as much.
LEMMA SumChange ==
  ASSUME NEW S, IsFiniteSet(S), NEW f, NEW g, NEW x \in S,
         \A y \in S : f[y] \in Int /\ g[y] \in Int,
         \A y \in S \ {x} : f[y] = g[y]
  PROVE  SumFunctionOnSet(g, S) = SumFunctionOnSet(f, S) + (g[x] - f[x])
<1>1. IsFiniteSet(S \ {x}) BY FS_Subset
<1>2. SumFunctionOnSet(f, S \ {x}) = SumFunctionOnSet(g, S \ {x})
  BY <1>1, SumAgrees
<1>3. SumFunctionOnSet(f, S \ {x}) \in Int
  BY <1>1, SumInt
<1>4. /\ SumFunctionOnSet(f, S) = f[x] + SumFunctionOnSet(f, S \ {x})
      /\ SumFunctionOnSet(g, S) = g[x] + SumFunctionOnSet(g, S \ {x})
  BY SumRemove
<1> QED BY <1>2, <1>3, <1>4

\* Sums over disjoint sets add up.
LEMMA SumUnion ==
  ASSUME NEW f, NEW S, IsFiniteSet(S), NEW T, IsFiniteSet(T), S \cap T = {},
         \A x \in S \cup T : f[x] \in Int
  PROVE  SumFunctionOnSet(f, S \cup T) = SumFunctionOnSet(f, S) + SumFunctionOnSet(f, T)
<1> DEFINE Q == {U \in SUBSET T :
                   SumFunctionOnSet(f, S \cup U) = SumFunctionOnSet(f, S) + SumFunctionOnSet(f, U)}
<1>0. SumFunctionOnSet(f, S) \in Int
  BY SumInt
<1>1. {} \in Q
  BY <1>0, SumEmpty
<1>2. ASSUME NEW U \in SUBSET T, U # {}, \A x \in U : U \ {x} \in Q PROVE U \in Q
  <2>1. PICK x \in U : TRUE BY <1>2
  <2>2. IsFiniteSet(U) /\ IsFiniteSet(U \ {x}) /\ IsFiniteSet(S \cup U)
    BY FS_Subset, FS_Union
  <2>3. SumFunctionOnSet(f, U) = f[x] + SumFunctionOnSet(f, U \ {x})
    BY <2>2, SumRemove
  <2>4. SumFunctionOnSet(f, S \cup U) = f[x] + SumFunctionOnSet(f, S \cup (U \ {x}))
    <3>1. (S \cup U) \ {x} = S \cup (U \ {x}) OBVIOUS
    <3> QED BY <2>2, <3>1, SumRemove
  <2>5. SumFunctionOnSet(f, S \cup (U \ {x}))
           = SumFunctionOnSet(f, S) + SumFunctionOnSet(f, U \ {x})
    BY <1>2
  <2>6. SumFunctionOnSet(f, U \ {x}) \in Int /\ f[x] \in Int
    BY <2>2, SumInt
  <2> QED BY <1>0, <2>3, <2>4, <2>5, <2>6
<1> HIDE DEF Q
<1>3. \A U \in SUBSET T : (\A x \in U : U \ {x} \in Q) => U \in Q
  BY <1>1, <1>2
<1>4. T \in Q
  BY <1>3, SubsetInduction
<1> QED BY <1>4 DEF Q

\* Sums of two functions add up, point by point.
LEMMA SumPlus ==
  ASSUME NEW S, IsFiniteSet(S), NEW f, NEW g, NEW h,
         \A x \in S : f[x] \in Int /\ g[x] \in Int /\ h[x] = f[x] + g[x]
  PROVE  SumFunctionOnSet(h, S) = SumFunctionOnSet(f, S) + SumFunctionOnSet(g, S)
<1> DEFINE Q == {T \in SUBSET S :
                   SumFunctionOnSet(h, T) = SumFunctionOnSet(f, T) + SumFunctionOnSet(g, T)}
<1>1. {} \in Q
  BY SumEmpty
<1>2. ASSUME NEW T \in SUBSET S, T # {}, \A x \in T : T \ {x} \in Q PROVE T \in Q
  <2>1. PICK x \in T : TRUE
    BY <1>2
  <2>2. IsFiniteSet(T) /\ IsFiniteSet(T \ {x})
    BY FS_Subset
  <2>3. \A y \in T : f[y] \in Int /\ g[y] \in Int /\ h[y] \in Int
    OBVIOUS
  <2>4. /\ SumFunctionOnSet(f, T) = f[x] + SumFunctionOnSet(f, T \ {x})
        /\ SumFunctionOnSet(g, T) = g[x] + SumFunctionOnSet(g, T \ {x})
        /\ SumFunctionOnSet(h, T) = h[x] + SumFunctionOnSet(h, T \ {x})
    BY <2>2, <2>3, SumRemove
  <2>5. SumFunctionOnSet(f, T \ {x}) \in Int /\ SumFunctionOnSet(g, T \ {x}) \in Int
    BY <2>2, <2>3, SumInt
  <2>6. SumFunctionOnSet(h, T \ {x}) = SumFunctionOnSet(f, T \ {x}) + SumFunctionOnSet(g, T \ {x})
    BY <1>2, <2>1
  <2>7. f[x] \in Int /\ g[x] \in Int /\ h[x] = f[x] + g[x]
    BY <2>1
  <2>8. SumFunctionOnSet(h, T) = SumFunctionOnSet(f, T) + SumFunctionOnSet(g, T)
    BY <2>4, <2>5, <2>6, <2>7
  <2> QED BY <2>8
<1> HIDE DEF Q
<1>3. \A T \in SUBSET S : (\A x \in T : T \ {x} \in Q) => T \in Q
  BY <1>1, <1>2
<1>4. S \in Q
  BY <1>3, SubsetInduction
<1> QED BY <1>4 DEF Q

\* A sum may be taken class by class: c[t] are the elements of class t.
LEMMA SumPartition ==
  ASSUME NEW S, IsFiniteSet(S), NEW T, IsFiniteSet(T), NEW c, NEW f, NEW p,
         \A x \in S : f[x] \in Int,
         \A t \in T : c[t] \in SUBSET S /\ p[t] = SumFunctionOnSet(f, c[t]),
         \A x \in S : \E t \in T : x \in c[t],
         \A t, u \in T : t # u => c[t] \cap c[u] = {}
  PROVE  SumFunctionOnSet(p, T) = SumFunctionOnSet(f, S)
<1> DEFINE In(U) == {x \in S : \E t \in U : x \in c[t]}
           Q == {U \in SUBSET T : SumFunctionOnSet(p, U) = SumFunctionOnSet(f, In(U))}
<1>1. {} \in Q
  <2>1. In({}) = {} OBVIOUS
  <2> QED BY <2>1, SumEmpty
<1>2. ASSUME NEW U \in SUBSET T, U # {}, \A t \in U : U \ {t} \in Q PROVE U \in Q
  <2>1. PICK t \in U : TRUE
    BY <1>2
  <2> DEFINE A == c[t]
             B == In(U \ {t})
  <2>2. IsFiniteSet(U) /\ IsFiniteSet(A) /\ IsFiniteSet(B)
    BY FS_Subset
  <2>3. A \cup B = In(U) /\ A \cap B = {} /\ \A x \in A \cup B : f[x] \in Int
    <3>1. A \cap B = {}
      BY <2>1
    <3>2. A \cup B = In(U)
      BY <2>1
    <3> QED BY <3>1, <3>2
  <2>4. SumFunctionOnSet(f, In(U)) = SumFunctionOnSet(f, A) + SumFunctionOnSet(f, B)
    <3> HIDE DEF A, B, In
    <3> QED BY <2>2, <2>3, SumUnion
  <2>5. SumFunctionOnSet(p, U \ {t}) = SumFunctionOnSet(f, B)
    BY <1>2, <2>1
  <2>6. p[t] = SumFunctionOnSet(f, A)
    BY <2>1
  <2>7. \A u \in U : p[u] \in Int
    <3>1. ASSUME NEW u \in U PROVE p[u] \in Int
      <4>1. IsFiniteSet(c[u]) /\ c[u] \in SUBSET S BY FS_Subset
      <4>2. SumFunctionOnSet(f, c[u]) \in Int BY <4>1, SumInt
      <4> QED BY <4>2
    <3> QED BY <3>1
  <2>8. SumFunctionOnSet(p, U) = p[t] + SumFunctionOnSet(p, U \ {t})
    BY <2>1, <2>2, <2>7, SumRemove
  <2> HIDE DEF A, B, In
  <2>9. SumFunctionOnSet(p, U) = SumFunctionOnSet(f, In(U))
    BY <2>4, <2>5, <2>6, <2>8
  <2> QED BY <2>9
<1>3. In(T) = S
  OBVIOUS
<1> HIDE DEF Q
<1>4. \A U \in SUBSET T : (\A t \in U : U \ {t} \in Q) => U \in Q
  BY <1>1, <1>2
<1>5. T \in Q
  BY <1>4, SubsetInduction
<1> QED BY <1>3, <1>5 DEF Q

\* A sum of naturals over a part is at most the sum over the whole.
LEMMA SumSubset ==
  ASSUME NEW S, IsFiniteSet(S), NEW T \in SUBSET S, NEW f, \A x \in S : f[x] \in Nat
  PROVE  SumFunctionOnSet(f, T) <= SumFunctionOnSet(f, S)
<1>1. IsFiniteSet(T) /\ IsFiniteSet(S \ T) BY FS_Subset
<1>2. S = T \cup (S \ T) /\ T \cap (S \ T) = {} OBVIOUS
<1>3. SumFunctionOnSet(f, T) \in Nat /\ SumFunctionOnSet(f, S \ T) \in Nat
  BY <1>1, SumNat
<1>4. SumFunctionOnSet(f, T \cup (S \ T)) = SumFunctionOnSet(f, T) + SumFunctionOnSet(f, S \ T)
  BY <1>1, <1>2, SumUnion
<1>5. SumFunctionOnSet(f, S) = SumFunctionOnSet(f, T \cup (S \ T))
  BY <1>2
<1> QED BY <1>3, <1>4, <1>5

\* SumFunction sums over the whole domain.
LEMMA SumWhole == ASSUME NEW f PROVE SumFunction(f) = SumFunctionOnSet(f, DOMAIN f)
BY Zenon DEF SumFunction, SumFunctionOnSet, FoldFunction, FoldFunctionOnSet

\* A sum of zeros is zero.
LEMMA SumZero ==
  ASSUME NEW S, IsFiniteSet(S), NEW f, \A x \in S : f[x] = 0
  PROVE  SumFunctionOnSet(f, S) = 0
<1> DEFINE Q == {T \in SUBSET S : SumFunctionOnSet(f, T) = 0}
<1>1. {} \in Q
  BY SumEmpty
<1>2. ASSUME NEW T \in SUBSET S, T # {}, \A x \in T : T \ {x} \in Q PROVE T \in Q
  <2>1. IsFiniteSet(T)
    BY FS_Subset
  <2>2. Picked(T) \in T /\ SumFunctionOnSet(f, T) = f[Picked(T)] + SumFunctionOnSet(f, T \ {Picked(T)})
    BY <1>2, <2>1, SumPick
  <2> QED BY <1>2, <2>2
<1> HIDE DEF Q
<1>3. \A T \in SUBSET S : (\A x \in T : T \ {x} \in Q) => T \in Q
  BY <1>1, <1>2
<1>4. S \in Q
  BY <1>3, SubsetInduction
<1> QED BY <1>4 DEF Q

\* A function's sum is that of any larger function which is zero elsewhere.
LEMMA SumExtend ==
  ASSUME NEW S, IsFiniteSet(S), NEW f, NEW g, DOMAIN f \subseteq S,
         \A x \in DOMAIN f : f[x] \in Int /\ g[x] = f[x],
         \A x \in S \ DOMAIN f : g[x] = 0
  PROVE  SumFunction(f) = SumFunctionOnSet(g, S)
<1> DEFINE T == DOMAIN f
<1>1. IsFiniteSet(T) /\ IsFiniteSet(S \ T)
  BY FS_Subset
<1>2. SumFunction(f) = SumFunctionOnSet(f, T)
  BY SumWhole
<1>3. SumFunctionOnSet(f, T) = SumFunctionOnSet(g, T)
  BY <1>1, SumAgrees
<1>4. SumFunctionOnSet(g, S \ T) = 0
  BY <1>1, SumZero
<1>5. SumFunctionOnSet(g, T \cup (S \ T)) = SumFunctionOnSet(g, T) + SumFunctionOnSet(g, S \ T)
  <2>1. T \cap (S \ T) = {} /\ \A x \in T \cup (S \ T) : g[x] \in Int
    OBVIOUS
  <2> HIDE DEF T
  <2> QED BY <1>1, <2>1, SumUnion
<1>6. SumFunctionOnSet(g, T) \in Int
  BY <1>1, SumInt
<1>7. T \cup (S \ T) = S
  OBVIOUS
<1>8. SumFunctionOnSet(g, S) = SumFunctionOnSet(g, T \cup (S \ T))
  BY <1>7
<1> QED BY <1>2, <1>3, <1>4, <1>5, <1>6, <1>8

\* A sum of the same number over and over.
LEMMA SumOfConstant ==
  ASSUME NEW S, IsFiniteSet(S), NEW c \in Int, NEW f, \A x \in S : f[x] = c
  PROVE  SumFunctionOnSet(f, S) = c * Cardinality(S)
<1> DEFINE Q == {T \in SUBSET S : SumFunctionOnSet(f, T) = c * Cardinality(T)}
<1>1. {} \in Q
  BY SumEmpty, FS_EmptySet
<1>2. ASSUME NEW T \in SUBSET S, T # {}, \A x \in T : T \ {x} \in Q PROVE T \in Q
  <2>1. IsFiniteSet(T) BY FS_Subset
  <2>2. PICK x \in T : TRUE BY <1>2
  <2>3. SumFunctionOnSet(f, T) = f[x] + SumFunctionOnSet(f, T \ {x})
    BY <2>1, SumRemove
  <2>4. SumFunctionOnSet(f, T \ {x}) = c * Cardinality(T \ {x})
    BY <1>2
  <2>5. Cardinality(T \ {x}) = Cardinality(T) - 1 /\ Cardinality(T) \in Nat
    BY <2>1, FS_RemoveElement, FS_CardinalityType
  <2>6. \A n \in Nat : c + c * (n - 1) = c * n
    BY SMT
  <2> QED BY <2>3, <2>4, <2>5, <2>6
<1> HIDE DEF Q
<1>3. \A T \in SUBSET S : (\A x \in T : T \ {x} \in Q) => T \in Q
  BY <1>1, <1>2
<1>4. S \in Q
  BY <1>3, SubsetInduction
<1> QED BY <1>4 DEF Q
=============================================================================
