------------------------------ MODULE SetSums ------------------------------
(***************************************************************************)
(* What sums over finite sets of integers do, for the proofs about stock   *)
(* and about receipts.                                                     *)
(*                                                                         *)
(* SumFunctionOnSet is a fold of the community modules, which chooses the  *)
(* next member of a set.  That a sum does not depend on the choice is      *)
(* shown by induction over the subsets of a finite set, along the          *)
(* well-founded orderings of the proof library: an inductive property is   *)
(* given as the set Q of what has it, so that no operator is a parameter.  *)
(***************************************************************************)
EXTENDS Integers, FiniteSets, Functions, FiniteSetTheorems, WellFoundedInduction, TLAPS

\* What holds of every set that it holds of all the way down to the empty set.
LEMMA SetInduction ==
  ASSUME NEW S, IsFiniteSet(S), NEW Q,
         \A T \in SUBSET S : (\A x \in T : T \ {x} \in Q) => T \in Q
  PROVE  SUBSET S \subseteq Q
<1> DEFINE Bad == {T \in SUBSET S : T \notin Q}
           R == StrictSubsetOrdering(S)
<1> SUFFICES ASSUME Bad # {} PROVE FALSE
  OBVIOUS
<1>1. IsWellFoundedOn(R, SUBSET S)
  <2>1. IsWellFoundedOn(R, FiniteSubsetsOf(S))
    BY FS_StrictSubsetOrderingWellFounded
  <2>2. FiniteSubsetsOf(S) = SUBSET S
    BY FS_FiniteSubsetsOfFinite
  <2> QED
    BY Zenon, <2>1, <2>2
<1>2. PICK T \in Bad : \A U \in Bad : ~ (<< U, T >> \in R)
  <2>1. Bad \subseteq SUBSET S
    OBVIOUS
  <2> HIDE DEF Bad, R
  <2> QED
    BY <1>1, <2>1, WFMin
<1>3. ASSUME NEW x \in T PROVE T \ {x} \in Q
  <2>1. << T \ {x}, T >> \in R
    BY <1>2 DEF StrictSubsetOrdering
  <2>2. T \ {x} \in SUBSET S
    OBVIOUS
  <2> QED
    BY <1>2, <2>1, <2>2
<1> QED
  BY <1>3

\* Induction, for a set of numbers.
LEMMA NatSetInduction ==
  ASSUME NEW Q, 0 \in Q, \A n \in Nat : n \in Q => n + 1 \in Q
  PROVE  \A n \in Nat : n \in Q
<1> SUFFICES ASSUME NEW n \in Nat, n \notin Q PROVE FALSE
  OBVIOUS
<1> DEFINE Bad == {m \in Nat : m \notin Q}
           R == OpToRel(<, Nat)
<1>1. IsWellFoundedOn(R, Nat)
  BY NatLessThanWellFounded
<1>2. Bad \subseteq Nat /\ Bad # {}
  OBVIOUS
<1>3. PICK m \in Bad : \A k \in Bad : ~ (<< k, m >> \in R)
  <2> HIDE DEF Bad, R
  <2> QED
    BY <1>1, <1>2, WFMin
<1>4. m # 0 /\ m \in Nat
  BY <1>3
<1>5. << m - 1, m >> \in R
  BY <1>4 DEF OpToRel
<1>6. m - 1 \in Nat /\ m - 1 \in Q
  <2> HIDE DEF R
  <2> QED
    BY <1>3, <1>4, <1>5
<1>7. m \in Q
  <2> HIDE DEF R, Bad
  <2> QED
    BY <1>4, <1>6
<1> QED
  BY Zenon, <1>3, <1>7

IsSum(f, S, it) == it = [s \in SUBSET S |->
                      IF s = {} THEN 0
                      ELSE LET x == CHOOSE x \in s : TRUE IN f[x] + it[s \ {x}]]
Iter(f, S) == CHOOSE it : IsSum(f, S, it)

LEMMA SumIsIter == ASSUME NEW f, NEW S PROVE SumFunctionOnSet(f, S) = Iter(f, S)[S]
  BY Zenon DEF SumFunctionOnSet, FoldFunctionOnSet, MapThenFoldSet, Iter, IsSum

\* The recursion that defines a sum has a solution, with integer values.
LEMMA IterExists ==
  ASSUME NEW S, IsFiniteSet(S), NEW f, \A x \in S : f[x] \in Int
  PROVE  \E it \in [SUBSET S -> Int] : IsSum(f, S, it)
<1> DEFINE Sub(n) == {T \in SUBSET S : Cardinality(T) <= n}
           Value(it, s) == IF s = {} THEN 0
                          ELSE LET x == CHOOSE x \in s : TRUE IN f[x] + it[s \ {x}]
           Good == {n \in Nat : \E it \in [Sub(n) -> Int] :
                                  it = [s \in Sub(n) |-> Value(it, s)]}
<1>1. ASSUME NEW T \in SUBSET S
      PROVE  /\ IsFiniteSet(T) /\ Cardinality(T) \in Nat
             /\ Cardinality(T) = 0 <=> T = {}
             /\ \A x \in T : Cardinality(T \ {x}) = Cardinality(T) - 1
  <2>1. IsFiniteSet(T)
    BY FS_Subset
  <2> QED
    BY <2>1, FS_CardinalityType, FS_EmptySet, FS_RemoveElement
<1>2. 0 \in Good
  <2> DEFINE it == [s \in Sub(0) |-> 0]
  <2>1. \A s \in Sub(0) : s = {}
    BY <1>1
  <2>2. \A s \in Sub(0) : Value(it, s) = 0
    BY <2>1
  <2>3. it = [s \in Sub(0) |-> Value(it, s)]
    BY <2>2
  <2>4. it \in [Sub(0) -> Int]
    OBVIOUS
  <2> QED
    BY Zenon, <2>3, <2>4
<1>3. ASSUME NEW n \in Nat, n \in Good PROVE n + 1 \in Good
  <2>1. PICK it \in [Sub(n) -> Int] : it = [s \in Sub(n) |-> Value(it, s)]
    BY Zenon, <1>3
  <2> DEFINE up == [s \in Sub(n + 1) |-> Value(it, s)]
  <2>2. ASSUME NEW s \in Sub(n + 1), s # {}
        PROVE  LET x == CHOOSE x \in s : TRUE IN x \in s /\ f[x] \in Int /\ s \ {x} \in Sub(n)
    BY <1>1, <2>2
  <2>3. up \in [Sub(n + 1) -> Int]
    <3>1. ASSUME NEW s \in Sub(n + 1) PROVE Value(it, s) \in Int
      BY <2>2
    <3> QED
      BY <3>1
  <2>4. \A s \in Sub(n) : s \in Sub(n + 1) /\ up[s] = it[s]
    <3>1. \A s \in Sub(n) : s \in Sub(n + 1)
      BY <1>1
    <3>2. \A s \in Sub(n) : it[s] = Value(it, s)
      <4> HIDE DEF Value, Sub
      <4> QED
        BY Zenon, <2>1
    <3> HIDE DEF Value, Sub
    <3> QED
      BY <3>1, <3>2
  <2>5. \A s \in Sub(n + 1) : Value(it, s) = Value(up, s)
    <3> SUFFICES ASSUME NEW s \in Sub(n + 1), s # {} PROVE Value(it, s) = Value(up, s)
      OBVIOUS
    <3> DEFINE x == CHOOSE x \in s : TRUE
    <3>1. up[s \ {x}] = it[s \ {x}]
      <4>1. s \ {x} \in Sub(n)
        BY <2>2
      <4> HIDE DEF up, Sub, x
      <4> QED
        BY <2>4, <4>1
    <3> HIDE DEF up
    <3> QED
      BY <3>1
  <2>6. up = [s \in Sub(n + 1) |-> Value(up, s)]
    <3> HIDE DEF Value, Sub
    <3> QED
      BY <2>5
  <2>7. \E g \in [Sub(n + 1) -> Int] : g = [s \in Sub(n + 1) |-> Value(g, s)]
    <3> HIDE DEF up, Value, Sub
    <3> QED
      BY Zenon, <2>3, <2>6
  <2> HIDE DEF Value, Sub
  <2> QED
    BY <2>7
<1>4. \A n \in Nat : n \in Good
  <2> HIDE DEF Good
  <2> QED
    BY <1>2, <1>3, NatSetInduction
<1>5. PICK n \in Nat : n = Cardinality(S)
  BY FS_CardinalityType
<1>6. Sub(n) = SUBSET S
  BY <1>5, FS_Subset
<1>7. PICK it \in [Sub(n) -> Int] : it = [s \in Sub(n) |-> Value(it, s)]
  BY Zenon, <1>4
<1> HIDE DEF Sub
<1>8. it \in [SUBSET S -> Int] /\ it = [s \in SUBSET S |-> Value(it, s)]
  BY Zenon, <1>6, <1>7
<1> QED
  BY Zenon, <1>8 DEF IsSum

LEMMA IterDef ==
  ASSUME NEW S, IsFiniteSet(S), NEW f, \A x \in S : f[x] \in Int
  PROVE  IsSum(f, S, Iter(f, S))
  BY Zenon, IterExists DEF Iter

LEMMA IterUnique ==
  ASSUME NEW S, IsFiniteSet(S), NEW T \in SUBSET S, NEW f, \A x \in S : f[x] \in Int
  PROVE  \A U \in SUBSET T : Iter(f, S)[U] = Iter(f, T)[U]
<1> DEFINE g == Iter(f, S)
           h == Iter(f, T)
           Q == {U \in SUBSET T : g[U] = h[U]}
<1>1. IsFiniteSet(T) /\ \A x \in T : f[x] \in Int
  BY FS_Subset
<1>2. IsSum(f, S, g) /\ IsSum(f, T, h)
  BY <1>1, IterDef
<1> HIDE DEF g, h
<1>3. ASSUME NEW U \in SUBSET T, \A x \in U : U \ {x} \in Q PROVE g[U] = h[U]
  <2>1. CASE U = {}
    BY <1>2, <2>1 DEF IsSum
  <2>2. CASE U # {}
    <3> DEFINE c == CHOOSE x \in U : TRUE
    <3>1. c \in U
      BY <2>2
    <3>2. g[U] = f[c] + g[U \ {c}] /\ h[U] = f[c] + h[U \ {c}]
      BY <1>2, <2>2 DEF IsSum
    <3> QED
      BY <1>3, <3>1, <3>2
  <2> QED
    BY <2>1, <2>2
<1>4. SUBSET T \subseteq Q
  <2>1. \A U \in SUBSET T : (\A x \in U : U \ {x} \in Q) => U \in Q
    BY <1>3
  <2> HIDE DEF Q
  <2> QED
    BY <1>1, <2>1, SetInduction
<1> QED
  BY <1>4 DEF g, h

\* A sum is nothing, or some element and the rest.
LEMMA SumStep ==
  ASSUME NEW S, IsFiniteSet(S), NEW f, \A x \in S : f[x] \in Int
  PROVE  /\ S = {} => SumFunctionOnSet(f, S) = 0
         /\ S # {} => \E c \in S : SumFunctionOnSet(f, S) = f[c] + SumFunctionOnSet(f, S \ {c})
<1> DEFINE g == Iter(f, S)
<1>1. IsSum(f, S, g) /\ SumFunctionOnSet(f, S) = g[S]
  BY IterDef, SumIsIter
<1>2. \A T \in SUBSET S : SumFunctionOnSet(f, T) = g[T]
  <2> SUFFICES ASSUME NEW T \in SUBSET S PROVE SumFunctionOnSet(f, T) = g[T]
    OBVIOUS
  <2>1. g[T] = Iter(f, T)[T]
    BY IterUnique
  <2> QED
    BY Zenon, <2>1, SumIsIter
<1> HIDE DEF g
<1>3. CASE S = {}
  <2>1. g[S] = 0
    BY <1>1, <1>3 DEF IsSum
  <2> QED
    BY <1>1, <1>3, <2>1
<1>4. CASE S # {}
  <2> DEFINE c == CHOOSE x \in S : TRUE
  <2>1. c \in S
    BY <1>4
  <2>2. g[S] = f[c] + g[S \ {c}]
    BY <1>1, <1>4 DEF IsSum
  <2>3. SumFunctionOnSet(f, S \ {c}) = g[S \ {c}]
    BY <1>2, <2>1
  <2> QED
    BY Zenon, <1>1, <1>4, <2>1, <2>2, <2>3
<1> QED
  BY <1>3, <1>4

\* The sum of a finite set of integers is an integer, and an element may be
\* taken out of it.
LEMMA SumRemove ==
  ASSUME NEW S, IsFiniteSet(S), NEW f, \A x \in S : f[x] \in Int
  PROVE  /\ SumFunctionOnSet(f, S) \in Int
         /\ \A y \in S : SumFunctionOnSet(f, S) = f[y] + SumFunctionOnSet(f, S \ {y})
<1> DEFINE Total(T) == SumFunctionOnSet(f, T)
           Q == {T \in SUBSET S : /\ Total(T) \in Int
                                  /\ \A y \in T : /\ Total(T \ {y}) \in Int
                                                   /\ Total(T) = f[y] + Total(T \ {y})}
<1>1. ASSUME NEW T \in SUBSET S, \A x \in T : T \ {x} \in Q PROVE T \in Q
  <2>1. IsFiniteSet(T) /\ \A x \in T : f[x] \in Int
    BY FS_Subset
  <2>2. CASE T = {}
    <3>1. Total(T) = 0
      BY <2>1, <2>2, SumStep
    <3> HIDE DEF Total
    <3> QED
      BY <2>2, <3>1
  <2>3. CASE T # {}
    <3>1. PICK c \in T : Total(T) = f[c] + Total(T \ {c})
      BY <2>1, <2>3, SumStep
    <3> HIDE DEF Total
    <3>2. T \ {c} \in Q
      BY <1>1
    <3>3. Total(T \ {c}) \in Int /\ f[c] \in Int
      BY <2>1, <3>2
    <3>4. ASSUME NEW y \in T PROVE Total(T) = f[y] + Total(T \ {y})
      <4>1. CASE y = c
        BY <3>1, <4>1
      <4>2. CASE y # c
        <5>1. Total(T \ {c}) = f[y] + Total((T \ {c}) \ {y})
          BY <3>2, <4>2
        <5>2. T \ {y} \in Q
          BY <1>1
        <5>3. Total(T \ {y}) = f[c] + Total((T \ {y}) \ {c})
          BY <4>2, <5>2
        <5>4. (T \ {c}) \ {y} = (T \ {y}) \ {c}
          OBVIOUS
        <5>6. Total(T \ {y}) \in Int /\ f[y] \in Int
          BY <2>1, <5>2
        <5> DEFINE rest == Total((T \ {y}) \ {c})
        <5>7. rest \in Int
          BY <3>2, <4>2, <5>4
        <5> QED
          BY <3>1, <3>3, <5>1, <5>3, <5>4, <5>6, <5>7
      <4> QED
        BY <4>1, <4>2
    <3>5. \A y \in T : Total(T \ {y}) \in Int
      BY <1>1
    <3> QED
      BY <3>1, <3>3, <3>4, <3>5
  <2> QED
    BY <2>2, <2>3
<1>2. SUBSET S \subseteq Q
  <2> HIDE DEF Q
  <2> QED
    BY <1>1, SetInduction
<1> HIDE DEF Total
<1>3. S \in Q
  BY <1>2
<1> QED
  BY <1>3 DEF Total

LEMMA SumEmpty == ASSUME NEW f PROVE SumFunctionOnSet(f, {}) = 0
  BY FS_EmptySet, SumStep

\* Sums of sums, and of parts.
LEMMA SumAdd ==
  ASSUME NEW S, IsFiniteSet(S), NEW f, NEW g, NEW h,
         \A x \in S : f[x] \in Int /\ g[x] \in Int /\ h[x] = f[x] + g[x]
  PROVE  SumFunctionOnSet(h, S) = SumFunctionOnSet(f, S) + SumFunctionOnSet(g, S)
<1> DEFINE F(T) == SumFunctionOnSet(f, T)
           G(T) == SumFunctionOnSet(g, T)
           H(T) == SumFunctionOnSet(h, T)
           Q == {T \in SUBSET S : H(T) = F(T) + G(T)}
<1>1. ASSUME NEW T \in SUBSET S, \A x \in T : T \ {x} \in Q PROVE H(T) = F(T) + G(T)
  <2>1. IsFiniteSet(T) /\ \A x \in T : f[x] \in Int /\ g[x] \in Int /\ h[x] \in Int
    BY FS_Subset
  <2>2. CASE T = {}
    <3>1. F(T) = 0 /\ G(T) = 0 /\ H(T) = 0
      BY <2>2, SumEmpty
    <3> QED
      BY <3>1
  <2>3. CASE T # {}
    <3>1. PICK y \in T : TRUE
      BY <2>3
    <3>2. F(T) = f[y] + F(T \ {y}) /\ F(T \ {y}) \in Int
      <4>1. IsFiniteSet(T \ {y}) /\ \A x \in T \ {y} : f[x] \in Int
        BY <2>1, FS_Subset
      <4> QED
        BY <2>1, <4>1, SumRemove
    <3>3. G(T) = g[y] + G(T \ {y}) /\ G(T \ {y}) \in Int
      <4>1. IsFiniteSet(T \ {y}) /\ \A x \in T \ {y} : g[x] \in Int
        BY <2>1, FS_Subset
      <4> QED
        BY <2>1, <4>1, SumRemove
    <3>4. H(T) = h[y] + H(T \ {y})
      BY <2>1, SumRemove
    <3> HIDE DEF F, G, H
    <3>5. H(T \ {y}) = F(T \ {y}) + G(T \ {y})
      BY <1>1
    <3>6. f[y] \in Int /\ g[y] \in Int /\ h[y] = f[y] + g[y]
      BY <2>1
    <3> QED
      BY <3>2, <3>3, <3>4, <3>5, <3>6
  <2> QED
    BY <2>2, <2>3
<1>2. SUBSET S \subseteq Q
  <2>1. \A T \in SUBSET S : (\A x \in T : T \ {x} \in Q) => T \in Q
    BY <1>1
  <2> HIDE DEF Q
  <2> QED
    BY <2>1, SetInduction
<1> HIDE DEF F, G, H
<1>3. H(S) = F(S) + G(S)
  BY <1>2
<1> QED
  BY <1>3 DEF F, G, H

LEMMA SumPart ==
  ASSUME NEW S, IsFiniteSet(S), NEW T \in SUBSET S, NEW f, NEW h,
         \A x \in S : h[x] \in Int,
         \A x \in T : h[x] = f[x], \A x \in S \ T : h[x] = 0
  PROVE  SumFunctionOnSet(h, S) = SumFunctionOnSet(f, T)
<1> DEFINE F(U) == SumFunctionOnSet(f, U)
           H(U) == SumFunctionOnSet(h, U)
           Q == {U \in SUBSET S : H(U) = F(U \cap T)}
<1>1. ASSUME NEW U \in SUBSET S, \A x \in U : U \ {x} \in Q PROVE H(U) = F(U \cap T)
  <2>1. IsFiniteSet(U) /\ IsFiniteSet(U \cap T) /\ \A x \in U : h[x] \in Int
    BY FS_Subset
  <2>2. CASE U = {}
    <3>1. U \cap T = {} /\ H({}) = 0 /\ F({}) = 0
      BY <2>2, SumEmpty
    <3> HIDE DEF F, H
    <3> QED
      BY <2>2, <3>1
  <2>3. CASE U # {}
    <3>1. PICK y \in U : TRUE
      BY <2>3
    <3>2. H(U) = h[y] + H(U \ {y}) /\ H(U \ {y}) \in Int
      <4>1. IsFiniteSet(U \ {y}) /\ \A x \in U \ {y} : h[x] \in Int
        BY <2>1, FS_Subset
      <4> QED
        BY <2>1, <4>1, SumRemove
    <3>3. y \in T => F(U \cap T) = f[y] + F((U \cap T) \ {y})
      <4>1. \A x \in U \cap T : f[x] \in Int
        <5>1. \A x \in U \cap T : h[x] \in Int /\ h[x] = f[x]
          OBVIOUS
        <5> QED
          BY Zenon, <5>1
      <4> QED
        BY <2>1, <4>1, SumRemove
    <3> HIDE DEF F, H
    <3>4. H(U \ {y}) = F((U \ {y}) \cap T)
      BY <1>1
    <3>5. CASE y \in T
      <4>1. (U \ {y}) \cap T = (U \cap T) \ {y}
        OBVIOUS
      <4>2. h[y] = f[y]
        BY <3>5
      <4> QED
        BY Zenon, <3>2, <3>3, <3>4, <3>5, <4>1, <4>2
    <3>6. CASE y \notin T
      <4>1. (U \ {y}) \cap T = U \cap T /\ h[y] = 0
        BY <3>6
      <4>2. H(U) = H(U \ {y})
        BY <3>2, <4>1
      <4> QED
        BY Zenon, <3>4, <4>1, <4>2
    <3> QED
      BY <3>5, <3>6
  <2> QED
    BY <2>2, <2>3
<1>2. SUBSET S \subseteq Q
  <2>1. \A U \in SUBSET S : (\A x \in U : U \ {x} \in Q) => U \in Q
    BY <1>1
  <2> HIDE DEF Q
  <2> QED
    BY <2>1, SetInduction
<1> HIDE DEF F, H
<1>3. S \cap T = T /\ H(S) = F(S \cap T)
  BY <1>2
<1> QED
  BY <1>3 DEF F, H

LEMMA SumZero ==
  ASSUME NEW S, IsFiniteSet(S), NEW f, \A x \in S : f[x] = 0
  PROVE  SumFunctionOnSet(f, S) = 0
<1>1. SumFunctionOnSet(f, S) = SumFunctionOnSet(f, {})
  <2>1. {} \in SUBSET S /\ (\A x \in S : f[x] \in Int) /\ (\A x \in {} : f[x] = f[x])
        /\ \A x \in S \ {} : f[x] = 0
    OBVIOUS
  <2> QED
    BY <2>1, SumPart
<1> QED
  BY Zenon, <1>1, SumEmpty

LEMMA SumOne ==
  ASSUME NEW x, NEW f, f[x] \in Int
  PROVE  SumFunctionOnSet(f, {x}) = f[x]
<1>1. IsFiniteSet({x}) /\ \A y \in {x} : f[y] \in Int
  BY FS_Singleton
<1>2. SumFunctionOnSet(f, {x}) = f[x] + SumFunctionOnSet(f, {x} \ {x})
  BY <1>1, SumRemove
<1>3. {x} \ {x} = {}
  OBVIOUS
<1>4. SumFunctionOnSet(f, {x} \ {x}) = 0
  BY Zenon, <1>3, SumEmpty
<1> QED
  BY <1>2, <1>4

\* A part of a sum of natural numbers is no more than the whole.
LEMMA SumMore ==
  ASSUME NEW S, IsFiniteSet(S), NEW T \in SUBSET S, NEW f, \A x \in S : f[x] \in Nat
  PROVE  /\ SumFunctionOnSet(f, T) \in Nat
         /\ SumFunctionOnSet(f, T) <= SumFunctionOnSet(f, S)
<1> DEFINE F(U) == SumFunctionOnSet(f, U)
           Q == {U \in SUBSET S : F(U \cap T) \in Nat /\ F(U) \in Nat /\ F(U \cap T) <= F(U)}
<1>1. ASSUME NEW U \in SUBSET S, \A x \in U : U \ {x} \in Q PROVE U \in Q
  <2>1. /\ IsFiniteSet(U) /\ IsFiniteSet(U \cap T)
        /\ (\A x \in U : f[x] \in Int) /\ (\A x \in U \cap T : f[x] \in Int)
    BY FS_Subset
  <2>2. CASE U = {}
    <3>1. U \cap T = {} /\ F({}) = 0
      BY <2>2, SumEmpty
    <3> HIDE DEF F
    <3> QED
      BY <2>2, <3>1
  <2>3. CASE U # {}
    <3>1. PICK y \in U : TRUE
      BY <2>3
    <3>2. F(U) = f[y] + F(U \ {y})
      BY <2>1, SumRemove
    <3>3. y \in T => F(U \cap T) = f[y] + F((U \cap T) \ {y})
      BY <2>1, SumRemove
    <3> HIDE DEF F
    <3>4. LET V == (U \ {y}) \cap T
          IN  F(V) \in Nat /\ F(U \ {y}) \in Nat /\ F(V) <= F(U \ {y})
      BY <1>1
    <3>5. f[y] \in Nat
      OBVIOUS
    <3>6. CASE y \in T
      <4>1. (U \ {y}) \cap T = (U \cap T) \ {y}
        OBVIOUS
      <4>2. F((U \ {y}) \cap T) = F((U \cap T) \ {y})
        BY Zenon, <4>1
      <4>3. F(U \cap T) \in Nat /\ F(U) \in Nat /\ F(U \cap T) <= F(U)
        BY <3>2, <3>3, <3>4, <3>5, <3>6, <4>2
      <4> QED
        BY <4>3
    <3>7. CASE y \notin T
      <4>1. (U \ {y}) \cap T = U \cap T
        BY <3>7
      <4> QED
        BY <3>2, <3>4, <3>5, <4>1
    <3> QED
      BY <3>6, <3>7
  <2> QED
    BY <2>2, <2>3
<1>2. SUBSET S \subseteq Q
  <2> HIDE DEF Q
  <2> QED
    BY <1>1, SetInduction
<1> HIDE DEF F
<1>3. S \cap T = T /\ S \in Q
  BY <1>2
<1> QED
  BY <1>3 DEF F
=============================================================================
