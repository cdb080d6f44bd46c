---- MODULE SumTheorems ----
(***************************************************************************)
(* Sums of the values of a function, as the amounts of an escrow's         *)
(* milestones and the shares of a resolution are added up: the sum over a  *)
(* finite set does not depend on the order in which it is taken.           *)
(*                                                                         *)
(* The sum of the community modules is a recursive function.  What it      *)
(* computes is proved by induction over the subsets of a finite set, which *)
(* are well-founded under inclusion.  The induction is stated of a set of  *)
(* subsets in place of a predicate, so that every theorem is of the first  *)
(* order.                                                                  *)
(***************************************************************************)
EXTENDS Integers, Functions, FiniteSetTheorems, TLAPS

\* Whatever holds of the empty set, and of a set when it holds of the set
\* without each one of its elements, holds of every finite set.
THEOREM SubsetInduction ==
  ASSUME NEW S, IsFiniteSet(S), NEW Good, {} \in Good,
         \A T \in SUBSET S : T # {} /\ (\A x \in T : T \ {x} \in Good) => T \in Good
  PROVE  SUBSET S \subseteq Good
<1> DEFINE Bad == {T \in SUBSET S : T \notin Good}
<1> SUFFICES ASSUME Bad # {} PROVE FALSE
  OBVIOUS
<1>1. IsWellFoundedOn(StrictSubsetOrdering(S), FiniteSubsetsOf(S))
  BY FS_StrictSubsetOrderingWellFounded
<1>2. Bad \subseteq FiniteSubsetsOf(S)
  BY FS_FiniteSubsetsOfFinite
<1>3. PICK T \in Bad : \A U \in Bad : <<U, T>> \notin StrictSubsetOrdering(S)
  <2> HIDE DEF Bad
  <2> QED  BY <1>1, <1>2, WFMin
<1>4. T # {}
  OBVIOUS
<1>5. ASSUME NEW x \in T PROVE T \ {x} \in Good
  <2>1. <<T \ {x}, T>> \in StrictSubsetOrdering(S)
    BY DEF StrictSubsetOrdering
  <2> QED  BY <1>3, <2>1
<1> QED  BY <1>4, <1>5

First(s) == CHOOSE x \in s : TRUE

\* g adds up the values of f over every set of the collection D.
Adds(g, f, D) ==
    g = [s \in D |-> IF s = {} THEN 0 ELSE f[First(s)] + g[s \ {First(s)}]]

LEMMA SumIsChosen ==
  ASSUME NEW f, NEW S
  PROVE  SumFunctionOnSet(f, S) = (CHOOSE g : Adds(g, f, SUBSET S))[S]
  BY DEF SumFunctionOnSet, FoldFunctionOnSet, MapThenFoldSet, Adds, First

LEMMA FirstIsMember == ASSUME NEW s, s # {} PROVE First(s) \in s
  BY DEF First

UpTo(S, n) == {s \in SUBSET S : Cardinality(s) <= n}

\* What adds up the small sets extends to those with one element more.
LEMMA AddsExtends ==
  ASSUME NEW f, NEW S, IsFiniteSet(S), NEW n \in Nat, NEW g,
         Adds(g, f, UpTo(S, n))
  PROVE  \E h : Adds(h, f, UpTo(S, n + 1))
<1> DEFINE Small == UpTo(S, n)
           Larger == UpTo(S, n + 1)
           h == [s \in Larger |-> IF s = {} THEN 0 ELSE f[First(s)] + g[s \ {First(s)}]]
<1>1. ASSUME NEW s \in Larger, s # {}
      PROVE  s \ {First(s)} \in Small
  <2>1. IsFiniteSet(s) /\ First(s) \in s
    BY <1>1, FS_Subset, FirstIsMember DEF UpTo
  <2>2. Cardinality(s) \in Nat /\ Cardinality(s \ {First(s)}) = Cardinality(s) - 1
    BY <2>1, FS_CardinalityType, FS_RemoveElement
  <2> QED  BY <1>1, <2>2 DEF UpTo
<1>2. Small \subseteq Larger
  <2>1. ASSUME NEW s \in Small PROVE Cardinality(s) \in Nat
    BY FS_Subset, FS_CardinalityType DEF UpTo
  <2> QED  BY <2>1 DEF UpTo
<1>3. ASSUME NEW s \in Small PROVE h[s] = g[s]
  BY <1>2 DEF Adds
<1>4. h = [s \in Larger |-> IF s = {} THEN 0 ELSE f[First(s)] + h[s \ {First(s)}]]
  BY <1>1, <1>3
<1> QED  BY <1>4 DEF Adds

LEMMA AddsExists ==
  ASSUME NEW f, NEW S, IsFiniteSet(S)
  PROVE  \E g : Adds(g, f, SUBSET S)
<1> DEFINE Good == {T \in SUBSET S : \E g : Adds(g, f, UpTo(S, Cardinality(T)))}
<1>1. {} \in Good
  <2>1. UpTo(S, Cardinality({})) = {{}}
    BY FS_EmptySet, FS_Subset, FS_CardinalityType DEF UpTo
  <2>2. Adds([s \in {{}} |-> 0], f, {{}})
    BY DEF Adds
  <2> QED  BY <2>1, <2>2
<1>2. ASSUME NEW T \in SUBSET S, NEW x \in T, T \ {x} \in Good PROVE T \in Good
  <2>1. IsFiniteSet(T) /\ IsFiniteSet(T \ {x})
    BY FS_Subset
  <2>2. Cardinality(T) \in Nat /\ Cardinality(T \ {x}) \in Nat
    BY <2>1, FS_CardinalityType
  <2>3. Cardinality(T \ {x}) = Cardinality(T) - 1
    BY <2>1, FS_RemoveElement
  <2>4. PICK n \in Nat : n = Cardinality(T \ {x}) /\ n + 1 = Cardinality(T)
    BY <2>2, <2>3
  <2>5. PICK g : Adds(g, f, UpTo(S, n))
    BY <1>2, <2>4
  <2>6. \E h : Adds(h, f, UpTo(S, n + 1))
    BY <2>5, AddsExtends
  <2> QED  BY <2>4, <2>6
<1>3. S \in Good
  <2> HIDE DEF Good
  <2>1. ASSUME NEW T \in SUBSET S, T # {}, \A x \in T : T \ {x} \in Good PROVE T \in Good
    BY <1>2, <2>1
  <2> QED  BY <1>1, <2>1, SubsetInduction
<1>4. UpTo(S, Cardinality(S)) = SUBSET S
  BY FS_Subset DEF UpTo
<1> QED  BY <1>3, <1>4

LEMMA SumAdds ==
  ASSUME NEW f, NEW S, IsFiniteSet(S)
  PROVE  \E g : Adds(g, f, SUBSET S) /\ SumFunctionOnSet(f, S) = g[S]
  BY AddsExists, SumIsChosen

\* Two functions that add up f agree on the sets that both add up.
LEMMA AddsUnique ==
  ASSUME NEW f, NEW S, IsFiniteSet(S), NEW T \in SUBSET S, NEW g, NEW h,
         Adds(g, f, SUBSET S), Adds(h, f, SUBSET T)
  PROVE  g[T] = h[T]
<1> DEFINE Good == {s \in SUBSET T : g[s] = h[s]}
<1>1. IsFiniteSet(T)
  BY FS_Subset
<1>2. {} \in Good
  BY DEF Adds
<1>3. ASSUME NEW s \in SUBSET T, s # {}, \A x \in s : s \ {x} \in Good PROVE s \in Good
  <2>1. s \ {First(s)} \in Good
    BY <1>3, FirstIsMember
  <2> QED  BY <1>3, <2>1 DEF Adds
<1>4. SUBSET T \subseteq Good
  <2> HIDE DEF Good
  <2> QED  BY <1>1, <1>2, <1>3, SubsetInduction
<1> QED  BY <1>4

\* The sum over nothing is zero, and the sum over something is the value of
\* its first element and the sum over the others.
LEMMA SumUnfolds ==
  ASSUME NEW f, NEW S, IsFiniteSet(S)
  PROVE  SumFunctionOnSet(f, S) = IF S = {} THEN 0
                                  ELSE f[First(S)] + SumFunctionOnSet(f, S \ {First(S)})
<1> DEFINE T == S \ {First(S)}
<1>1. PICK g : Adds(g, f, SUBSET S) /\ SumFunctionOnSet(f, S) = g[S]
  BY SumAdds
<1>2. IsFiniteSet(T) /\ T \in SUBSET S
  BY FS_Subset
<1>3. PICK h : Adds(h, f, SUBSET T) /\ SumFunctionOnSet(f, T) = h[T]
  BY <1>2, SumAdds
<1>4. g[T] = h[T]
  BY <1>1, <1>2, <1>3, AddsUnique
<1>5. g[S] = IF S = {} THEN 0 ELSE f[First(S)] + g[T]
  BY <1>1 DEF Adds
<1> QED  BY <1>1, <1>3, <1>4, <1>5

\* The sum over nothing is zero.
THEOREM SumOfNothing == ASSUME NEW f PROVE SumFunctionOnSet(f, {}) = 0
  BY FS_EmptySet, SumUnfolds

\* A sum of integers is an integer.
THEOREM SumIsInt ==
  ASSUME NEW S, IsFiniteSet(S), NEW f, \A x \in S : f[x] \in Int
  PROVE  SumFunctionOnSet(f, S) \in Int
<1> DEFINE Good == {T \in SUBSET S : SumFunctionOnSet(f, T) \in Int}
<1>1. {} \in Good
  BY SumOfNothing
<1>2. ASSUME NEW T \in SUBSET S, T # {}, \A x \in T : T \ {x} \in Good PROVE T \in Good
  <2>1. IsFiniteSet(T) /\ First(T) \in T
    BY <1>2, FS_Subset, FirstIsMember
  <2>2. SumFunctionOnSet(f, T) = f[First(T)] + SumFunctionOnSet(f, T \ {First(T)})
    BY <1>2, <2>1, SumUnfolds
  <2> QED  BY <1>2, <2>1, <2>2
<1>3. S \in Good
  <2> HIDE DEF Good
  <2>1. ASSUME NEW T \in SUBSET S, T # {}, \A x \in T : T \ {x} \in Good PROVE T \in Good
    BY <1>2, <2>1
  <2> QED  BY <1>1, <2>1, SubsetInduction
<1> QED  BY <1>3

LEMMA SubSumIsInt ==
  ASSUME NEW S, IsFiniteSet(S), NEW f, \A x \in S : f[x] \in Int, NEW T \in SUBSET S
  PROVE  IsFiniteSet(T) /\ SumFunctionOnSet(f, T) \in Int
<1>1. IsFiniteSet(T) /\ \A x \in T : f[x] \in Int
  BY FS_Subset
<1> QED  BY <1>1, SumIsInt

\* Whichever element is taken first: a sum is the value of any of its elements
\* and the sum over the others.
THEOREM SumRemoves ==
  ASSUME NEW S, IsFiniteSet(S), NEW f, \A x \in S : f[x] \in Int, NEW m \in S
  PROVE  SumFunctionOnSet(f, S) = f[m] + SumFunctionOnSet(f, S \ {m})
<1> DEFINE Removes(T) ==
             \A x \in T : SumFunctionOnSet(f, T) = f[x] + SumFunctionOnSet(f, T \ {x})
           Good == {T \in SUBSET S : Removes(T)}
<1>1. {} \in Good
  OBVIOUS
<1>2. ASSUME NEW T \in SUBSET S, T # {}, \A x \in T : T \ {x} \in Good,
             NEW x \in T
      PROVE  SumFunctionOnSet(f, T) = f[x] + SumFunctionOnSet(f, T \ {x})
  <2>1. PICK c \in T : c = First(T)
    BY <1>2, FirstIsMember
  <2>2. SumFunctionOnSet(f, T) = f[c] + SumFunctionOnSet(f, T \ {c})
    BY <2>1, FS_Subset, SumUnfolds
  <2>3. CASE x # c
    <3>1. /\ SumFunctionOnSet(f, T \ {c}) = f[x] + SumFunctionOnSet(f, (T \ {c}) \ {x})
          /\ SumFunctionOnSet(f, T \ {x}) = f[c] + SumFunctionOnSet(f, (T \ {x}) \ {c})
      BY <1>2, <2>3
    <3>2. (T \ {c}) \ {x} = (T \ {x}) \ {c}
      OBVIOUS
    <3>3. PICK a \in Int, b \in Int, rest \in Int :
            a = f[x] /\ b = f[c] /\ rest = SumFunctionOnSet(f, (T \ {x}) \ {c})
      BY SubSumIsInt
    <3>4. SumFunctionOnSet(f, T) = b + (a + rest) /\ SumFunctionOnSet(f, T \ {x}) = b + rest
      BY <2>2, <3>1, <3>2, <3>3
    <3>5. b + (a + rest) = a + (b + rest)
      OBVIOUS
    <3> QED  BY <3>3, <3>4, <3>5
  <2> QED  BY <2>2, <2>3
<1>3. S \in Good
  <2>1. ASSUME NEW T \in SUBSET S, T # {}, \A x \in T : T \ {x} \in Good PROVE T \in Good
    BY <1>2, <2>1
  <2> HIDE DEF Good
  <2> QED  BY <1>1, <2>1, SubsetInduction
<1> QED  BY <1>3

\* A sum depends on the values over its set alone.
THEOREM SumDependsOnValues ==
  ASSUME NEW S, IsFiniteSet(S), NEW f, NEW g, \A x \in S : f[x] = g[x]
  PROVE  SumFunctionOnSet(f, S) = SumFunctionOnSet(g, S)
<1> DEFINE Good == {T \in SUBSET S : SumFunctionOnSet(f, T) = SumFunctionOnSet(g, T)}
<1>1. {} \in Good
  BY SumOfNothing
<1>2. ASSUME NEW T \in SUBSET S, T # {}, \A x \in T : T \ {x} \in Good PROVE T \in Good
  <2>1. IsFiniteSet(T) /\ First(T) \in T
    BY <1>2, FS_Subset, FirstIsMember
  <2>2. /\ SumFunctionOnSet(f, T) = f[First(T)] + SumFunctionOnSet(f, T \ {First(T)})
        /\ SumFunctionOnSet(g, T) = g[First(T)] + SumFunctionOnSet(g, T \ {First(T)})
    BY <1>2, <2>1, SumUnfolds
  <2> QED  BY <1>2, <2>1, <2>2
<1>3. S \in Good
  <2> HIDE DEF Good
  <2>1. ASSUME NEW T \in SUBSET S, T # {}, \A x \in T : T \ {x} \in Good PROVE T \in Good
    BY <1>2, <2>1
  <2> QED  BY <1>1, <2>1, SubsetInduction
<1> QED  BY <1>3

\* A sum of natural numbers is one, and no smaller than any of them.
THEOREM SumIsNat ==
  ASSUME NEW S, IsFiniteSet(S), NEW f, \A x \in S : f[x] \in Nat
  PROVE  /\ SumFunctionOnSet(f, S) \in Nat
         /\ \A x \in S : f[x] <= SumFunctionOnSet(f, S)
<1> DEFINE Good == {T \in SUBSET S : SumFunctionOnSet(f, T) \in Nat}
<1>1. {} \in Good
  BY SumOfNothing
<1>2. ASSUME NEW T \in SUBSET S, T # {}, \A x \in T : T \ {x} \in Good PROVE T \in Good
  <2>1. IsFiniteSet(T) /\ First(T) \in T
    BY <1>2, FS_Subset, FirstIsMember
  <2>2. SumFunctionOnSet(f, T) = f[First(T)] + SumFunctionOnSet(f, T \ {First(T)})
    BY <1>2, <2>1, SumUnfolds
  <2> QED  BY <1>2, <2>1, <2>2
<1>3. SUBSET S \subseteq Good
  <2> HIDE DEF Good
  <2>1. ASSUME NEW T \in SUBSET S, T # {}, \A x \in T : T \ {x} \in Good PROVE T \in Good
    BY <1>2, <2>1
  <2> QED  BY <1>1, <2>1, SubsetInduction
<1>4. ASSUME NEW x \in S PROVE f[x] <= SumFunctionOnSet(f, S)
  <2>1. SumFunctionOnSet(f, S) = f[x] + SumFunctionOnSet(f, S \ {x})
    BY SumRemoves
  <2>2. SumFunctionOnSet(f, S \ {x}) \in Nat
    BY <1>3
  <2> QED  BY <2>1, <2>2
<1> QED  BY <1>3, <1>4

\* What is zero need not be added.
THEOREM SumSkipsZeros ==
  ASSUME NEW S, IsFiniteSet(S), NEW f, \A x \in S : f[x] \in Int,
         NEW P \in SUBSET S, \A x \in S \ P : f[x] = 0
  PROVE  SumFunctionOnSet(f, P) = SumFunctionOnSet(f, S)
<1> DEFINE Good == {T \in SUBSET S : SumFunctionOnSet(f, T \cap P) = SumFunctionOnSet(f, T)}
<1>1. {} \in Good
  BY SumOfNothing
<1>2. ASSUME NEW T \in SUBSET S, NEW x \in T, T \ {x} \in Good PROVE T \in Good
  <2>1. SumFunctionOnSet(f, T) = f[x] + SumFunctionOnSet(f, T \ {x})
    BY FS_Subset, SumRemoves
  <2>2. SumFunctionOnSet(f, (T \ {x}) \cap P) = SumFunctionOnSet(f, T \ {x})
    BY <1>2
  <2>3. SumFunctionOnSet(f, T \ {x}) \in Int
    BY SubSumIsInt
  <2>4. CASE x \in P
    <3>1. SumFunctionOnSet(f, T \cap P) = f[x] + SumFunctionOnSet(f, (T \cap P) \ {x})
      BY <2>4, FS_Subset, SumRemoves
    <3>2. (T \cap P) \ {x} = (T \ {x}) \cap P
      OBVIOUS
    <3> QED  BY <2>1, <2>2, <3>1, <3>2
  <2>5. CASE x \notin P
    <3>1. (T \ {x}) \cap P = T \cap P /\ f[x] = 0
      BY <2>5
    <3>2. SumFunctionOnSet(f, T) = SumFunctionOnSet(f, T \ {x})
      BY <2>1, <2>3, <3>1
    <3> QED  BY <2>2, <3>1, <3>2
  <2> QED  BY <2>4, <2>5
<1>3. S \in Good
  <2> HIDE DEF Good
  <2>1. ASSUME NEW T \in SUBSET S, T # {}, \A x \in T : T \ {x} \in Good PROVE T \in Good
    BY <1>2, <2>1
  <2> QED  BY <1>1, <2>1, SubsetInduction
<1> QED  BY <1>3

\* A sum is at most as many times a bound of its values as it has values.
THEOREM SumIsBounded ==
  ASSUME NEW S, IsFiniteSet(S), NEW bound \in Int, NEW f,
         \A x \in S : f[x] \in Int /\ f[x] <= bound
  PROVE  SumFunctionOnSet(f, S) <= Cardinality(S) * bound
<1> DEFINE Good == {T \in SUBSET S : SumFunctionOnSet(f, T) <= Cardinality(T) * bound}
<1>1. {} \in Good
  BY SumOfNothing, FS_EmptySet
<1>2. ASSUME NEW T \in SUBSET S, NEW x \in T, T \ {x} \in Good PROVE T \in Good
  <2>1. SumFunctionOnSet(f, T) = f[x] + SumFunctionOnSet(f, T \ {x})
    BY FS_Subset, SumRemoves
  <2>2. PICK a \in Int, rest \in Int : a = f[x] /\ rest = SumFunctionOnSet(f, T \ {x})
    BY SubSumIsInt
  <2>3. PICK n \in Nat : n = Cardinality(T) - 1 /\ n = Cardinality(T \ {x}) /\ Cardinality(T) = n + 1
    <3>1. IsFiniteSet(T) /\ IsFiniteSet(T \ {x})
      BY FS_Subset
    <3>2. Cardinality(T) \in Nat /\ Cardinality(T \ {x}) \in Nat
      BY <3>1, FS_CardinalityType
    <3> QED  BY <3>1, <3>2, FS_RemoveElement
  <2>4. a <= bound /\ rest <= n * bound
    BY <1>2, <2>2, <2>3
  <2>5. a + rest <= (n + 1) * bound
    BY <2>4
  <2> QED  BY <2>1, <2>2, <2>3, <2>5
<1>3. S \in Good
  <2> HIDE DEF Good
  <2>1. ASSUME NEW T \in SUBSET S, T # {}, \A x \in T : T \ {x} \in Good PROVE T \in Good
    BY <1>2, <2>1
  <2> QED  BY <1>1, <2>1, SubsetInduction
<1> QED  BY <1>3
====
