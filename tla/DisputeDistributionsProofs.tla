---- MODULE DisputeDistributionsProofs ----
(***************************************************************************)
(* Proofs about DisputeDistributions: what splitStroops pays out, for any  *)
(* balance, any number of parties and any percentages.                     *)
(***************************************************************************)
EXTENDS DisputeDistributions, SumTheorems, TLAPS

\* An input the program may be given.
InputOK ==
    /\ total \in Nat
    /\ \E n \in 0..MaxParties : percentage \in [1..n -> Int]

\* What the checks of the input leave.
LEMMA InputAccepted ==
  ASSUME InputOK, assertAllocations
  PROVE  /\ IsFiniteSet(Allocations) /\ Allocations # {} /\ Allocations \subseteq Nat
         /\ Cardinality(Allocations) \in 1..MaxParties
         /\ \A i \in Allocations : percentage[i] \in 0..Whole
         /\ SumFunctionOnSet(percentage, Allocations) \in Nat
         /\ SumFunctionOnSet(percentage, Allocations) <= Whole + Tolerance
         /\ SumFunctionOnSet(percentage, Allocations) >= Whole - Tolerance
<1>1. PICK n \in 0..MaxParties : percentage \in [1..n -> Int]
  BY DEF InputOK
<1>2. Allocations = 1..n /\ n \in Nat
  BY <1>1, DistributionAssumption DEF Allocations
<1>3. IsFiniteSet(Allocations) /\ Cardinality(Allocations) = n
  BY <1>2, FS_Interval
<1>4. \A i \in Allocations : percentage[i] \in 0..Whole
  BY DEF assertAllocations
<1>5. n # 0
  BY <1>2 DEF assertAllocations
<1>6. SumFunctionOnSet(percentage, Allocations) \in Nat
  <2>1. \A i \in Allocations : percentage[i] \in Nat
    BY <1>4, DistributionAssumption
  <2> QED  BY <1>3, <2>1, SumIsNat
<1>7. /\ SumFunctionOnSet(percentage, Allocations) <= Whole + Tolerance
      /\ SumFunctionOnSet(percentage, Allocations) >= Whole - Tolerance
  BY <1>6, DistributionAssumption DEF assertAllocations, SumFunction, Allocations
<1> QED  BY <1>1, <1>2, <1>3, <1>4, <1>5, <1>6, <1>7

\* A share is a whole number that close to what was decided.
LEMMA ShareBounds ==
  ASSUME InputOK, assertAllocations, NEW shares \in floorShares, NEW i \in Allocations
  PROVE  /\ shares[i] \in Nat /\ percentage[i] \in Nat
         /\ Whole * shares[i] <= total * (percentage[i] + Drift)
         /\ total * (percentage[i] - Drift) < Whole * (shares[i] + 1)
         /\ percentage[i] = 0 => shares[i] = 0
<1> DEFINE drift == IF percentage[i] = 0 THEN 0 ELSE Drift
<1>1. PICK b \in Nat, p \in Nat, w \in Nat \ {0}, d \in Nat, e \in Nat :
        b = total /\ p = percentage[i] /\ w = Whole /\ d = Drift /\ e = drift
  <2>1. total \in Nat /\ percentage[i] \in Nat /\ drift \in Nat
    BY InputAccepted, DistributionAssumption DEF InputOK
  <2>2. Whole \in Nat \ {0} /\ Drift \in Nat
    BY DistributionAssumption
  <2> HIDE DEF drift
  <2> QED  BY <2>1, <2>2
<1>2. PICK q \in Nat : /\ q = shares[i]
                       /\ q \in 0..((b * (p + e)) \div w)
                       /\ b * (p - e) < w * (q + 1)
  <2>1. shares[i] \in FloorShares(i)
    BY DEF floorShares
  <2> HIDE DEF drift
  <2>2. shares[i] \in {q \in 0..((b * (p + e)) \div w) : b * (p - e) < w * (q + 1)}
    BY <1>1, <2>1 DEF FloorShares, drift
  <2> QED  BY <2>2
<1>3. w * q <= b * (p + e)
  <2>1. PICK k \in Nat : k = b * (p + e)
    OBVIOUS
  <2>2. w * (k \div w) <= k /\ k \div w \in Nat
    BY <2>1
  <2>3. w * q <= w * (k \div w)
    BY <1>2, <2>1, <2>2
  <2> QED  BY <2>1, <2>2, <2>3
<1>4. b * (p + e) <= b * (p + d) /\ b * (p - d) <= b * (p - e)
  <2>1. e = 0 \/ e = d
    BY <1>1
  <2> QED  BY <2>1
<1>5. p = 0 => q = 0
  <2>1. p = 0 => e = 0
    BY <1>1
  <2>2. p = 0 => w * q <= 0
    BY <1>3, <2>1
  <2> QED  BY <2>2
<1>6. w * q <= b * (p + d) /\ b * (p - d) < w * (q + 1)
  BY <1>2, <1>3, <1>4
<1> QED  BY <1>1, <1>2, <1>5, <1>6

\* Some shares, put together, miss the part of the balance that was decided for
\* them by a stroop and the noise for each at most.
LEMMA ShareSums ==
  ASSUME InputOK, assertAllocations, NEW shares \in floorShares, NEW T \in SUBSET Allocations
  PROVE  /\ Whole * SumFunctionOnSet(shares, T)
              <= total * (SumFunctionOnSet(percentage, T) + Cardinality(T) * Drift)
         /\ total * (SumFunctionOnSet(percentage, T) - Cardinality(T) * Drift)
              <= Whole * (SumFunctionOnSet(shares, T) + Cardinality(T))
<1> DEFINE Above(t) == Whole * SumFunctionOnSet(shares, t)
                         <= total * (SumFunctionOnSet(percentage, t) + Cardinality(t) * Drift)
           Under(t) == total * (SumFunctionOnSet(percentage, t) - Cardinality(t) * Drift)
                         <= Whole * (SumFunctionOnSet(shares, t) + Cardinality(t))
           Good == {t \in SUBSET Allocations : Above(t) /\ Under(t)}
<1>1. /\ IsFiniteSet(Allocations) /\ Whole \in Nat \ {0} /\ total \in Nat /\ Drift \in Nat
      /\ \A i \in Allocations : shares[i] \in Int /\ percentage[i] \in Int
  <2>1. \A i \in Allocations : shares[i] \in Int /\ percentage[i] \in Int
    BY ShareBounds
  <2> QED  BY <2>1, InputAccepted, DistributionAssumption DEF InputOK
<1>2. {} \in Good
  <2>1. /\ SumFunctionOnSet(shares, {}) = 0 /\ SumFunctionOnSet(percentage, {}) = 0
        /\ Cardinality({}) = 0
    BY SumOfNothing, FS_EmptySet
  <2> QED  BY <1>1, <2>1
<1>3. ASSUME NEW t \in SUBSET Allocations, NEW x \in t, t \ {x} \in Good PROVE t \in Good
  <2>1. IsFiniteSet(t) /\ IsFiniteSet(t \ {x})
    BY <1>1, FS_Subset
  <2>2. PICK w \in Nat \ {0}, b \in Nat, d \in Nat : w = Whole /\ b = total /\ d = Drift
    BY <1>1
  <2>3. PICK n \in Nat : n = Cardinality(t \ {x}) /\ Cardinality(t) = n + 1
    BY <2>1, FS_CardinalityType, FS_RemoveElement
  <2>4. PICK a \in Nat, p \in Nat : a = shares[x] /\ p = percentage[x]
    BY ShareBounds
  <2>5. w * a <= b * (p + d) /\ b * (p - d) <= w * (a + 1)
    <3>1. w * a <= b * (p + d) /\ b * (p - d) < w * (a + 1)
      BY <2>2, <2>4, ShareBounds
    <3> QED  BY <3>1
  <2>6. PICK f \in Int, q \in Int :
          f = SumFunctionOnSet(shares, t \ {x}) /\ q = SumFunctionOnSet(percentage, t \ {x})
    BY <1>1, SubSumIsInt
  <2>7. SumFunctionOnSet(shares, t) = a + f /\ SumFunctionOnSet(percentage, t) = p + q
    <3>1. \A i \in t : shares[i] \in Int /\ percentage[i] \in Int
      BY <1>1
    <3> QED  BY <2>1, <2>4, <2>6, <3>1, SumRemoves
  <2>8. w * f <= b * (q + n * d) /\ b * (q - n * d) <= w * (f + n)
    BY <1>3, <2>2, <2>3, <2>6
  <2>9. /\ b * ((p + q) + (n + 1) * d) = b * (p + d) + b * (q + n * d)
        /\ b * ((p + q) - (n + 1) * d) = b * (p - d) + b * (q - n * d)
        /\ w * (a + f) = w * a + w * f
        /\ w * ((a + f) + (n + 1)) = w * (a + 1) + w * (f + n)
    OBVIOUS
  <2>10. /\ w * (a + f) <= b * ((p + q) + (n + 1) * d)
         /\ b * ((p + q) - (n + 1) * d) <= w * ((a + f) + (n + 1))
    BY <2>5, <2>8, <2>9
  <2> QED  BY <2>2, <2>3, <2>7, <2>10
<1>4. T \in Good
  <2>1. ASSUME NEW t \in SUBSET Allocations, t # {}, \A x \in t : t \ {x} \in Good PROVE t \in Good
    BY <1>3, <2>1
  <2> HIDE DEF Good
  <2> QED  BY <1>1, <1>2, <2>1, SubsetInduction
<1> QED  BY <1>4

\* There is a first among the largest shares.
LEMMA LargestIsThere ==
  ASSUME InputOK, assertAllocations, NEW shares \in floorShares
  PROVE  /\ Largest(shares) \in Allocations
         /\ \A j \in Allocations : shares[j] <= shares[Largest(shares)]
<1> DEFINE IsFirst(i, T) ==
             \A j \in T : /\ shares[i] >= shares[j]
                          /\ j < i => shares[i] > shares[j]
           Good == {T \in SUBSET Allocations : T = {} \/ \E i \in T : IsFirst(i, T)}
<1>1. IsFiniteSet(Allocations) /\ Allocations # {} /\ Allocations \subseteq Nat
  BY InputAccepted
<1>2. \A i \in Allocations : shares[i] \in Nat
  BY ShareBounds
<1>3. {} \in Good
  OBVIOUS
<1>4. ASSUME NEW T \in SUBSET Allocations, NEW x \in T, T \ {x} \in Good PROVE T \in Good
  <2>1. CASE T \ {x} = {}
    <3>1. IsFirst(x, T)
      BY <2>1, <1>1, <1>2
    <3> QED  BY <3>1
  <2>2. CASE T \ {x} # {}
    <3>1. PICK i \in T \ {x} : IsFirst(i, T \ {x})
      BY <1>4, <2>2
    <3>2. i \in Nat /\ x \in Nat /\ shares[i] \in Nat /\ shares[x] \in Nat
      BY <1>1, <1>2
    <3>3. CASE shares[x] > shares[i] \/ (shares[x] = shares[i] /\ x < i)
      <4>1. IsFirst(x, T)
        BY <1>1, <1>2, <3>1, <3>2, <3>3
      <4> QED  BY <4>1
    <3>4. CASE ~(shares[x] > shares[i] \/ (shares[x] = shares[i] /\ x < i))
      <4>1. IsFirst(i, T)
        BY <1>1, <1>2, <3>1, <3>2, <3>4
      <4> QED  BY <4>1
    <3> QED  BY <3>3, <3>4
  <2> QED  BY <2>1, <2>2
<1>5. Allocations \in Good
  <2>1. ASSUME NEW T \in SUBSET Allocations, T # {}, \A x \in T : T \ {x} \in Good PROVE T \in Good
    BY <1>4, <2>1
  <2> HIDE DEF Good
  <2> QED  BY <1>1, <1>3, <2>1, SubsetInduction
<1>6. \E i \in Allocations : IsFirst(i, Allocations)
  BY <1>1, <1>5
<1>7. Largest(shares) \in Allocations /\ IsFirst(Largest(shares), Allocations)
  BY <1>6 DEF Largest
<1> QED  BY <1>2, <1>7

\* All shares but the largest fit in the balance, even when the
\* percentages add up to more than the whole: the n - 1 of n shares that are
\* not the largest hold at most that part of the sum, and there are not enough
\* allocations for the noise to make up for the largest one.
LEMMA OthersFit ==
  ASSUME InputOK, assertAllocations, NEW shares \in floorShares
  PROVE  SumFunctionOnSet(shares, Allocations) - shares[Largest(shares)] <= total
<1>1. PICK w \in Nat \ {0}, b \in Nat, e \in Nat, d \in Nat :
        w = Whole /\ b = total /\ e = Tolerance /\ d = Drift
  BY DistributionAssumption DEF InputOK
<1>2. PICK n \in Nat \ {0}, noise \in Nat :
        n = Cardinality(Allocations) /\ noise = e + n * d /\ noise * (n - 1) <= w
  <2>1. PICK n \in Nat \ {0}, most \in Nat : n = Cardinality(Allocations) /\ most = MaxParties /\ n <= most
    BY InputAccepted, DistributionAssumption
  <2>2. (e + most * d) * (most - 1) <= w
    BY <1>1, <2>1, NoiseAssumption
  <2>3. PICK more \in Nat, noise \in Nat : more = e + most * d /\ noise = e + n * d
    OBVIOUS
  <2>4. n * d <= most * d
    BY <2>1
  <2>5. noise <= more
    BY <2>3, <2>4
  <2>6. noise * (n - 1) <= noise * (most - 1)
    BY <2>1
  <2>7. noise * (most - 1) <= more * (most - 1)
    BY <2>1, <2>5
  <2> QED  BY <2>1, <2>2, <2>3, <2>6, <2>7
<1>3. PICK f \in Nat, q \in Nat, m \in Nat :
        /\ f = SumFunctionOnSet(shares, Allocations)
        /\ q = SumFunctionOnSet(percentage, Allocations)
        /\ m = shares[Largest(shares)]
  <2>1. \A i \in Allocations : shares[i] \in Nat
    BY ShareBounds
  <2>2. SumFunctionOnSet(shares, Allocations) \in Nat
    BY <2>1, InputAccepted, SumIsNat
  <2> QED  BY <2>2, InputAccepted, LargestIsThere, ShareBounds
<1>4. w * f <= b * (w + noise)
  <2>1. w * f <= b * (q + n * d)
    BY <1>1, <1>2, <1>3, ShareSums
  <2>2. q + n * d <= w + noise
    BY <1>1, <1>2, <1>3, InputAccepted
  <2>3. b * (q + n * d) <= b * (w + noise)
    BY <2>2
  <2> QED  BY <2>1, <2>3
<1>5. f <= n * m
  <2>1. \A i \in Allocations : shares[i] \in Int /\ shares[i] <= m
    BY <1>3, LargestIsThere, ShareBounds
  <2>2. f <= Cardinality(Allocations) * m
    BY <1>3, <2>1, InputAccepted, SumIsBounded
  <2> QED  BY <1>2, <2>2
<1>6. f - m <= b
  <2>1. n * (f - m) <= (n - 1) * f
    BY <1>5
  <2>2. w * (n * (f - m)) <= (n - 1) * (w * f)
    <3>1. w * (n * (f - m)) <= w * ((n - 1) * f)
      BY <2>1
    <3>2. w * ((n - 1) * f) = (n - 1) * (w * f)
      OBVIOUS
    <3> QED  BY <3>1, <3>2
  <2>3. (n - 1) * (w * f) <= (n - 1) * (b * (w + noise))
    BY <1>4
  <2>4. (n - 1) * (b * (w + noise)) = b * ((n - 1) * w) + b * (noise * (n - 1))
    OBVIOUS
  <2>5. b * (noise * (n - 1)) <= b * w
    BY <1>2
  <2>6. b * ((n - 1) * w) + b * w = w * (n * b)
    OBVIOUS
  <2>7. w * (n * (f - m)) <= w * (n * b)
    BY <2>2, <2>3, <2>4, <2>5, <2>6
  <2>8. n * (f - m) <= n * b
    BY <2>7
  <2> QED  BY <2>8
<1> QED  BY <1>1, <1>3, <1>6

\* The shares with the leftover are the balance to the stroop, and none of them
\* is negative.
LEMMA SplitIsExact ==
  ASSUME InputOK, assertAllocations, NEW shares \in floorShares
  PROVE  /\ DOMAIN splitStroops(shares) = Allocations
         /\ \A i \in Allocations : splitStroops(shares)[i] \in Nat
         /\ \A i \in Allocations \ {Largest(shares)} : splitStroops(shares)[i] = shares[i]
         /\ splitStroops(shares)[Largest(shares)]
              = total - SumFunctionOnSet(shares, Allocations \ {Largest(shares)})
         /\ SumFunctionOnSet(splitStroops(shares), Allocations) = total
<1> DEFINE m == Largest(shares)
           A == Allocations
           split == splitStroops(shares)
<1>1. IsFiniteSet(A) /\ m \in A /\ \A i \in A : shares[i] \in Nat
  BY InputAccepted, LargestIsThere, ShareBounds
<1>2. PICK f \in Int, b \in Nat : f = SumFunctionOnSet(shares, A) /\ b = total
  <2>1. SumFunctionOnSet(shares, A) \in Int
    BY <1>1, SumIsInt
  <2> QED  BY <2>1 DEF InputOK
<1>3. /\ DOMAIN split = A
      /\ \A i \in A \ {m} : split[i] = shares[i]
      /\ split[m] = (shares[m] + b) - f
  <2>1. DOMAIN shares = A
    BY DEF floorShares
  <2> QED  BY <1>1, <1>2, <2>1 DEF splitStroops, SumFunction
<1>4. f = shares[m] + SumFunctionOnSet(shares, A \ {m})
  BY <1>1, <1>2, SumRemoves
<1>5. PICK k \in Nat, rest \in Int :
        k = shares[m] /\ rest = SumFunctionOnSet(shares, A \ {m}) /\ f = k + rest
  BY <1>1, <1>4, SubSumIsInt
<1>6. split[m] = b - rest /\ split[m] = k + (b - f)
  BY <1>1, <1>3, <1>5
<1>7. rest <= b
  <2>1. f - k <= b
    BY <1>2, <1>5, OthersFit
  <2> QED  BY <1>5, <2>1
<1>8. \A i \in A : split[i] \in Nat
  BY <1>1, <1>3, <1>6, <1>7
<1>9. SumFunctionOnSet(split, A) = b
  <2>1. SumFunctionOnSet(split, A) = split[m] + SumFunctionOnSet(split, A \ {m})
    BY <1>1, <1>8, SumRemoves
  <2>2. SumFunctionOnSet(split, A \ {m}) = rest
    BY <1>1, <1>3, <1>5, FS_Subset, SumDependsOnValues
  <2> QED  BY <1>6, <2>1, <2>2
<1> QED  BY <1>1, <1>2, <1>3, <1>5, <1>6, <1>8, <1>9

\* What reaches the payload.
Paid(shares) == RestrictValues(splitStroops(shares), LAMBDA share : share > 0)

LEMMA PaidIsPositive ==
  ASSUME InputOK, assertAllocations, NEW shares \in floorShares
  PROVE  /\ DOMAIN Paid(shares) = {i \in Allocations : splitStroops(shares)[i] > 0}
         /\ \A i \in DOMAIN Paid(shares) : Paid(shares)[i] = splitStroops(shares)[i]
  BY SplitIsExact DEF Paid, RestrictValues, Restrict

LEMMA PaidIsExact ==
  ASSUME InputOK, assertAllocations, NEW shares \in floorShares, total > 0
  PROVE  DOMAIN Paid(shares) # {} /\ SumFunction(Paid(shares)) = total
<1> DEFINE P == DOMAIN Paid(shares)
<1>1. P \in SUBSET Allocations /\ IsFiniteSet(P) /\ IsFiniteSet(Allocations)
  BY PaidIsPositive, InputAccepted, FS_Subset
<1>2. \A i \in Allocations : splitStroops(shares)[i] \in Nat
  BY SplitIsExact
<1>3. P = {i \in Allocations : splitStroops(shares)[i] > 0}
  BY PaidIsPositive
<1>4. \A i \in Allocations \ P : splitStroops(shares)[i] = 0
  BY <1>2, <1>3
<1>5. SumFunctionOnSet(splitStroops(shares), P) = total
  <2>1. SumFunctionOnSet(splitStroops(shares), P) = SumFunctionOnSet(splitStroops(shares), Allocations)
    BY <1>1, <1>4, <1>2, SumSkipsZeros
  <2> QED  BY <2>1, SplitIsExact
<1>6. SumFunctionOnSet(Paid(shares), P) = total
  BY <1>1, <1>5, PaidIsPositive, SumDependsOnValues
<1>7. P # {}
  <2> SUFFICES ASSUME P = {} PROVE FALSE
    OBVIOUS
  <2>1. SumFunctionOnSet(Paid(shares), P) = 0
    BY SumOfNothing
  <2> QED  BY <1>6, <2>1 DEF InputOK
<1> QED  BY <1>6, <1>7 DEF SumFunction

(***************************************************************************)
(* The call.                                                               *)
(***************************************************************************)
DistributionsInv ==
    /\ InputOK
    /\ outcome # "none" /\ assertAllocations /\ total > 0 => outcome = "built"
    /\ outcome = "built" => /\ assertAllocations /\ total > 0
                            /\ \E shares \in floorShares : amount = Paid(shares)

LEMMA DistributionsInvInit == DistributionsInit \/ NoDistribution => DistributionsInv
<1>1. DistributionsInit => InputOK
  BY DistributionAssumption DEF DistributionsInit, InputOK
<1>2. NoDistribution => InputOK
  <2>1. <<>> \in [1..0 -> Int] /\ 0 \in 0..MaxParties
    BY DistributionAssumption
  <2> QED  BY <2>1 DEF NoDistribution, InputOK
<1> QED  BY <1>1, <1>2 DEF DistributionsInit, NoDistribution, DistributionsInv

LEMMA InputStays ==
  ASSUME UNCHANGED <<total, percentage, distinct>>
  PROVE  /\ InputOK' <=> InputOK
         /\ assertAllocations' <=> assertAllocations
         /\ floorShares' = floorShares
         /\ \A shares : Paid(shares)' = Paid(shares)
<1>1. Allocations' = Allocations
  BY DEF Allocations
<1>2. floorShares' = floorShares
  BY <1>1 DEF floorShares, FloorShares
<1>3. ASSUME NEW shares PROVE Paid(shares)' = Paid(shares)
  <2>1. Largest(shares)' = Largest(shares)
    BY <1>1 DEF Largest
  <2>2. splitStroops(shares)' = splitStroops(shares)
    BY <2>1 DEF splitStroops
  <2> QED  BY <2>2 DEF Paid, RestrictValues, Restrict
<1>4. InputOK' <=> InputOK
  BY DEF InputOK
<1>5. assertAllocations' <=> assertAllocations
  BY <1>1 DEF assertAllocations
<1> QED  BY <1>2, <1>3, <1>4, <1>5

LEMMA DistributionsInvNext ==
  ASSUME DistributionsInv, [buildDistributions]_distributionVars
  PROVE  DistributionsInv'
<1>1. CASE UNCHANGED distributionVars
  <2>1. UNCHANGED <<total, percentage, distinct, outcome, amount>>
    BY <1>1 DEF distributionVars
  <2> QED  BY <2>1, InputStays DEF DistributionsInv
<1>2. CASE buildDistributions
  <2>1. UNCHANGED <<total, percentage, distinct>>
    BY <1>2 DEF buildDistributions
  <2>2. CASE assertAllocations /\ total > 0
    <3>1. PICK shares \in floorShares :
             IF DOMAIN Paid(shares) # {} /\ SumFunction(Paid(shares)) = total
             THEN outcome' = "built" /\ amount' = Paid(shares)
             ELSE outcome' = "refused" /\ UNCHANGED amount
      BY <1>2, <2>2 DEF buildDistributions, Paid
    <3>2. outcome' = "built" /\ amount' = Paid(shares)
      BY <2>2, <3>1, PaidIsExact DEF DistributionsInv
    <3>3. amount' = Paid(shares)' /\ shares \in floorShares'
      BY <2>1, <3>2, InputStays
    <3> QED  BY <2>1, <2>2, <3>2, <3>3, InputStays DEF DistributionsInv
  <2>3. CASE ~(assertAllocations /\ total > 0)
    <3>1. outcome' = "refused"
      BY <1>2, <2>3 DEF buildDistributions
    <3> QED  BY <2>1, <2>3, <3>1, InputStays DEF DistributionsInv
  <2> QED  BY <2>2, <2>3
<1> QED  BY <1>1, <1>2

LEMMA ValidIsExact == DistributionsInv => ValidIsBuiltExactly
  BY PaidIsExact DEF DistributionsInv, ValidIsBuiltExactly

\* What the largest share comes to with the leftover, which is negative when
\* the others together got too much.
LEMMA GainIsBounded ==
  ASSUME InputOK, assertAllocations, NEW shares \in floorShares,
         NEW others, others = Cardinality(Allocations) - 1,
         NEW noise, noise = Tolerance + others * Drift
  PROVE  LET gain == splitStroops(shares)[Largest(shares)]
             part == percentage[Largest(shares)]
         IN  /\ Whole * gain >= total * (part - noise)
             /\ Whole * gain <= total * (part + noise) + Whole * others
<1> DEFINE m == Largest(shares)
           T == Allocations \ {m}
<1>1. PICK w \in Nat \ {0}, b \in Nat, e \in Nat, d \in Nat :
        w = Whole /\ b = total /\ e = Tolerance /\ d = Drift
  BY DistributionAssumption DEF InputOK
<1>2. m \in Allocations /\ IsFiniteSet(Allocations)
  BY LargestIsThere, InputAccepted
<1>3. others \in Nat /\ Cardinality(T) = others
  <2>1. Cardinality(Allocations) \in Nat \ {0}
    BY InputAccepted, DistributionAssumption
  <2>2. Cardinality(T) = Cardinality(Allocations) - 1
    BY <1>2, FS_RemoveElement
  <2> QED  BY <2>1, <2>2
<1>4. \A i \in Allocations : shares[i] \in Int /\ percentage[i] \in Int
  BY ShareBounds
<1>5. PICK p \in Int, q \in Int, f \in Int :
        /\ p = percentage[m]
        /\ q = SumFunctionOnSet(percentage, T)
        /\ f = SumFunctionOnSet(shares, T)
  BY <1>2, <1>4, SubSumIsInt
<1>6. p + q <= w + e /\ p + q >= w - e
  <2>1. SumFunctionOnSet(percentage, Allocations) = p + q
    BY <1>2, <1>4, <1>5, SumRemoves
  <2> QED  BY <1>1, <2>1, InputAccepted
<1>7. w * f <= b * (q + others * d) /\ b * (q - others * d) <= w * (f + others)
  BY <1>1, <1>3, <1>5, ShareSums
<1>8. PICK c \in Nat : c = others * d
  BY <1>3
<1>9. w * (b - f) >= b * (p - (e + c))
  <2>1. q + c <= w - (p - (e + c))
    BY <1>6
  <2>2. b * (q + c) <= b * (w - (p - (e + c)))
    BY <2>1
  <2>3. /\ b * (w - (p - (e + c))) = w * b - b * (p - (e + c))
        /\ w * (b - f) = w * b - w * f
    OBVIOUS
  <2>4. w * f <= w * b - b * (p - (e + c))
    BY <1>7, <1>8, <2>2, <2>3
  <2> QED  BY <2>3, <2>4
<1>10. w * (b - f) <= b * (p + (e + c)) + w * others
  <2>1. w - (p + (e + c)) <= q - c
    BY <1>6
  <2>2. b * (w - (p + (e + c))) <= b * (q - c)
    BY <2>1
  <2>3. /\ b * (w - (p + (e + c))) = w * b - b * (p + (e + c))
        /\ w * (b - f) = w * b - w * f
        /\ w * (f + others) = w * f + w * others
    BY <1>3
  <2>4. w * b - b * (p + (e + c)) <= w * f + w * others
    BY <1>7, <1>8, <2>2, <2>3
  <2> QED  BY <1>3, <2>3, <2>4
<1>11. splitStroops(shares)[m] = b - f
  BY <1>1, <1>5, SplitIsExact
<1> QED  BY <1>1, <1>5, <1>8, <1>9, <1>10, <1>11

LEMMA NobodyLoses == DistributionsInv => NobodyIsShortchanged
<1> SUFFICES ASSUME DistributionsInv, outcome = "built" PROVE NobodyIsShortchanged
  BY DEF NobodyIsShortchanged
<1> DEFINE others == Cardinality(Allocations) - 1
           noise == Tolerance + others * Drift
<1>1. PICK shares \in floorShares : amount = Paid(shares)
  BY DEF DistributionsInv
<1> DEFINE m == Largest(shares)
<1>2. InputOK /\ assertAllocations
  BY DEF DistributionsInv
<1>3. \A i \in Allocations : paidTo(i) = splitStroops(shares)[i]
  <2>1. \A i \in Allocations : splitStroops(shares)[i] \in Nat
    BY <1>2, SplitIsExact
  <2>2. \A i \in Allocations : splitStroops(shares)[i] > 0 \/ splitStroops(shares)[i] = 0
    BY <2>1
  <2> QED  BY <1>1, <1>2, <2>2, PaidIsPositive DEF paidTo
<1>4. m \in Allocations /\ \A j \in Allocations : shares[j] <= shares[m]
  BY <1>2, LargestIsThere
<1>5. /\ Whole * paidTo(m) >= total * (percentage[m] - noise)
      /\ Whole * paidTo(m) <= total * (percentage[m] + noise) + Whole * others
  BY <1>2, <1>3, <1>4, GainIsBounded
<1>6. ASSUME NEW i \in Allocations \ {m}
      PROVE  /\ Whole * (paidTo(i) + 1) > total * (percentage[i] - Drift)
             /\ Whole * paidTo(i) <= total * (percentage[i] + Drift)
  <2>1. paidTo(i) = shares[i]
    BY <1>2, <1>3, SplitIsExact
  <2>2. /\ shares[i] \in Nat /\ percentage[i] \in Nat
        /\ total * (percentage[i] - Drift) < Whole * (shares[i] + 1)
        /\ Whole * shares[i] <= total * (percentage[i] + Drift)
    BY <1>2, ShareBounds
  <2>3. total \in Nat /\ Whole \in Nat /\ Drift \in Nat
    BY <1>2, DistributionAssumption DEF InputOK
  <2>4. PICK x \in Int, y \in Int :
          /\ x = total * (percentage[i] - Drift)
          /\ y = Whole * (shares[i] + 1)
          /\ x < y
    BY <2>2, <2>3
  <2> QED  BY <2>1, <2>2, <2>4
<1>7. ASSUME NEW i \in DOMAIN amount, percentage[i] = 0, NEW j \in Allocations
      PROVE  total * (percentage[j] - Drift) < Whole
  <2>1. i \in Allocations /\ splitStroops(shares)[i] > 0
    BY <1>1, <1>2, PaidIsPositive
  <2>2. shares[i] = 0
    BY <1>2, <1>7, <2>1, ShareBounds
  <2>3. i = m
    <3>1. i # m => splitStroops(shares)[i] = shares[i]
      BY <1>2, <2>1, SplitIsExact
    <3> QED  BY <2>1, <2>2, <3>1
  <2>4. shares[j] = 0
    <3>1. shares[j] \in Nat /\ shares[j] <= 0
      BY <1>2, <1>4, <2>2, <2>3, ShareBounds
    <3> QED  BY <3>1
  <2>5. total * (percentage[j] - Drift) < Whole * (0 + 1)
    BY <1>2, <2>4, ShareBounds
  <2> QED  BY <2>5, DistributionAssumption
<1> QED  BY <1>4, <1>5, <1>6, <1>7 DEF NobodyIsShortchanged
====
