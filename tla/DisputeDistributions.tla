---- MODULE DisputeDistributions ----
(***************************************************************************)
(* A resolution in percentages turned into amounts,                        *)
(* src/disputes/dispute-distributions.ts.  Amounts are whole stroops and   *)
(* percentages whole parts of Whole, which is 100 for whole percents and   *)
(* 100 * 10^k for percentages with k decimals.  A share is computed in     *)
(* doubles, whose product may fall on the other side of a whole number of  *)
(* stroops.  The addresses matter only for being different, so that an     *)
(* allocation is its index.                                                *)
(***************************************************************************)
EXTENDS Integers, Functions, FiniteSetsExt

CONSTANTS Whole,        \* the parts of 100%
          Tolerance,    \* the noise accepted in the sum of the percentages
          Drift,        \* the noise of the doubles, put on one percentage
          MaxParties,   \* bound: length of the allocations
          MaxTotal      \* bound: stroops to distribute

ASSUME DistributionAssumption ==
    /\ Whole \in Nat \ {0}
    /\ Tolerance \in 0..(Whole - 1)
    /\ Drift \in Nat
    /\ MaxParties \in Nat
    /\ MaxTotal \in Nat

\* The noise of all but one allocation is at most the whole.  The code accepts
\* noise of 1e-9 in 100, and two roundings add 2.3e-14 for each allocation, so
\* that this holds of up to 10^7 allocations.
ASSUME NoiseAssumption == (Tolerance + MaxParties * Drift) * (MaxParties - 1) <= Whole

VARIABLES total,        \* input.total in stroops
          percentage,   \* percentages of input.allocations
          distinct,     \* no address appears twice
          outcome,      \* "none" before the call, then "built" or "refused"
          amount        \* shares that reach the payload

distributionVars == <<total, percentage, distinct, outcome, amount>>

Allocations == DOMAIN percentage

assertAllocations ==
    /\ Allocations # {}
    /\ \A i \in Allocations : percentage[i] \in 0..Whole
    /\ distinct
    /\ SumFunction(percentage) \in (Whole - Tolerance)..(Whole + Tolerance)

\* Math.floor((totalStroops * percentage) / 100): the floor of some number that
\* close to the share.  The product with 0 is exact.
FloorShares(i) ==
    LET drift == IF percentage[i] = 0 THEN 0 ELSE Drift IN
    {q \in 0..((total * (percentage[i] + drift)) \div Whole) :
        total * (percentage[i] - drift) < Whole * (q + 1)}

floorShares == {f \in [Allocations -> UNION {FloorShares(i) : i \in Allocations}] :
                   \A i \in Allocations : f[i] \in FloorShares(i)}

\* The first of the largest shares.
Largest(shares) == CHOOSE i \in Allocations :
                      \A j \in Allocations : /\ shares[i] >= shares[j]
                                             /\ j < i => shares[i] > shares[j]

\* A bug to catch: the leftover stroops stay in the escrow.
splitStroopsFloors(shares) == shares

\* A bug to catch: the leftover goes to the first allocation, whatever it is.
splitStroopsFirst(shares) == [shares EXCEPT ![1] = @ + total - SumFunction(shares)]

splitStroops(shares) == [shares EXCEPT ![Largest(shares)] = @ + total - SumFunction(shares)]

\* The shares of nothing are left out; what is left must add up to the total.
\* Both kinds of escrow get the same payload, and the exact sum is what the
\* stricter of the two, single-release, is checked for.
buildDistributions ==
    /\ outcome = "none"
    /\ IF assertAllocations /\ total > 0
       THEN \E shares \in floorShares :
              LET paid == RestrictValues(splitStroops(shares), LAMBDA share : share > 0) IN
              IF DOMAIN paid # {} /\ SumFunction(paid) = total
              THEN outcome' = "built" /\ amount' = paid
              ELSE outcome' = "refused" /\ UNCHANGED amount
       ELSE outcome' = "refused" /\ UNCHANGED amount
    /\ UNCHANGED <<total, percentage, distinct>>

\* Every input, the malformed ones included.
DistributionsInit ==
    /\ total \in 0..MaxTotal
    /\ \E n \in 0..MaxParties : percentage \in [1..n -> -1..(Whole + 1)]
    /\ distinct \in BOOLEAN
    /\ outcome = "none"
    /\ amount = <<>>

NoDistribution ==
    total = 0 /\ percentage = <<>> /\ distinct = FALSE /\ outcome = "none" /\ amount = <<>>

----
(***************************************************************************)
(* Properties                                                              *)
(***************************************************************************)

\* "The arithmetic above should make this impossible": the check at the end
\* never fires, so every well-formed resolution of a non-zero balance is built
\* and pays out the balance to the stroop, even when the percentages carry
\* noise that makes the floors add up to more than the balance.
ValidIsBuiltExactly ==
    outcome # "none" /\ assertAllocations /\ total > 0 =>
        /\ outcome = "built"
        /\ SumFunction(amount) = total

\* What i is paid.
paidTo(i) == IF i \in DOMAIN amount THEN amount[i] ELSE 0

\* However the doubles round, nobody is paid a whole stroop and the noise less
\* than the share that was decided, all but one party are paid no more than
\* their share and the noise, and that one gets less than a stroop more for
\* each of the others.  A party that was given nothing is paid only when nobody's
\* share comes to a stroop: then it may be paid everything.
NobodyIsShortchanged ==
    outcome = "built" =>
        LET others == Cardinality(Allocations) - 1
            noise == Tolerance + others * Drift
        IN
        /\ \E gainer \in Allocations :
              /\ Whole * paidTo(gainer) >= total * (percentage[gainer] - noise)
              /\ Whole * paidTo(gainer) <= total * (percentage[gainer] + noise) + Whole * others
              /\ \A i \in Allocations \ {gainer} :
                    /\ Whole * (paidTo(i) + 1) > total * (percentage[i] - Drift)
                    /\ Whole * paidTo(i) <= total * (percentage[i] + Drift)
        /\ \A i \in DOMAIN amount : percentage[i] = 0 =>
              \A j \in Allocations : total * (percentage[j] - Drift) < Whole

\* "Allocations of 0% are dropped", says the comment of buildDistributions.
ZeroIsDropped ==
    outcome = "built" => \A i \in DOMAIN amount : percentage[i] > 0
====
