------------------------------ MODULE BalanceEq ------------------------------
(***************************************************************************)
(* The balancing equation that an MTXQ has to prove, as hbzksnark -p       *)
(* computes it.  The initiating quantity, the numerator and denominator of *)
(* the ratio and the reciprocating quantity arrive as twelve decimal       *)
(* numbers, four values, four units and four assets.  Each number becomes  *)
(* a C int, and a rank-1 constraint system over a prime field of 254 bits  *)
(* decides.                                                                *)
(*                                                                         *)
(* Each of the three factors of the product in that system is below        *)
(* 2^63 + 1 in magnitude, and the order of the field above 2^253: the      *)
(* product is 1 in the field exactly if it is 1 as an integer.             *)
(***************************************************************************)
EXTENDS Integers

CONSTANTS
    IntMax,     \* INT_MAX
    LongMax,    \* LONG_MAX
    Values,     \* the magnitudes that occur
    Units,      \* the numbers that name units
    Assets      \* the numbers that name assets

(* An int has as many values below zero as from zero on, and a long ends   *)
(* in an int's worth of bits, all of which are set in LONG_MAX.            *)
ASSUME WidthAssumption ==
    /\ IntMax \in Nat /\ LongMax \in Nat /\ IntMax < LongMax
    /\ LongMax % (2 * IntMax + 2) = 2 * IntMax + 1

(* The table of the genesis command names the unity by 1 and the base      *)
(* units of UCUM by the first primes.                                      *)
IsBase(x) == x \in 1..IntMax

(* Every other unit, and every asset, gets a fresh prime of 172 bits.      *)
IsFresh(x) == x > LongMax

(* Primes, and 1: equal products have equal factors.                       *)
FactorsTell(numbers) ==
    \A i, n, d, r \in numbers : i * n = d * r => (i = d /\ n = r) \/ (i = r /\ n = d)

ASSUME NumbersAssumption ==
    /\ Values \subseteq Int /\ Units \subseteq Int /\ Assets \subseteq Int
    /\ \A u \in Units : IsBase(u) \/ IsFresh(u)
    /\ \A a \in Assets : IsFresh(a)
    /\ FactorsTell(Units)

(* One dimension of the equation: i * (n / d) = r.                         *)
Terms(numbers) == [i : numbers, n : numbers, d : numbers, r : numbers]

VARIABLES
    value, unit, asset,   \* the terms of the equation in each dimension
    outcome               \* what hbzksnark -p made of them

vars == << value, unit, asset, outcome >>

(* atoi of the C library: strtol, which stops at the limits of long, and   *)
(* the conversion to int, which keeps the low bits.                        *)
Clamp(x) == IF x > LongMax THEN LongMax ELSE IF x < -LongMax - 1 THEN -LongMax - 1 ELSE x

Truncate(x) ==
    LET low == x % (2 * IntMax + 2)
    IN  IF low > IntMax THEN low - (2 * IntMax + 2) ELSE low

ToInt(x) == Truncate(Clamp(x))

(* Faulty: the denominator multiplies the initiating quantity.             *)
SlackUpsideDown(t) == ToInt(t.i) * ToInt(t.d) - ToInt(t.n) * ToInt(t.r) + 1

(* s_0, s_1 and s_2 of the constraint system.                              *)
Slack(t) == ToInt(t.i) * ToInt(t.n) - ToInt(t.d) * ToInt(t.r) + 1

(* Faulty: the constraint that brings in the values is missing.            *)
SatisfiedByUnits == Slack(asset) * Slack(unit) = 1

(* out, the last constraint, is assigned 1.                                *)
Satisfied == Slack(asset) * (Slack(value) * Slack(unit)) = 1

Init ==
    /\ value \in Terms(Values)
    /\ unit \in Terms(Units)
    /\ asset \in Terms(Assets)
    /\ outcome = "none"

GenerateProof ==
    /\ outcome = "none"
    /\ Satisfied
    /\ outcome' = "proof"
    /\ UNCHANGED << value, unit, asset >>

(* invalid_argument: CS not valid.                                         *)
RefuseProof ==
    /\ outcome = "none"
    /\ ~Satisfied
    /\ outcome' = "refused"
    /\ UNCHANGED << value, unit, asset >>

Next == GenerateProof \/ RefuseProof

Spec == Init /\ [][Next]_vars
-------------------------------------------------------------------------------
(* How far a dimension is from balance, in exact arithmetic.               *)
Difference(t) == t.i * t.n - t.d * t.r

Balances(t) == Difference(t) = 0

ShortByTwo(t) == Difference(t) = -2

(* The conversion to int leaves the numbers what they are.                 *)
Fits(t) == \A x \in {t.i, t.n, t.d, t.r} : ToInt(x) = x

AllFresh(t) == \A x \in {t.i, t.n, t.d, t.r} : IsFresh(x)

(* Whoever balances gets a proof, if an int holds the values.  Units need  *)
(* not fit: those that balance are pairwise the same.                      *)
BalancedIsProved ==
    outcome = "refused" => ~(Fits(value) /\ Balances(value) /\ Balances(unit))

(* What a proof says, of values that an int holds: they balance, and so do *)
(* the units if they are base units; or both are short by two, since minus *)
(* one times minus one is one.  It says nothing of fresh units, but that   *)
(* if there are no others the values balance, and of the assets nothing.   *)
ProvedIsNearBalance ==
    outcome = "proof" /\ Fits(value) =>
        \/ Balances(value) /\ (Fits(unit) => Balances(unit))
        \/ ShortByTwo(value) /\ ~AllFresh(unit) /\ (Fits(unit) => ShortByTwo(unit))

(* The README: units and resources are encoded so that the equation can be *)
(* validated algebraically.  So a proof says that the units balance.       *)
ProvedUnitsBalance ==
    outcome = "proof" => Balances(unit)

(* The comment on the system: value and unit and resource are in balance.  *)
ProvedIsBalanced ==
    outcome = "proof" => Balances(value) /\ Balances(unit) /\ Balances(asset)
===============================================================================
