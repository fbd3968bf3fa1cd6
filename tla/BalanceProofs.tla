---------------------------- MODULE BalanceProofs ----------------------------
(***************************************************************************)
(* What a proof of the balancing equation is worth, for any values, for    *)
(* units that are base units or are named by fresh primes, and for assets, *)
(* which are all named by fresh primes.                                    *)
(***************************************************************************)
EXTENDS BalanceEq, TLAPS

(* The equation is chosen once, and the outcome says what the constraint   *)
(* system made of it.                                                      *)
Decided ==
    /\ value \in Terms(Values)
    /\ unit \in Terms(Units)
    /\ asset \in Terms(Assets)
    /\ outcome = "proof" => Satisfied
    /\ outcome = "refused" => ~Satisfied

(* What the constraint system decides is an invariant.                     *)
THEOREM OutcomeDecided == Spec => []Decided
<1>1. Init => Decided
  BY DEF Init, Decided
<1>2. Decided /\ [Next]_vars => Decided'
  <2> SUFFICES ASSUME Decided, [Next]_vars
               PROVE  Decided'
    OBVIOUS
  <2>1. UNCHANGED << value, unit, asset >>
    BY DEF Next, GenerateProof, RefuseProof, vars
  <2>2. Satisfied' <=> Satisfied
    BY <2>1 DEF Satisfied, Slack
  <2>3. \/ outcome' = "proof" /\ Satisfied
        \/ outcome' = "refused" /\ ~Satisfied
        \/ outcome' = outcome
    BY DEF Next, GenerateProof, RefuseProof, vars
  <2> QED
    BY <2>1, <2>2, <2>3 DEF Decided
<1> QED
  BY <1>1, <1>2, PTL DEF Spec
-------------------------------------------------------------------------------
LEMMA TermsHave ==
    ASSUME NEW numbers, NEW t \in Terms(numbers)
    PROVE  t.i \in numbers /\ t.n \in numbers /\ t.d \in numbers /\ t.r \in numbers
BY DEF Terms

LEMMA IntIsInt ==
    ASSUME NEW x \in Int
    PROVE  ToInt(x) \in Int
<1> DEFINE m == 2 * IntMax + 2
           y == Clamp(x)
<1>1. m \in Nat /\ m > 0
  BY WidthAssumption
<1>2. y \in Int
  BY WidthAssumption DEF Clamp
<1> HIDE DEF y
<1>3. y % m \in Int
  BY <1>1, <1>2
<1>4. Truncate(y) \in Int
  BY <1>1, <1>3 DEF Truncate
<1> QED
  BY <1>4 DEF ToInt, y

(* A prime of 172 bits is beyond long, and all of them become one int.     *)
LEMMA FreshIsMinusOne ==
    ASSUME NEW x \in Int, IsFresh(x)
    PROVE  ToInt(x) = -1
<1>1. Clamp(x) = LongMax
  BY DEF Clamp, IsFresh
<1>2. Truncate(LongMax) = -1
  <2> DEFINE low == LongMax % (2 * IntMax + 2)
  <2>1. low = 2 * IntMax + 1 /\ IntMax \in Nat
    BY WidthAssumption
  <2> HIDE DEF low
  <2>2. low > IntMax /\ low - (2 * IntMax + 2) = -1
    BY <2>1
  <2> QED
    BY <2>2 DEF Truncate, low
<1> QED
  BY <1>1, <1>2 DEF ToInt

(* Products of integers are integers.                                      *)
LEMMA ProductIsInt ==
    ASSUME NEW x \in Int, NEW y \in Int
    PROVE  x * y \in Int
OBVIOUS

(* A factor of the constraint system is an integer.                        *)
LEMMA SlackInt ==
    ASSUME NEW numbers \in SUBSET Int, NEW t \in Terms(numbers)
    PROVE  Slack(t) \in Int
<1>1. t.i \in Int /\ t.n \in Int /\ t.d \in Int /\ t.r \in Int
  BY TermsHave
<1>2. ToInt(t.i) \in Int /\ ToInt(t.n) \in Int /\ ToInt(t.d) \in Int /\ ToInt(t.r) \in Int
  BY <1>1, IntIsInt
<1> QED
  BY <1>2 DEF Slack

(* Of numbers that fit, it is their difference and one.                    *)
LEMMA SlackOfFitting ==
    ASSUME NEW numbers \in SUBSET Int, NEW t \in Terms(numbers), Fits(t)
    PROVE  Difference(t) \in Int /\ Slack(t) = Difference(t) + 1
<1>1. t.i \in Int /\ t.n \in Int /\ t.d \in Int /\ t.r \in Int
  BY TermsHave
<1>2. ToInt(t.i) = t.i /\ ToInt(t.n) = t.n /\ ToInt(t.d) = t.d /\ ToInt(t.r) = t.r
  BY DEF Fits
<1>3. t.i * t.n \in Int /\ t.d * t.r \in Int
  BY <1>1
<1> QED
  BY <1>2, <1>3 DEF Slack, Difference

(* Of fresh numbers, it is one, whatever they are.                         *)
LEMMA SlackOfFresh ==
    ASSUME NEW numbers \in SUBSET Int, NEW t \in Terms(numbers), AllFresh(t)
    PROVE  Slack(t) = 1
<1>1. t.i \in Int /\ t.n \in Int /\ t.d \in Int /\ t.r \in Int
  BY TermsHave
<1>2. ToInt(t.i) = -1 /\ ToInt(t.n) = -1 /\ ToInt(t.d) = -1 /\ ToInt(t.r) = -1
  BY <1>1, FreshIsMinusOne DEF AllFresh
<1> QED
  BY <1>2 DEF Slack

(* So the assets have no part in the decision: they are all fresh.         *)
LEMMA AssetsDoNotCount ==
    ASSUME Decided
    PROVE  Slack(asset) = 1
<1>1. asset \in Terms(Assets) /\ Assets \in SUBSET Int
  BY NumbersAssumption DEF Decided
<1>2. AllFresh(asset)
  BY <1>1, TermsHave, NumbersAssumption DEF AllFresh
<1> QED
  BY <1>1, <1>2, SlackOfFresh

(* Equal products of units have equal factors.                             *)
LEMMA UnitsTell ==
    ASSUME NEW i \in Units, NEW n \in Units, NEW d \in Units, NEW r \in Units,
           i * n = d * r
    PROVE  (i = d /\ n = r) \/ (i = r /\ n = d)
<1>1. FactorsTell(Units)
  BY NumbersAssumption
<1>2. \A x, y, z, w \in Units :
         x * y = z * w => (x = z /\ y = w) \/ (x = w /\ y = z)
  BY <1>1 DEF FactorsTell
<1>3. \A z, w \in Units : i * n = z * w => (i = z /\ n = w) \/ (i = w /\ n = z)
  BY <1>2, ZenonT(30)
<1> QED
  BY <1>3, ZenonT(30)

(* Units that balance are pairwise the same, and still are as ints.        *)
LEMMA SlackOfSameUnits ==
    ASSUME Decided, Balances(unit)
    PROVE  Slack(unit) = 1
<1>1. /\ unit.i \in Units /\ unit.n \in Units /\ unit.d \in Units /\ unit.r \in Units
      /\ Units \subseteq Int
  BY TermsHave, NumbersAssumption DEF Decided
<1>2. unit.i * unit.n = unit.d * unit.r
  <2> DEFINE p == unit.i * unit.n
             q == unit.d * unit.r
  <2>1. p \in Int /\ q \in Int
    BY <1>1, ProductIsInt
  <2>2. p - q = 0
    BY DEF Balances, Difference
  <2> HIDE DEF p, q
  <2>3. p = q
    BY <2>1, <2>2
  <2> QED
    BY <2>3 DEF p, q
<1>3. (unit.i = unit.d /\ unit.n = unit.r) \/ (unit.i = unit.r /\ unit.n = unit.d)
  <2> DEFINE i == unit.i
             n == unit.n
             d == unit.d
             r == unit.r
  <2>1. i \in Units /\ n \in Units /\ d \in Units /\ r \in Units
    BY <1>1
  <2>2. i * n = d * r
    BY <1>2
  <2> HIDE DEF i, n, d, r
  <2>3. \A z, w \in Units : i * n = z * w => (i = z /\ n = w) \/ (i = w /\ n = z)
    BY <2>1, UnitsTell
  <2>4. i * n = d * r => (i = d /\ n = r) \/ (i = r /\ n = d)
    BY <2>1, <2>3, ZenonT(30)
  <2> QED
    BY <2>2, <2>4 DEF i, n, d, r
<1> DEFINE a == ToInt(unit.i)
           b == ToInt(unit.n)
<1>4. a \in Int /\ b \in Int
  BY <1>1, IntIsInt
<1>5. Slack(unit) = a * b - a * b + 1 \/ Slack(unit) = a * b - b * a + 1
  BY <1>3 DEF Slack
<1> HIDE DEF a, b
<1>6. a * b - a * b = 0 /\ a * b - b * a = 0
  BY <1>4
<1> QED
  BY <1>5, <1>6

(* The factors of one are one and minus one.                               *)
LEMMA FactorsOfOne ==
    ASSUME NEW a \in Int, NEW b \in Int, a * b = 1
    PROVE  (a = 1 /\ b = 1) \/ (a = -1 /\ b = -1)
<1>1. a # 0 /\ b # 0
  OBVIOUS
<1>2. ~(a >= 2 /\ b >= 1)
  OBVIOUS
<1>3. ~(a >= 1 /\ b <= -1)
  OBVIOUS
<1>4. ~(a <= -1 /\ b >= 1)
  OBVIOUS
<1>5. ~(a <= -2 /\ b <= -1)
  OBVIOUS
<1> QED
  BY <1>1, <1>2, <1>3, <1>4, <1>5

(* What the constraint system comes down to: the factors of the values and *)
(* of the units.                                                           *)
LEMMA TwoFactorsDecide ==
    ASSUME Decided
    PROVE  /\ Slack(value) \in Int /\ Slack(unit) \in Int
           /\ Satisfied <=> Slack(value) * Slack(unit) = 1
<1>1. Slack(value) \in Int /\ Slack(unit) \in Int
  BY SlackInt, NumbersAssumption DEF Decided
<1>2. Slack(value) * Slack(unit) \in Int
  BY <1>1
<1>3. 1 * (Slack(value) * Slack(unit)) = Slack(value) * Slack(unit)
  BY <1>2
<1> QED
  BY <1>1, <1>3, AssetsDoNotCount DEF Satisfied

(* hbzksnark -p refuses nobody who balances, with values that an int       *)
(* holds, and with any units.                                              *)
THEOREM BalancedProved == Spec => []BalancedIsProved
<1>1. Decided => BalancedIsProved
  <2> SUFFICES ASSUME Decided, Fits(value), Balances(value), Balances(unit)
               PROVE  Satisfied
    BY DEF BalancedIsProved, Decided
  <2>1. Slack(value) = 1
    BY SlackOfFitting, NumbersAssumption DEF Decided, Balances
  <2>2. Slack(unit) = 1
    BY SlackOfSameUnits
  <2> QED
    BY <2>1, <2>2, TwoFactorsDecide
<1> QED
  BY <1>1, OutcomeDecided, PTL

(* A proof is worth no more than this: the values balance or are short by  *)
(* two, and base units do as the values do.                                *)
THEOREM ProvedNearBalance == Spec => []ProvedIsNearBalance
<1>1. Decided => ProvedIsNearBalance
  <2> SUFFICES ASSUME Decided, Satisfied, Fits(value)
               PROVE  \/ Balances(value) /\ (Fits(unit) => Balances(unit))
                      \/ ShortByTwo(value) /\ ~AllFresh(unit) /\ (Fits(unit) => ShortByTwo(unit))
    BY DEF ProvedIsNearBalance, Decided
  <2>1. Difference(value) \in Int /\ Slack(value) = Difference(value) + 1
    BY SlackOfFitting, NumbersAssumption DEF Decided
  <2>2. Fits(unit) => Difference(unit) \in Int /\ Slack(unit) = Difference(unit) + 1
    BY SlackOfFitting, NumbersAssumption DEF Decided
  <2>3. AllFresh(unit) => Slack(unit) = 1
    BY SlackOfFresh, NumbersAssumption DEF Decided
  <2>4. (Slack(value) = 1 /\ Slack(unit) = 1) \/ (Slack(value) = -1 /\ Slack(unit) = -1)
    BY TwoFactorsDecide, FactorsOfOne
  <2>5. CASE Slack(value) = 1 /\ Slack(unit) = 1
    <3>1. Difference(value) = 0
      BY <2>1, <2>5
    <3>2. Fits(unit) => Difference(unit) = 0
      BY <2>2, <2>5
    <3> QED
      BY <3>1, <3>2 DEF Balances
  <2>6. CASE Slack(value) = -1 /\ Slack(unit) = -1
    <3>1. Difference(value) = -2
      BY <2>1, <2>6
    <3>2. Fits(unit) => Difference(unit) = -2
      BY <2>2, <2>6
    <3>3. ~AllFresh(unit)
      BY <2>3, <2>6
    <3> QED
      BY <3>1, <3>2, <3>3 DEF ShortByTwo
  <2> QED
    BY <2>4, <2>5, <2>6
<1> QED
  BY <1>1, OutcomeDecided, PTL
===============================================================================
