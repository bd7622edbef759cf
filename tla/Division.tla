------------------------------ MODULE Division -------------------------------
(***************************************************************************)
(* Facts about quotients, remainders and least elements that the proofs    *)
(* share.                                                                  *)
(***************************************************************************)
EXTENDS Integers, WellFoundedInduction, TLAPS

\* Every set of natural numbers that is not empty has a least element: what
\* stands in for induction.
LEMMA LeastElement ==
  ASSUME NEW T, T \subseteq Nat, T # {}
  PROVE  \E x \in T : \A y \in T : x <= y
<1> DEFINE R == {ss \in Nat \X Nat : ss[1] < ss[2]}
<1>1. IsWellFoundedOn(R, Nat)
  BY NatLessThanWellFounded DEF OpToRel
<1>2. PICK x \in T : \A y \in T : ~(<<y, x>> \in R)
  BY <1>1, WFMin
<1>3. \A y \in T : x <= y
  <2> SUFFICES ASSUME NEW y \in T PROVE x <= y
    OBVIOUS
  <2>1. <<y, x>> \in Nat \X Nat /\ ~(y < x)
    BY <1>2
  <2> QED
    BY <2>1
<1> QED
  BY <1>3

\* Quotient and remainder of a number by a modulus.
LEMMA DivMod ==
  ASSUME NEW M \in Nat \ {0}, NEW x \in Int
  PROVE  x \div M \in Int /\ x % M \in 0..(M - 1) /\ x = M * (x \div M) + (x % M)
<1>1. x \div M \in Int
  OBVIOUS
<1>2. x % M \in 0..(M - 1)
  OBVIOUS
<1>3. x = M * (x \div M) + (x % M)
  OBVIOUS
<1> QED
  BY <1>1, <1>2, <1>3

\* A multiple of the modulus plus a remainder.
LEMMA ModOfSum ==
  ASSUME NEW M \in Nat \ {0}, NEW q \in Int, NEW r \in 0..(M - 1)
  PROVE  (M * q + r) % M = r /\ (M * q + r) \div M = q
<1>1. (M * q + r) % M = r
  OBVIOUS
<1>2. (M * q + r) \div M = q
  OBVIOUS
<1> QED
  BY <1>1, <1>2

\* Adding a multiple of the modulus changes nothing.
LEMMA ModShift ==
  ASSUME NEW M \in Nat \ {0}, NEW x \in Int, NEW k \in Int
  PROVE  (x + M * k) % M = x % M
<1> DEFINE q == x \div M
           r == x % M
<1>1. q \in Int /\ r \in 0..(M - 1) /\ x = M * q + r
  BY DivMod
<1> HIDE DEF q, r
<1>2. M * (q + k) = M * q + M * k /\ M * q \in Int /\ M * k \in Int
  BY <1>1
<1>3. x + M * k = M * (q + k) + r
  BY <1>1, <1>2
<1>4. q + k \in Int
  BY <1>1
<1>5. (x + M * k) % M = r
  BY <1>1, <1>3, <1>4, ModOfSum
<1> QED
  BY <1>5 DEF r

\* Numbers closer than the modulus have different remainders.
LEMMA ModInjective ==
  ASSUME NEW M \in Nat \ {0}, NEW x \in Int, NEW y \in Int,
         x % M = y % M, y <= x, x - y < M
  PROVE  x = y
<1> DEFINE a == x \div M
           b == y \div M
           r == x % M
<1>1. a \in Int /\ b \in Int /\ r \in 0..(M - 1) /\ x = M * a + r /\ y = M * b + r
  BY DivMod
<1> HIDE DEF a, b, r
<1>2. M * a \in Int /\ M * b \in Int /\ M * (a - b) = M * a - M * b
  BY <1>1
<1>3. 0 <= M * (a - b) /\ M * (a - b) < M
  BY <1>1, <1>2
<1>4. a - b = 0
  BY <1>1, <1>3
<1> QED
  BY <1>1, <1>4

\* A number below the modulus is its own remainder.
LEMMA ModSmall ==
  ASSUME NEW M \in Nat \ {0}, NEW x \in 0..(M - 1)
  PROVE  x % M = x
  OBVIOUS
==============================================================================
