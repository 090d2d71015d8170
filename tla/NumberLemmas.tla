---------------------------- MODULE NumberLemmas ----------------------------
(***************************************************************************)
(* Facts about natural numbers that the proofs about loops, recursive       *)
(* functions and machine arithmetic cite.  Induction is stated for sets:    *)
(* a set of numbers has a least one, a set that holds 0 and with every      *)
(* number the next one holds all, and what a loop computes exists.          *)
(***************************************************************************)
EXTENDS Integers, WellFoundedInduction, TLAPS

LEMMA LessThanWellFounded == IsWellFoundedOn({p \in Nat \X Nat : p[1] < p[2]}, Nat)
<1>1. OpToRel(<, Nat) = {p \in Nat \X Nat : p[1] < p[2]}
  BY DEF OpToRel
<1> QED
  BY <1>1, NatLessThanWellFounded

LEMMA LeastNumber ==
  ASSUME NEW S, S \subseteq Nat, S # {}
  PROVE  \E n \in S : \A m \in S : n <= m
<1> DEFINE R == {p \in Nat \X Nat : p[1] < p[2]}
<1>1. IsWellFoundedOn(R, Nat)
  BY LessThanWellFounded
<1> HIDE DEF R
<1>2. PICK n \in S : \A m \in S : <<m, n>> \notin R
  BY <1>1, WFMin
<1>3. \A m \in S : ~(m < n)
  BY <1>2 DEF R
<1> QED
  BY <1>3

\* A set that holds 0, and with every number below a bound the next one, holds all numbers
\* up to the bound.
LEMMA UpToBound ==
  ASSUME NEW n \in Nat, NEW S, 0 \in S, \A k \in 0 .. n - 1 : k \in S => k + 1 \in S
  PROVE  0 .. n \subseteq S
<1> SUFFICES ASSUME (0 .. n) \ S # {}
             PROVE  FALSE
  OBVIOUS
<1>1. PICK k \in (0 .. n) \ S : \A m \in (0 .. n) \ S : k <= m
  <2>1. (0 .. n) \ S \subseteq Nat
    OBVIOUS
  <2> QED
    BY <2>1, LeastNumber, Zenon
<1>2. k # 0 /\ k - 1 \in 0 .. n - 1
  BY <1>1
<1>3. k - 1 \in S
  BY <1>1, <1>2
<1> QED
  BY <1>1, <1>2, <1>3

LEMMA AllNumbers ==
  ASSUME NEW S, 0 \in S, \A k \in Nat : k \in S => k + 1 \in S
  PROVE  Nat \subseteq S
<1> SUFFICES ASSUME NEW n \in Nat
             PROVE  n \in S
  OBVIOUS
<1>1. 0 .. n \subseteq S
  BY UpToBound
<1> QED
  BY <1>1

\* The values a loop goes through in n turns.
Turns(S, start, step, n) ==
  {f \in [0 .. n -> S] : f[0] = start /\ \A k \in 1 .. n : f[k] = step[k][f[k - 1]]}

LEMMA Iterated ==
  ASSUME NEW S, NEW start \in S, NEW n \in Nat, NEW step \in [1 .. n -> [S -> S]]
  PROVE  Turns(S, start, step, n) # {}
<1> DEFINE Good == {m \in 0 .. n : \E f \in [0 .. m -> S] :
                      f[0] = start /\ \A k \in 1 .. m : f[k] = step[k][f[k - 1]]}
<1>1. 0 \in Good
  <2> DEFINE f == [i \in 0 .. 0 |-> start]
  <2>1. f \in [0 .. 0 -> S] /\ f[0] = start
    OBVIOUS
  <2> HIDE DEF f
  <2>2. \A k \in 1 .. 0 : f[k] = step[k][f[k - 1]]
    OBVIOUS
  <2> QED
    BY <2>1, <2>2
<1>2. ASSUME NEW m \in 0 .. n - 1, m \in Good
      PROVE  m + 1 \in Good
  <2>1. PICK f \in [0 .. m -> S] :
           f[0] = start /\ \A k \in 1 .. m : f[k] = step[k][f[k - 1]]
    BY <1>2
  <2> DEFINE g == [k \in 0 .. m + 1 |-> IF k = m + 1 THEN step[m + 1][f[m]] ELSE f[k]]
  <2>2. step[m + 1][f[m]] \in S
    <3>1. f[m] \in S /\ m + 1 \in 1 .. n
      BY <2>1
    <3> QED
      BY <3>1
  <2>3. g \in [0 .. m + 1 -> S]
    BY <2>1, <2>2
  <2>4. /\ \A k \in 0 .. m : g[k] = f[k]
        /\ g[m + 1] = step[m + 1][f[m]]
    OBVIOUS
  <2> HIDE DEF g
  <2>5. g[0] = start
    BY <2>1, <2>4
  <2>6. ASSUME NEW k \in 1 .. m + 1
        PROVE  g[k] = step[k][g[k - 1]]
    <3>1. CASE k = m + 1
      BY <2>4, <3>1
    <3>2. CASE k # m + 1
      <4>1. k \in 1 .. m /\ k \in 0 .. m /\ k - 1 \in 0 .. m
        BY <3>2
      <4> QED
        BY <2>1, <2>4, <4>1
    <3> QED
      BY <3>1, <3>2
  <2> DEFINE Walked(h) == h[0] = start /\ \A k \in 1 .. m + 1 : h[k] = step[k][h[k - 1]]
  <2>7. Walked(g)
    BY <2>5, <2>6
  <2> HIDE DEF Walked
  <2>8. \E h \in [0 .. m + 1 -> S] : Walked(h)
    BY <2>3, <2>7, Zenon
  <2>9. m + 1 \in 0 .. n
    OBVIOUS
  <2> QED
    BY <2>8, <2>9, Zenon DEF Walked
<1>3. n \in Good
  <2> HIDE DEF Good
  <2>1. 0 .. n \subseteq Good
    BY <1>1, <1>2, UpToBound
  <2> QED
    BY <2>1
<1> QED
  BY <1>3 DEF Turns
-----------------------------------------------------------------------------
\* Quotient and remainder, and that they are the only ones.
LEMMA Division ==
  ASSUME NEW a \in Nat, NEW d \in Nat \ {0}
  PROVE  a \div d \in Nat /\ a % d \in 0 .. d - 1 /\ a = d * (a \div d) + (a % d)
  OBVIOUS

LEMMA RemainderIs ==
  ASSUME NEW a \in Int, NEW d \in Nat \ {0}, NEW q \in Int, NEW r \in 0 .. d - 1, a = d * q + r
  PROVE  a % d = r
  OBVIOUS

LEMMA IntegerDivision ==
  ASSUME NEW a \in Int, NEW d \in Nat \ {0}
  PROVE  a \div d \in Int /\ a % d \in 0 .. d - 1 /\ a = d * (a \div d) + (a % d)
  OBVIOUS

LEMMA NextMultiple ==
  ASSUME NEW d \in Nat \ {0}, NEW q \in Nat, NEW k \in Nat, d * q < d * k
  PROVE  d * q + d <= d * k
  OBVIOUS

LEMMA MultipleOf ==
  ASSUME NEW a \in Nat, NEW d \in Nat \ {0}
  PROVE  a % d = 0 <=> \E q \in Nat : a = d * q
<1>1. ASSUME a % d = 0
      PROVE  \E q \in Nat : a = d * q
  <2>1. a \div d \in Nat /\ a = d * (a \div d) + 0
    BY <1>1, Division
  <2>2. a = d * (a \div d)
    BY <2>1
  <2> QED
    BY <2>1, <2>2, Zenon
<1>2. ASSUME NEW q \in Nat, a = d * q
      PROVE  a % d = 0
  <2>1. a = d * q + 0 /\ 0 \in 0 .. d - 1
    BY <1>2
  <2> QED
    BY <2>1, RemainderIs
<1> QED
  BY <1>1, <1>2

LEMMA SumOfMultiples ==
  ASSUME NEW a \in Nat, NEW b \in Nat, NEW d \in Nat \ {0}, a % d = 0, b % d = 0
  PROVE  (a + b) % d = 0
<1>1. PICK q \in Nat : a = d * q
  BY MultipleOf
<1>2. PICK k \in Nat : b = d * k
  BY MultipleOf
<1>3. a + b = d * (q + k) /\ q + k \in Nat /\ a + b \in Nat
  BY <1>1, <1>2
<1> QED
  BY <1>3, MultipleOf

\* A number of two digits, and that the products are numbers.
LEMMA Digits ==
  ASSUME NEW d \in Nat \ {0}, NEW e \in Nat \ {0}, NEW low \in 0 .. d - 1, NEW high \in 0 .. e - 1
  PROVE  d * e \in Nat \ {0} /\ low + d * high \in 0 .. d * e - 1
<1>1. d * high < d * e /\ d * high \in Nat /\ d * e \in Nat /\ low \in Nat
  OBVIOUS
<1>2. d * high + d <= d * e
  BY <1>1, NextMultiple
<1> QED
  BY <1>1, <1>2

LEMMA RoundedDown ==
  ASSUME NEW a \in Nat, NEW d \in Nat \ {0}
  PROVE  a - (a % d) \in Nat /\ (a - (a % d)) % d = 0
<1>1. a - (a % d) = d * (a \div d) /\ a \div d \in Nat /\ a - (a % d) \in Nat
  BY Division
<1> QED
  BY <1>1, MultipleOf
==============================================================================
