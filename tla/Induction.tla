------------------------------ MODULE Induction ------------------------------
(***************************************************************************)
(* Induction over the natural numbers, in the form in which proofs about   *)
(* recursive functions use it: a set of numbers has a least element, and a *)
(* bounded one a greatest.                                                 *)
(***************************************************************************)
EXTENDS Integers, WellFoundedInduction, TLAPS

\* A set of natural numbers that is not empty has a least element.
LEMMA LeastNumber ==
  ASSUME NEW T \in SUBSET Nat, T # {}
  PROVE  \E x \in T : \A y \in T : x <= y
<1> DEFINE R == {pair \in Nat \X Nat : pair[1] < pair[2]}
<1>1. IsWellFoundedOn(R, Nat)
  BY NatLessThanWellFounded DEF OpToRel
<1>2. PICK x \in T : \A y \in T : ~ (<<y, x>> \in R)
  <2> HIDE DEF R
  <2> QED BY <1>1, WFMin
<1>3. ASSUME NEW y \in T PROVE x <= y
  <2>1. y \in Nat /\ x \in Nat
    OBVIOUS
  <2>2. <<y, x>> \in R <=> y < x
    BY <2>1
  <2>3. ~ (<<y, x>> \in R)
    BY <1>2
  <2> QED BY <2>1, <2>2, <2>3
<1> QED BY <1>3

\* A set of natural numbers that is not empty and has a bound has a greatest
\* element.
LEMMA GreatestNumber ==
  ASSUME NEW T \in SUBSET Nat, T # {}, NEW n \in Nat, \A x \in T : x <= n
  PROVE  \E x \in T : \A y \in T : y <= x
<1> DEFINE U == {n - x : x \in T}
<1>1. U \in SUBSET Nat /\ U # {}
  <2>1. U \in SUBSET Nat
    OBVIOUS
  <2>2. PICK x \in T : TRUE
    OBVIOUS
  <2>3. n - x \in U
    OBVIOUS
  <2> QED BY <2>1, <2>3
<1>2. PICK u \in U : \A v \in U : u <= v
  <2> HIDE DEF U
  <2> QED BY <1>1, LeastNumber
<1>3. PICK x \in T : u = n - x
  OBVIOUS
<1>4. ASSUME NEW y \in T PROVE y <= x
  <2>1. n - y \in U
    OBVIOUS
  <2>2. u <= n - y
    BY <1>2, <2>1
  <2> QED BY <1>3, <2>2
<1> QED BY <1>4

\* What holds of a number if it holds of all smaller ones holds of all
\* numbers up to a bound.
LEMMA FromSmaller ==
  ASSUME NEW n \in Nat, NEW T, \A i \in 0 .. n : (\A j \in 0 .. i - 1 : j \in T) => i \in T
  PROVE  \A i \in 0 .. n : i \in T
<1> SUFFICES ASSUME NEW i \in 0 .. n, i \notin T PROVE FALSE
  OBVIOUS
<1> DEFINE U == {j \in 0 .. n : j \notin T}
<1>1. U \in SUBSET Nat /\ i \in U
  OBVIOUS
<1>2. PICK x \in U : \A y \in U : x <= y
  <2> HIDE DEF U
  <2> QED BY <1>1, LeastNumber
<1>3. x \in 0 .. n /\ x \notin T
  OBVIOUS
<1>4. \A j \in 0 .. x - 1 : j \in T
  <2> SUFFICES ASSUME NEW j \in 0 .. x - 1, j \notin T PROVE FALSE
    OBVIOUS
  <2>1. j \in 0 .. n /\ j < x
    BY <1>3
  <2>2. j \in U
    BY <2>1
  <2>3. x <= j
    BY <1>2, <2>2
  <2> QED BY <1>3, <2>1, <2>3
<1> QED BY <1>3, <1>4

\* What holds of 0, and of each number if it holds of the one before it,
\* holds of all numbers up to a bound.
LEMMA UpTo ==
  ASSUME NEW n \in Nat, NEW T, 0 \in T, \A i \in 0 .. n - 1 : i \in T => i + 1 \in T
  PROVE  \A i \in 0 .. n : i \in T
<1> SUFFICES ASSUME NEW i \in 0 .. n, i \notin T PROVE FALSE
  OBVIOUS
<1> DEFINE U == {j \in 0 .. n : j \notin T}
<1>1. U \in SUBSET Nat /\ i \in U
  OBVIOUS
<1>2. PICK x \in U : \A y \in U : x <= y
  <2> HIDE DEF U
  <2> QED BY <1>1, LeastNumber
<1>3. x \in 0 .. n /\ x \notin T
  OBVIOUS
<1>4. x # 0 /\ x - 1 \in 0 .. n - 1
  BY <1>3
<1>5. x - 1 \notin U
  BY <1>2, <1>3
<1>6. x - 1 \in T
  BY <1>4, <1>5
<1>7. x - 1 + 1 \in T /\ x - 1 + 1 = x
  BY <1>4, <1>6
<1> QED BY <1>3, <1>7

\* The same from the bound down to 0.
LEMMA DownFrom ==
  ASSUME NEW n \in Nat, NEW T, n \in T, \A i \in 0 .. n - 1 : i + 1 \in T => i \in T
  PROVE  \A i \in 0 .. n : i \in T
<1> DEFINE U == {n - j : j \in {k \in 0 .. n : k \in T}}
<1>1. 0 \in U
  OBVIOUS
<1>2. ASSUME NEW i \in 0 .. n - 1, i \in U PROVE i + 1 \in U
  <2>1. PICK j \in 0 .. n : j \in T /\ i = n - j
    BY <1>2
  <2>2. j - 1 \in 0 .. n - 1 /\ j - 1 + 1 = j
    BY <2>1
  <2>3. j - 1 \in T
    BY <2>1, <2>2
  <2>4. j - 1 \in 0 .. n /\ i + 1 = n - (j - 1)
    BY <2>1, <2>2
  <2> QED BY <2>3, <2>4
<1>3. \A i \in 0 .. n : i \in U
  <2> HIDE DEF U
  <2> QED BY <1>1, <1>2, UpTo
<1> SUFFICES ASSUME NEW i \in 0 .. n PROVE i \in T
  OBVIOUS
<1>4. n - i \in U
  BY <1>3
<1>5. PICK j \in 0 .. n : j \in T /\ n - i = n - j
  BY <1>4
<1> QED BY <1>5
=============================================================================
