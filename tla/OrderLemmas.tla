----------------------------- MODULE OrderLemmas -----------------------------
(***************************************************************************)
(* Facts about the operators of the library that the models are built of.  *)
(***************************************************************************)
EXTENDS Integers, FiniteSetsExt, WellFoundedInduction, TLAPS

\* Min, which stands for the first hit of an upward loop of the kernel (the scan
\* for a free slot or descriptor, check_tasks, my_strcpy up to a newline),
\* returns the least member of a nonempty set of numbers.
LEMMA MinIn ==
    ASSUME NEW S \in SUBSET Nat, S # {}
    PROVE  Min(S) \in S /\ \A y \in S : Min(S) <= y
<1> DEFINE R == OpToRel(<, Nat)
<1>1. \A i, j \in Nat : << i, j >> \in R <=> i < j
  BY DEF OpToRel
<1>2. \E x \in S : \A y \in S : ~ (<< y, x >> \in R)
  <2> HIDE DEF R
  <2>1. IsWellFoundedOn(R, Nat)
    BY NatLessThanWellFounded DEF R
  <2> QED BY <2>1, WFMin
<1>3. \E x \in S : \A y \in S : x <= y
  <2> HIDE DEF R
  <2>1. PICK x \in S : \A y \in S : ~ (<< y, x >> \in R)
    BY <1>2
  <2>2. ASSUME NEW y \in S PROVE x <= y
    <3>1. ~ (y < x)
      BY <2>1, <1>1
    <3> QED BY <3>1
  <2> QED BY <2>2
<1> QED BY <1>3 DEF Min

\* Max, the first hit of a downward loop (find_parent_process, the begin of the
\* last word of a line), returns the greatest one.
LEMMA MaxBelow ==
    ASSUME NEW n \in Nat, NEW S \in SUBSET (0 .. n), S # {}
    PROVE  Max(S) \in S /\ \A y \in S : y <= Max(S)
<1> DEFINE M == {n - x : x \in S}
<1>1. M \in SUBSET Nat /\ M # {}
  <2>1. PICK x : x \in S
    OBVIOUS
  <2>2. n - x \in M
    BY <2>1
  <2>3. M \in SUBSET Nat
    OBVIOUS
  <2> QED BY <2>2, <2>3
<1>2. Min(M) \in M /\ \A y \in M : Min(M) <= y
  <2> HIDE DEF M
  <2> QED BY <1>1, MinIn
<1>3. PICK x \in S : Min(M) = n - x
  BY <1>2
<1>4. ASSUME NEW y \in S PROVE y <= x
  <2>1. n - y \in M
    OBVIOUS
  <2>2. n - x <= n - y
    BY <1>2, <1>3, <2>1
  <2> QED BY <2>2
<1> QED BY <1>4 DEF Max
=============================================================================
