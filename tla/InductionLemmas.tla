-------------------------- MODULE InductionLemmas --------------------------
(***************************************************************************)
(* Induction over the natural numbers in a form that the provers can       *)
(* apply: about the members of a set instead of about an operator.  The    *)
(* statement to be proved by induction is the membership in a set that a   *)
(* proof defines with DEFINE.                                              *)
(***************************************************************************)
EXTENDS Integers, WellFoundedInduction, TLAPS

(* A set of natural numbers has a least member.                            *)
LEMMA LeastNat ==
  ASSUME NEW T \in SUBSET Nat, T # {}
  PROVE  \E m \in T : \A k \in T : m <= k
<1> DEFINE R == {ss \in Nat \X Nat : ss[1] < ss[2]}
<1>1. IsWellFoundedOn(R, Nat)
  BY NatLessThanWellFounded DEF OpToRel
<1> HIDE DEF R
<1>2. PICK x \in T : \A y \in T : ~ (<<y, x>> \in R)
  BY <1>1, WFMin
<1>3. ASSUME NEW y \in T PROVE x <= y
  <2>1. <<y, x>> \in Nat \X Nat /\ <<y, x>> \notin R
    BY <1>2
  <2>2. ~(<<y, x>>[1] < <<y, x>>[2])
    BY <2>1 DEF R
  <2> QED
    BY <2>2
<1> QED
  BY <1>2, <1>3

(* A set that holds zero and the successor of every number in it holds     *)
(* every number: what is not in it would have a least member.              *)
LEMMA InductionNat ==
  ASSUME NEW T, 0 \in T, \A n \in Nat : n \in T => n + 1 \in T
  PROVE  Nat \subseteq T
<1> DEFINE C == Nat \ T
<1> SUFFICES ASSUME C # {} PROVE FALSE
  OBVIOUS
<1>1. PICK m \in C : \A k \in C : m <= k
  BY LeastNat
<1>2. m # 0 /\ m - 1 \in Nat
  BY <1>1
<1>3. m - 1 \in T
  BY <1>1, <1>2
<1> QED
  BY <1>1, <1>2, <1>3

(* The same up to a bound.                                                 *)
LEMMA InductionUpTo ==
  ASSUME NEW T, NEW n \in Nat, 0 \in T, \A i \in 1..n : i - 1 \in T => i \in T
  PROVE  0..n \subseteq T
<1> DEFINE W == {i \in Nat : i <= n => i \in T}
<1>1. 0 \in W
  OBVIOUS
<1>2. \A i \in Nat : i \in W => i + 1 \in W
  OBVIOUS
<1> HIDE DEF W
<1>3. Nat \subseteq W
  BY <1>1, <1>2, InductionNat
<1> QED
  BY <1>3 DEF W

(* The same from one on.                                                   *)
LEMMA InductionFromOne ==
  ASSUME NEW T, NEW n \in Nat, 1 \in T, \A i \in 2..n : i - 1 \in T => i \in T
  PROVE  1..n \subseteq T
<1> DEFINE W == {i \in Nat : i + 1 <= n => i + 1 \in T}
<1>1. 0 \in W
  OBVIOUS
<1>2. ASSUME NEW i \in Nat, i \in W PROVE i + 1 \in W
  <2> SUFFICES ASSUME (i + 1) + 1 <= n PROVE (i + 1) + 1 \in T
    OBVIOUS
  <2> DEFINE k == (i + 1) + 1
  <2>1. k \in 2..n /\ k - 1 = i + 1 /\ i + 1 <= n
    OBVIOUS
  <2>2. k - 1 \in T
    BY <1>2, <2>1
  <2> HIDE DEF k
  <2>3. k \in T
    BY <2>1, <2>2
  <2> QED
    BY <2>3 DEF k
<1> HIDE DEF W
<1>3. Nat \subseteq W
  BY <1>1, <1>2, InductionNat
<1>4. ASSUME NEW i \in 1..n PROVE i \in T
  <2>1. i - 1 \in W /\ (i - 1) + 1 = i
    BY <1>3
  <2> QED
    BY <2>1 DEF W
<1> QED
  BY <1>4

(* The first n iterates of F from x.                                       *)
IsIteration(g, F, x, n) == g = [i \in 1..n |-> IF i = 1 THEN x ELSE F[g[i - 1]]]

(* A function on a set can be iterated: there is a function defined by     *)
(* recursion over the number of iterations.                                *)
LEMMA Iterates ==
  ASSUME NEW X, NEW F \in [X -> X], NEW x \in X, NEW N \in Nat
  PROVE  \E g \in [1..N -> X] : IsIteration(g, F, x, N)
<1> DEFINE Is(g, n) == /\ g \in [1..n -> X]
                       /\ \A i \in 1..n : g[i] = IF i = 1 THEN x ELSE F[g[i - 1]]
           T == {n \in Nat : \E g : Is(g, n)}
<1>1. 0 \in T
  <2>1. Is([i \in 1..0 |-> x], 0)
    OBVIOUS
  <2> QED
    BY <2>1
<1>2. ASSUME NEW n \in Nat, n \in T PROVE n + 1 \in T
  <2>1. PICK g : Is(g, n)
    BY <1>2
  <2> DEFINE last == IF n = 0 THEN x ELSE F[g[n]]
             h == [i \in 1..n + 1 |-> IF i = n + 1 THEN last ELSE g[i]]
  <2>2. last \in X
    BY <2>1
  <2>3. \A i \in 1..n : h[i] = g[i]
    OBVIOUS
  <2>4. h \in [1..n + 1 -> X]
    BY <2>1, <2>2
  <2>5. h[n + 1] = last
    OBVIOUS
  <2> HIDE DEF h
  <2>6. ASSUME NEW i \in 1..n + 1 PROVE h[i] = IF i = 1 THEN x ELSE F[h[i - 1]]
    <3>1. CASE i = n + 1
      BY <3>1, <2>3, <2>5
    <3>2. CASE i # n + 1
      <4>1. i \in 1..n /\ (i # 1 => i - 1 \in 1..n)
        BY <3>2
      <4> QED
        BY <4>1, <2>1, <2>3
    <3> QED
      BY <3>1, <3>2
  <2>7. Is(h, n + 1)
    BY <2>4, <2>6
  <2> QED
    BY <2>7
<1> HIDE DEF T
<1>3. Nat \subseteq T
  BY <1>1, <1>2, InductionNat
<1>4. PICK g : Is(g, N)
  BY <1>3 DEF T
<1>5. g = [i \in 1..N |-> IF i = 1 THEN x ELSE F[g[i - 1]]]
  BY <1>4
<1> QED
  BY <1>4, <1>5 DEF IsIteration
=============================================================================
