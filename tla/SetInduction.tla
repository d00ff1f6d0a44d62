---------------------------- MODULE SetInduction ----------------------------
(***************************************************************************)
(* Induction and recursion over the natural numbers, for sets and          *)
(* functions instead of operators: what holds of some numbers is a set of  *)
(* them, a step of a recursion is a function.                              *)
(***************************************************************************)
EXTENDS Integers, WellFoundedInduction, TLAPS

(* A set of natural numbers that is not empty has a least one.             *)
LEMMA Least ==
    ASSUME NEW T, T \subseteq Nat, T # {}
    PROVE  \E n \in T : \A m \in T : n <= m
  <1> DEFINE R == {ss \in Nat \X Nat : ss[1] < ss[2]}
  <1>1. IsWellFoundedOn(R, Nat)
      BY NatLessThanWellFounded DEF OpToRel
  <1>2. PICK n \in T : \A m \in T : <<m, n>> \notin R
      BY <1>1, WFMin
  <1>3. \A m \in T : ~(m < n)
      BY <1>2
  <1> QED
      BY <1>3

(* What holds of 0, and of i + 1 if of i, holds of all numbers up to n.    *)
LEMMA UpTo ==
    ASSUME NEW n \in Nat, NEW T,
           0 \in T, \A i \in 0 .. n - 1 : i \in T => i + 1 \in T
    PROVE  0 .. n \subseteq T
  <1>1. SUFFICES ASSUME (0 .. n) \ T # {}
                 PROVE  FALSE
      OBVIOUS
  <1>2. PICK m \in (0 .. n) \ T : \A k \in (0 .. n) \ T : m <= k
    <2>1. (0 .. n) \ T \subseteq Nat
        OBVIOUS
    <2> QED
        BY <1>1, <2>1, Least
  <1>3. m - 1 \in 0 .. n - 1 /\ m - 1 \in T /\ (m - 1) + 1 = m
      BY <1>2
  <1> QED
      BY <1>2, <1>3

(* f holds n values of S after x, each computed from the one before.       *)
Computes(f, n, S, x, step) ==
    /\ f \in [0 .. n -> S] /\ f[0] = x
    /\ \A i \in 1 .. n : f[i] = step[<<i, f[i - 1]>>]

(* A function that is computed step by step exists.                        *)
LEMMA Recursion ==
    ASSUME NEW n \in Nat, NEW S, NEW x \in S, NEW step \in [(1 .. n) \X S -> S]
    PROVE  \E f : Computes(f, n, S, x, step)
  <1> DEFINE Runs(f, m) == Computes(f, m, S, x, step)
             T == {m \in 0 .. n : \E f : Runs(f, m)}
  <1> USE DEF Computes
  <1>1. 0 \in T
    <2>1. PICK f : f = [i \in 0 .. 0 |-> x]
        OBVIOUS
    <2>2. Runs(f, 0)
        BY <2>1
    <2> QED
        BY <2>2
  <1>2. ASSUME NEW m \in 0 .. n - 1, m \in T
        PROVE  m + 1 \in T
    <2>1. PICK f : Runs(f, m)
        BY <1>2
    <2>2. PICK y : y = step[<<m + 1, f[m]>>]
        OBVIOUS
    <2>3. y \in S
      <3>1. f[m] \in S /\ m + 1 \in 1 .. n
          BY <2>1
      <3>2. <<m + 1, f[m]>> \in (1 .. n) \X S
          BY <3>1
      <3> QED
          BY <2>2, <3>2
    <2>4. PICK g : g = [i \in 0 .. m + 1 |-> IF i <= m THEN f[i] ELSE y]
        OBVIOUS
    <2>5. g \in [0 .. m + 1 -> S]
        BY <2>1, <2>3, <2>4
    <2>6. g[0] = x
        BY <2>1, <2>4
    <2>7. ASSUME NEW i \in 1 .. m + 1
          PROVE  g[i] = step[<<i, g[i - 1]>>]
      <3>1. i - 1 \in 0 .. m /\ g[i - 1] = f[i - 1]
          BY <2>4
      <3>2. CASE i <= m
          BY <2>1, <2>4, <3>1, <3>2
      <3>3. CASE i = m + 1
        <4>1. g[i] = y /\ i - 1 = m
            BY <2>4, <3>3
        <4> QED
            BY <2>2, <3>1, <3>3, <4>1
      <3> QED
          BY <3>2, <3>3
    <2>8. Runs(g, m + 1)
        BY <2>5, <2>6, <2>7
    <2>9. m + 1 \in 0 .. n
        OBVIOUS
    <2> QED
        BY <2>8, <2>9
  <1> HIDE DEF T, Computes
  <1>3. 0 .. n \subseteq T
      BY <1>1, <1>2, UpTo
  <1>4. n \in T
      BY <1>3
  <1> QED
      BY <1>4 DEF T
=============================================================================
