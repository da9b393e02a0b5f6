----------------------------- MODULE Induction -----------------------------
(***************************************************************************)
(* Induction over natural numbers, for sets instead of predicates: the     *)
(* library's rules take an operator as a parameter, which no prover here   *)
(* can instantiate.  They rest on the well-foundedness of the less-than    *)
(* relation.                                                               *)
(***************************************************************************)
EXTENDS Integers, WellFoundedInduction, TLAPS

\* A set of natural numbers has a least element.
LEMMA LeastElement ==
    ASSUME NEW T \in SUBSET Nat, T # {}
    PROVE  \E m \in T : \A n \in T : m <= n
<1>1. PICK m \in T : \A n \in T : <<n, m>> \notin OpToRel(<, Nat)
  <2>1. T \subseteq Nat /\ IsWellFoundedOn(OpToRel(<, Nat), Nat)
    BY NatLessThanWellFounded, Zenon
  <2> QED
    BY <2>1, WFMin, Zenon
<1>2. \A n \in T : n < m => <<n, m>> \in OpToRel(<, Nat)
  BY Zenon DEF OpToRel
<1>3. \A n \in T : ~(n < m)
  BY <1>1, <1>2, Zenon
<1>4. m \in Nat /\ \A n \in T : n \in Nat
  OBVIOUS
<1> QED
  BY <1>3, <1>4

\* A set that contains a number whenever it contains all smaller ones
LEMMA StrongInduction ==
    ASSUME NEW T, \A n \in Nat : (\A k \in 0 .. n - 1 : k \in T) => n \in T
    PROVE  \A n \in Nat : n \in T
<1> DEFINE U == Nat \ T
<1>1. SUFFICES ASSUME U # {} PROVE FALSE
  OBVIOUS
<1>2. PICK m \in U : \A n \in U : m <= n
  BY <1>1, LeastElement
<1>3. \A k \in 0 .. m - 1 : k \in T
  <2> SUFFICES ASSUME NEW k \in 0 .. m - 1, k \notin T PROVE FALSE
    OBVIOUS
  <2>1. k \in U /\ ~(m <= k)
    BY <1>2
  <2> QED
    BY <2>1, <1>2
<1> QED
  BY <1>2, <1>3

LEMMA SetInduction ==
    ASSUME NEW T, 0 \in T, \A n \in Nat : n \in T => n + 1 \in T
    PROVE  \A n \in Nat : n \in T
<1>1. \A n \in Nat : (\A k \in 0 .. n - 1 : k \in T) => n \in T
  <2> SUFFICES ASSUME NEW n \in Nat, \A k \in 0 .. n - 1 : k \in T, n # 0
               PROVE  n \in T
    OBVIOUS
  <2>1. n - 1 \in Nat /\ n - 1 \in 0 .. n - 1 /\ (n - 1) + 1 = n
    OBVIOUS
  <2> QED
    BY <2>1
<1> QED
  BY <1>1, StrongInduction

\* The same up to a bound
LEMMA BoundedInduction ==
    ASSUME NEW m \in Nat, NEW T, 0 \in T, \A n \in 0 .. m - 1 : n \in T => n + 1 \in T
    PROVE  \A n \in 0 .. m : n \in T
<1> DEFINE U == {n \in Nat : n <= m => n \in T}
<1>1. 0 \in U
  OBVIOUS
<1>2. \A n \in Nat : n \in U => n + 1 \in U
  <2> SUFFICES ASSUME NEW n \in Nat, n \in U, n + 1 <= m PROVE n + 1 \in T
    OBVIOUS
  <2>1. n \in 0 .. m - 1 /\ n \in T
    OBVIOUS
  <2> QED
    BY <2>1
<1>3. \A n \in Nat : n \in U
  <2> HIDE DEF U
  <2> QED
    BY <1>1, <1>2, SetInduction
<1> QED
  BY <1>3

\* f is base at 0, and at each number what a step makes of what it is before it.
Recursive(f, base, step, m) ==
    /\ f[0] = base
    /\ \A n \in 1 .. m : f[n] = step[<<f[n - 1], n>>]

\* A function can be defined by what it is at 0 and a step from each number to the next.
LEMMA RecursiveFunction ==
    ASSUME NEW V, NEW base \in V, NEW m \in Nat, NEW step \in [V \X (1 .. m) -> V]
    PROVE  \E f \in [0 .. m -> V] : Recursive(f, base, step, m)
<1> DEFINE Upto(f, k) == /\ f[0] = base
                         /\ \A n \in 1 .. k : f[n] = step[<<f[n - 1], n>>]
           T == {k \in 0 .. m : \E f \in [0 .. k -> V] : Upto(f, k)}
<1>1. 0 \in T
  <2> DEFINE f == [n \in 0 .. 0 |-> base]
  <2>1. f \in [0 .. 0 -> V] /\ Upto(f, 0)
    OBVIOUS
  <2>2. \E h \in [0 .. 0 -> V] : Upto(h, 0)
    <3> HIDE DEF f
    <3> QED
      BY <2>1
  <2> QED
    BY <2>2
<1>2. \A k \in 0 .. m - 1 : k \in T => k + 1 \in T
  <2> SUFFICES ASSUME NEW k \in 0 .. m - 1, NEW f \in [0 .. k -> V], Upto(f, k)
               PROVE  \E g \in [0 .. k + 1 -> V] : Upto(g, k + 1)
    OBVIOUS
  <2> DEFINE g == [n \in 0 .. k + 1 |-> IF n = k + 1 THEN step[<<f[k], k + 1>>] ELSE f[n]]
  <2>1. step[<<f[k], k + 1>>] \in V
    OBVIOUS
  <2>2. g \in [0 .. k + 1 -> V]
    BY <2>1
  <2>3. g[0] = base
    OBVIOUS
  <2>4. ASSUME NEW n \in 1 .. k + 1 PROVE g[n] = step[<<g[n - 1], n>>]
    <3>1. CASE n = k + 1
      <4>1. /\ n \in 0 .. k + 1 /\ n - 1 = k /\ n - 1 \in 0 .. k + 1 /\ n - 1 # k + 1
        BY <3>1
      <4>2. g[n] = step[<<f[k], k + 1>>] /\ g[n - 1] = f[k]
        BY <4>1, <3>1
      <4> HIDE DEF g
      <4> QED
        BY <4>2, <3>1
    <3>2. CASE n # k + 1
      <4>1. n \in 1 .. k /\ n \in 0 .. k + 1 /\ n - 1 \in 0 .. k + 1 /\ n - 1 # k + 1
        BY <3>2
      <4>2. g[n] = f[n] /\ g[n - 1] = f[n - 1]
        BY <4>1, <3>2
      <4>3. f[n] = step[<<f[n - 1], n>>]
        BY <4>1, Zenon
      <4> QED
        BY <4>2, <4>3
    <3> QED
      BY <3>1, <3>2
  <2> HIDE DEF g
  <2> QED
    BY <2>2, <2>3, <2>4
<1>3. \A k \in 0 .. m : k \in T
  <2> HIDE DEF T
  <2> QED
    BY <1>1, <1>2, BoundedInduction
<1>4. m \in T
  <2> HIDE DEF T
  <2>1. m \in 0 .. m
    OBVIOUS
  <2> QED
    BY <1>3, <2>1, Zenon
<1> QED
  BY <1>4, Zenon DEF Recursive
=============================================================================
