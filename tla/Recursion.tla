----------------------------- MODULE Recursion -----------------------------
(***************************************************************************)
(* Induction and definition by recursion, for the loops of Plan and Graph. *)
(* A property is the set of the numbers it holds for, and a step is a      *)
(* function: the statements then have no operator for a parameter, and are *)
(* cited like any other fact.                                              *)
(***************************************************************************)
EXTENDS Integers, FiniteSets, FiniteSetTheorems, WellFoundedInduction, TLAPS

-----------------------------------------------------------------------------
(* Induction. *)

\* A set of numbers has a smallest one.
THEOREM SmallestOf ==
  ASSUME NEW T \in SUBSET Nat, T # {}
  PROVE  \E x \in T : \A y \in T : x <= y
<1> DEFINE R == {ss \in Nat \X Nat : ss[1] < ss[2]}
<1>1. IsWellFoundedOn(R, Nat)
  BY NatLessThanWellFounded, Zenon DEF OpToRel
<1>2. \A x, y \in Nat : y < x => <<y, x>> \in R
  OBVIOUS
<1> HIDE DEF R
<1>3. PICK x \in T : \A y \in T : <<y, x>> \notin R
  BY <1>1, WFMin
<1>4. x \in Nat /\ \A y \in T : y \in Nat
  OBVIOUS
<1>5. ASSUME NEW y \in T PROVE x <= y
  <2>1. ~(y < x)
    BY <1>2, <1>3, <1>4
  <2> QED  BY <1>4, <2>1
<1> QED  BY <1>5

\* A set of numbers that do not exceed a bound has a largest one.
THEOREM LargestOf ==
  ASSUME NEW T \in SUBSET Nat, T # {}, NEW n \in Nat, \A x \in T : x <= n
  PROVE  \E x \in T : \A y \in T : y <= x
<1> DEFINE U == {n - x : x \in T}
<1>1. \A x \in T : x \in Nat /\ n - x \in Nat
  OBVIOUS
<1>2. U \in SUBSET Nat /\ U # {}
  BY <1>1
<1>3. \A y \in T : n - y \in U
  OBVIOUS
<1>4. \A u \in U : \E x \in T : u = n - x
  OBVIOUS
<1> HIDE DEF U
<1>5. PICK u \in U : \A y \in U : u <= y
  BY <1>2, SmallestOf
<1>6. PICK x \in T : u = n - x
  BY <1>4
<1>7. ASSUME NEW y \in T PROVE y <= x
  <2>1. n - x <= n - y
    BY <1>3, <1>5, <1>6
  <2> QED  BY <1>1, <2>1
<1> QED  BY <1>7

\* A set that has 0, and the successor of each of its numbers, has them all.
THEOREM InductionOnNat ==
  ASSUME NEW S, 0 \in S, \A n \in Nat : n \in S => n + 1 \in S
  PROVE  Nat \subseteq S
<1> DEFINE T == {n \in Nat : n \notin S}
<1> SUFFICES ASSUME T # {} PROVE FALSE
  OBVIOUS
<1>1. T \in SUBSET Nat
  OBVIOUS
<1>2. PICK x \in T : \A y \in T : x <= y
  <2> HIDE DEF T
  <2> QED  BY <1>1, SmallestOf
<1>3. x \in Nat /\ x # 0
  OBVIOUS
<1>4. x - 1 \in T
  BY <1>3
<1> QED  BY <1>2, <1>3, <1>4

-----------------------------------------------------------------------------
(* Recursion over numbers. *)

\* What the first n + 1 values of a recursion with this step are.
Unrolls(g, base, step, n) ==
  /\ DOMAIN g = 0 .. n
  /\ g[0] = base
  /\ \A i \in 1 .. n : g[i] = step[<<g[i - 1], i>>]

\* Two functions that follow one step agree.
LEMMA SameValues ==
  ASSUME NEW base, NEW step, NEW g, NEW h, NEW m \in Nat, NEW n \in Nat,
         Unrolls(g, base, step, m), Unrolls(h, base, step, n)
  PROVE  \A i \in Nat : i <= m /\ i <= n => g[i] = h[i]
<1> DEFINE S == {i \in Nat : i <= m /\ i <= n => g[i] = h[i]}
<1>1. 0 \in S
  BY DEF Unrolls
<1>2. ASSUME NEW i \in Nat, i \in S PROVE i + 1 \in S
  <2> SUFFICES ASSUME i + 1 <= m, i + 1 <= n PROVE g[i + 1] = h[i + 1]
    OBVIOUS
  <2>1. i + 1 \in 1 .. m /\ i + 1 \in 1 .. n /\ (i + 1) - 1 = i /\ g[i] = h[i]
    BY <1>2
  <2>2. g[i + 1] = step[<<g[(i + 1) - 1], i + 1>>] /\ h[i + 1] = step[<<h[(i + 1) - 1], i + 1>>]
    BY <2>1 DEF Unrolls
  <2> QED  BY <2>1, <2>2
<1>3. Nat \subseteq S
  <2> HIDE DEF S
  <2> QED  BY <1>1, <1>2, InductionOnNat
<1> QED  BY <1>3

\* A recursion can be unrolled as far as one likes.
LEMMA Unrollable ==
  ASSUME NEW base, NEW step
  PROVE  \A n \in Nat : \E g : Unrolls(g, base, step, n)
<1> DEFINE S == {n \in Nat : \E g : Unrolls(g, base, step, n)}
<1>1. 0 \in S
  <2>1. Unrolls([i \in 0 .. 0 |-> base], base, step, 0)
    BY DEF Unrolls
  <2> QED  BY <2>1
<1>2. ASSUME NEW n \in Nat, n \in S PROVE n + 1 \in S
  <2>1. PICK g : Unrolls(g, base, step, n)
    BY <1>2
  <2> DEFINE h == [i \in 0 .. n + 1 |-> IF i = n + 1 THEN step[<<g[n], n + 1>>] ELSE g[i]]
  <2>2. DOMAIN h = 0 .. n + 1 /\ h[0] = base
    BY <2>1 DEF Unrolls
  <2>3. ASSUME NEW i \in 1 .. n + 1 PROVE h[i] = step[<<h[i - 1], i>>]
    <3>1. h[i - 1] = g[i - 1]
      OBVIOUS
    <3>2. CASE i = n + 1
      <4>1. h[i] = step[<<g[n], n + 1>>] /\ i - 1 = n
        BY <3>2
      <4> QED  BY <3>1, <3>2, <4>1
    <3>3. CASE i # n + 1
      <4>1. i \in 1 .. n /\ h[i] = g[i]
        BY <3>3
      <4> QED  BY <3>1, <4>1, <2>1 DEF Unrolls
    <3> QED  BY <3>2, <3>3
  <2> HIDE DEF h
  <2>4. Unrolls(h, base, step, n + 1)
    BY <2>2, <2>3 DEF Unrolls
  <2> QED  BY <2>4
<1>3. Nat \subseteq S
  <2> HIDE DEF S
  <2> QED  BY <1>1, <1>2, InductionOnNat
<1> QED  BY <1>3

\* A function that follows a step from a start.
Follows(f, base, step) ==
  f[0] = base /\ \A i \in Nat : f[i + 1] = step[<<f[i], i + 1>>]

\* Every step has a function that follows it, from any start.
THEOREM RecursionOnNat ==
  ASSUME NEW base, NEW step
  PROVE  \E f : Follows(f, base, step)
<1> DEFINE G(n) == CHOOSE g : Unrolls(g, base, step, n)
           f == [n \in Nat |-> G(n)[n]]
<1>1. \A n \in Nat : Unrolls(G(n), base, step, n)
  BY Unrollable
<1> HIDE DEF G
<1>2. f[0] = base
  BY <1>1 DEF Unrolls
<1>3. ASSUME NEW i \in Nat PROVE f[i + 1] = step[<<f[i], i + 1>>]
  <2>1. i + 1 \in 1 .. i + 1 /\ (i + 1) - 1 = i /\ i + 1 \in Nat
    OBVIOUS
  <2>2. G(i + 1)[i + 1] = step[<<G(i + 1)[(i + 1) - 1], i + 1>>]
    BY <1>1, <2>1 DEF Unrolls
  <2>3. G(i + 1)[i] = G(i)[i]
    <3>1. Unrolls(G(i + 1), base, step, i + 1) /\ Unrolls(G(i), base, step, i)
      BY <1>1, <2>1
    <3>2. i <= i + 1 /\ i <= i
      OBVIOUS
    <3> QED  BY <3>1, <3>2, <2>1, SameValues
  <2> QED  BY <2>1, <2>2, <2>3
<1> HIDE DEF f
<1>4. Follows(f, base, step)
  BY <1>2, <1>3 DEF Follows
<1> QED  BY <1>4

-----------------------------------------------------------------------------
(* Recursion over the subsets of a finite set, one element at a time. *)

\* A choice of an element from every subset.
Picks(pick, S) == \A s \in SUBSET S : s # {} => pick[s] \in s

\* What holds for the empty set, and for a set if it does without the element
\* picked from it, holds for every subset.
THEOREM InductionOnSubsets ==
  ASSUME NEW S, IsFiniteSet(S), NEW pick, Picks(pick, S),
         NEW U, {} \in U,
         \A s \in SUBSET S : s # {} /\ s \ {pick[s]} \in U => s \in U
  PROVE  SUBSET S \subseteq U
<1> DEFINE V == {n \in Nat : \A s \in SUBSET S : Cardinality(s) = n => s \in U}
<1>1. 0 \in V
  <2> SUFFICES ASSUME NEW s \in SUBSET S, Cardinality(s) = 0 PROVE s \in U
    OBVIOUS
  <2>1. IsFiniteSet(s)
    BY FS_Subset
  <2> QED  BY <2>1, FS_EmptySet
<1>2. ASSUME NEW n \in Nat, n \in V PROVE n + 1 \in V
  <2> SUFFICES ASSUME NEW s \in SUBSET S, Cardinality(s) = n + 1 PROVE s \in U
    OBVIOUS
  <2>1. IsFiniteSet(s)
    BY FS_Subset
  <2>2. s # {}
    BY FS_EmptySet
  <2>3. pick[s] \in s /\ s \ {pick[s]} \in SUBSET S
    BY <2>2 DEF Picks
  <2>4. Cardinality(s \ {pick[s]}) = n
    <3>1. Cardinality(s \ {pick[s]}) = Cardinality(s) - 1
      BY <2>1, <2>3, FS_RemoveElement
    <3> QED  BY <3>1
  <2>5. s \ {pick[s]} \in U
    BY <1>2, <2>3, <2>4
  <2> QED  BY <2>2, <2>5
<1> HIDE DEF V
<1>3. Nat \subseteq V
  BY <1>1, <1>2, InductionOnNat
<1> SUFFICES ASSUME NEW s \in SUBSET S PROVE s \in U
  OBVIOUS
<1>4. Cardinality(s) \in Nat
  BY FS_Subset, FS_CardinalityType
<1> QED  BY <1>3, <1>4 DEF V

\* What a fold that takes the elements in this order comes to, for every subset.
Gathers(g, S, base, step, pick) ==
  /\ g[{}] = base
  /\ \A s \in SUBSET S : s # {} => g[s] = step[<<pick[s], g[s \ {pick[s]}]>>]

\* Every such fold has a value.
THEOREM RecursionOnSubsets ==
  ASSUME NEW S, IsFiniteSet(S), NEW T, NEW base \in T, NEW step, NEW pick,
         \A x \in S, t \in T : step[<<x, t>>] \in T, Picks(pick, S)
  PROVE  \E g \in [SUBSET S -> T] : Gathers(g, S, base, step, pick)
<1> DEFINE Fn == [SUBSET S -> T]
           Once(h) == [s \in SUBSET S |-> IF s = {} THEN base
                                          ELSE step[<<pick[s], h[s \ {pick[s]}]>>]]
           once == [p \in Fn \X Nat |-> Once(p[1])]
           start == [s \in SUBSET S |-> base]
           N == Cardinality(S)
<1>1. PICK F : F[0] = start /\ \A i \in Nat : F[i + 1] = once[<<F[i], i + 1>>]
  <2> HIDE DEF once, start
  <2>1. \E f : Follows(f, start, once)
    BY RecursionOnNat
  <2> QED  BY <2>1 DEF Follows
<1>2. ASSUME NEW h \in Fn PROVE Once(h) \in Fn
  BY DEF Picks
<1>3. \A n \in Nat : F[n] \in Fn
  <2> DEFINE U == {n \in Nat : F[n] \in Fn}
  <2>1. 0 \in U
    BY <1>1
  <2>2. ASSUME NEW n \in Nat, n \in U PROVE n + 1 \in U
    <3> HIDE DEF Once, Fn
    <3>1. F[n + 1] = once[<<F[n], n + 1>>] /\ F[n] \in Fn /\ n + 1 \in Nat
      <4> HIDE DEF once
      <4> QED  BY <1>1, <2>2
    <3>2. F[n + 1] = Once(F[n])
      BY <3>1
    <3> QED  BY <3>1, <3>2, <1>2
  <2> HIDE DEF U
  <2>3. Nat \subseteq U
    BY <2>1, <2>2, InductionOnNat
  <2> QED  BY <2>3 DEF U
<1>4. ASSUME NEW n \in Nat PROVE F[n + 1] = Once(F[n])
  <2> HIDE DEF Once, Fn
  <2>1. F[n + 1] = once[<<F[n], n + 1>>] /\ F[n] \in Fn /\ n + 1 \in Nat
    <3> HIDE DEF once
    <3> QED  BY <1>1, <1>3
  <2> QED  BY <2>1
<1>5. ASSUME NEW n \in Nat, NEW s \in SUBSET S
      PROVE  F[n + 1][s] = IF s = {} THEN base ELSE step[<<pick[s], F[n][s \ {pick[s]}]>>]
  <2>1. F[n + 1] = Once(F[n])
    BY <1>4
  <2>2. \A h : Once(h)[s] = IF s = {} THEN base ELSE step[<<pick[s], h[s \ {pick[s]}]>>]
    OBVIOUS
  <2> HIDE DEF Once
  <2>3. F[n + 1][s] = Once(F[n])[s]
    BY <2>1
  <2> QED  BY <2>2, <2>3
<1> HIDE DEF once, Once
<1>6. ASSUME NEW s \in SUBSET S
      PROVE  Cardinality(s) \in Nat /\ Cardinality(s) <= N /\ (Cardinality(s) = 0 => s = {})
  <2>1. IsFiniteSet(s) /\ Cardinality(s) <= N
    BY FS_Subset
  <2> QED  BY <2>1, FS_CardinalityType, FS_EmptySet
<1>11. ASSUME NEW s \in SUBSET S, s # {}
       PROVE  s \ {pick[s]} \in SUBSET S /\ Cardinality(s \ {pick[s]}) = Cardinality(s) - 1
  <2>1. IsFiniteSet(s) /\ pick[s] \in s
    BY <1>11, FS_Subset DEF Picks
  <2> QED  BY <2>1, FS_RemoveElement
<1>7. \A n \in Nat : \A s \in SUBSET S : Cardinality(s) <= n => F[n + 1][s] = F[n][s]
  <2> DEFINE U == {n \in Nat : \A s \in SUBSET S : Cardinality(s) <= n => F[n + 1][s] = F[n][s]}
  <2>1. 0 \in U
    <3> SUFFICES ASSUME NEW s \in SUBSET S, Cardinality(s) <= 0
                 PROVE  F[0 + 1][s] = F[0][s]
      OBVIOUS
    <3>1. Cardinality(s) \in Nat /\ (Cardinality(s) = 0 => s = {})
      BY <1>6
    <3>2. s = {}
      BY <3>1
    <3>3. F[0 + 1][s] = base
      BY <3>2, <1>5
    <3>4. F[0][s] = base
      BY <1>1
    <3> QED  BY <3>3, <3>4
  <2>2. ASSUME NEW n \in Nat, n \in U PROVE n + 1 \in U
    <3> SUFFICES ASSUME NEW s \in SUBSET S, Cardinality(s) <= n + 1
                 PROVE  F[n + 1 + 1][s] = F[n + 1][s]
      OBVIOUS
    <3>0. n + 1 \in Nat
      OBVIOUS
    <3>1. CASE s = {}
      <4>1. F[n + 1][s] = base
        BY <3>1, <1>5
      <4>2. F[n + 1 + 1][s] = base
        BY <3>0, <3>1, <1>5
      <4> QED  BY <4>1, <4>2
    <3>2. CASE s # {}
      <4>1. s \ {pick[s]} \in SUBSET S /\ Cardinality(s \ {pick[s]}) <= n
        <5>1. /\ s \ {pick[s]} \in SUBSET S /\ Cardinality(s \ {pick[s]}) = Cardinality(s) - 1
              /\ Cardinality(s) \in Nat
          BY <3>2, <1>6, <1>11
        <5> QED  BY <5>1
      <4>2. F[n + 1][s \ {pick[s]}] = F[n][s \ {pick[s]}]
        BY <4>1, <2>2
      <4>3. F[n + 1][s] = step[<<pick[s], F[n][s \ {pick[s]}]>>]
        BY <3>2, <1>5
      <4>4. F[n + 1 + 1][s] = step[<<pick[s], F[n + 1][s \ {pick[s]}]>>]
        BY <3>0, <3>2, <1>5
      <4> QED  BY <4>2, <4>3, <4>4
    <3> QED  BY <3>1, <3>2
  <2> HIDE DEF U
  <2>3. Nat \subseteq U
    BY <2>1, <2>2, InductionOnNat
  <2> QED  BY <2>3 DEF U
<1>8. N \in Nat
  BY FS_CardinalityType
<1> HIDE DEF N
<1>9. F[N][{}] = base
  <2>1. {} \in SUBSET S /\ Cardinality({}) <= N
    BY <1>6
  <2>2. F[N + 1][{}] = base
    BY <2>1, <1>5, <1>8
  <2> QED  BY <2>1, <2>2, <1>7, <1>8
<1>10. ASSUME NEW s \in SUBSET S, s # {}
       PROVE  F[N][s] = step[<<pick[s], F[N][s \ {pick[s]}]>>]
  <2>1. Cardinality(s) <= N
    BY <1>6
  <2>2. F[N + 1][s] = F[N][s]
    BY <2>1, <1>7, <1>8
  <2> QED  BY <2>2, <1>5, <1>8, <1>10
<1> QED  BY <1>3, <1>8, <1>9, <1>10 DEF Gathers

=============================================================================
