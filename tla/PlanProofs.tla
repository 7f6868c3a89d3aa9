----------------------------- MODULE PlanProofs -----------------------------
(***************************************************************************)
(* The plan of any collection: every chosen resource has one collection    *)
(* under a name of its own, an alias resolves exactly when one collection  *)
(* carries it, custom resources need consent, and what is saved can be     *)
(* resumed, whatever the cluster serves and the user asks for.             *)
(***************************************************************************)
EXTENDS Plan, Recursion, SequenceTheorems, FunctionTheorems, TLAPS

\* There are n numbers from 1 to n.
LEMMA IntervalSize ==
  ASSUME NEW n \in Nat
  PROVE  IsFiniteSet(1 .. n) /\ Cardinality(1 .. n) = n
<1> DEFINE low == 1
<1>1. low \in Int /\ n \in Int
  OBVIOUS
<1>2. IsFiniteSet(low .. n) /\ Cardinality(low .. n) = n
  <2>1. ~(low > n) => n - low + 1 = n
    OBVIOUS
  <2>2. low > n => n = 0
    OBVIOUS
  <2> HIDE DEF low
  <2>3. IsFiniteSet(low .. n) /\ Cardinality(low .. n) = IF low > n THEN 0 ELSE n - low + 1
    BY <1>1, FS_Interval
  <2> QED  BY <2>1, <2>2, <2>3
<1> QED  BY <1>2

LEMMA OwnRange ==
  ASSUME NEW S, NEW s \in Seq(S)
  PROVE  /\ s \in Seq(ToSet(s))
         /\ Len(s) \in Nat /\ DOMAIN s = 1 .. Len(s)
         /\ ToSet(s) = {s[i] : i \in 1 .. Len(s)}
<1>1. ToSet(s) = {s[i] : i \in 1 .. Len(s)} /\ DOMAIN s = 1 .. Len(s) /\ Len(s) \in Nat
  BY DEF ToSet
<1> QED  BY <1>1, SeqDef, LenProperties

LEMMA FunctionSeq ==
  ASSUME NEW S, NEW s \in Seq(S), NEW f, f = [i \in DOMAIN f |-> f[i]], DOMAIN f = DOMAIN s
  PROVE  f \in Seq(ToSet(f)) /\ Len(f) = Len(s)
<1>1. DOMAIN f = 1 .. Len(s) /\ Len(s) \in Nat
  BY LenProperties
<1>2. f \in [1 .. Len(s) -> ToSet(f)]
  BY <1>1 DEF ToSet
<1>3. f \in Seq(ToSet(f))
  BY <1>1, <1>2, SeqDef
<1> QED  BY <1>1, <1>3, LenProperties

\* u is s followed by t.
Joins(u, s, t) ==
  /\ u \in Seq(ToSet(u))
  /\ Len(s) \in Nat /\ Len(t) \in Nat /\ Len(u) = Len(s) + Len(t)
  /\ \A i \in 1 .. Len(s) : u[i] = s[i]
  /\ \A i \in 1 .. Len(t) : u[Len(s) + i] = t[i]
  /\ \A i \in 1 .. Len(u) :
       i \notin 1 .. Len(s) => i - Len(s) \in 1 .. Len(t) /\ u[i] = t[i - Len(s)]

LEMMA Concatenated ==
  ASSUME NEW S, NEW T, NEW s \in Seq(S), NEW t \in Seq(T), NEW u, u = s \o t
  PROVE  Joins(u, s, t)
<1> DEFINE U == S \cup T
<1>1. s \in Seq(U) /\ t \in Seq(U) /\ Len(s) \in Nat /\ Len(t) \in Nat
  OBVIOUS
<1>2. /\ u \in Seq(U) /\ Len(u) = Len(s) + Len(t)
      /\ \A i \in 1 .. Len(s) + Len(t) : u[i] = IF i <= Len(s) THEN s[i] ELSE t[i - Len(s)]
  <2> HIDE DEF U
  <2> QED  BY <1>1, ConcatProperties
<1>3. u \in Seq(ToSet(u))
  BY <1>2, OwnRange
<1>4. \A i \in 1 .. Len(s) : u[i] = s[i]
  BY <1>1, <1>2
<1>5. ASSUME NEW i \in 1 .. Len(t) PROVE u[Len(s) + i] = t[i]
  <2>1. Len(s) + i \in 1 .. Len(s) + Len(t) /\ ~(Len(s) + i <= Len(s)) /\ (Len(s) + i) - Len(s) = i
    BY <1>1
  <2> QED  BY <1>2, <2>1
<1>6. ASSUME NEW i \in 1 .. (Len(s) + Len(t)), i \notin 1 .. Len(s)
      PROVE  i - Len(s) \in 1 .. Len(t) /\ u[i] = t[i - Len(s)]
  BY <1>1, <1>2, <1>6
<1> QED  BY <1>1, <1>2, <1>3, <1>4, <1>5, <1>6 DEF Joins

-----------------------------------------------------------------------------
(* Some positions of a sequence. *)

\* The numbers of a finite set, counted from the smallest.
LEMMA Counted ==
  ASSUME NEW P \in SUBSET Nat, IsFiniteSet(P),
         NEW place, place = Place(P)
  PROVE  /\ \A i \in P : place[i] \in 1 .. Cardinality(P)
         /\ \A i, j \in P : i < j => place[i] < place[j]
         /\ \A n \in 1 .. Cardinality(P) : \E i \in P : place[i] = n
<1> DEFINE upTo(i) == {k \in P : k <= i}
           c == Cardinality(P)
           img == {place[i] : i \in P}
<1>1. c \in Nat
  BY FS_CardinalityType
<1>2. ASSUME NEW i \in P
      PROVE  /\ IsFiniteSet(upTo(i)) /\ upTo(i) \in SUBSET P /\ place[i] = Cardinality(upTo(i))
             /\ place[i] \in 1 .. c
  <2>1. IsFiniteSet(upTo(i)) /\ Cardinality(upTo(i)) <= c
    BY FS_Subset
  <2>2. i \in upTo(i)
    OBVIOUS
  <2>3. Cardinality(upTo(i)) \in Nat /\ Cardinality(upTo(i)) # 0
    <3> HIDE DEF upTo
    <3> QED  BY <2>1, <2>2, FS_CardinalityType, FS_EmptySet
  <2>4. place[i] = Cardinality(upTo(i))
    BY DEF Place
  <2> HIDE DEF upTo, c
  <2>5. Cardinality(upTo(i)) \in 1 .. c
    BY <1>1, <2>1, <2>3
  <2> QED  BY <2>1, <2>4, <2>5 DEF upTo
<1>3. ASSUME NEW i \in P, NEW j \in P, i < j PROVE place[i] < place[j]
  <2>1. /\ upTo(i) \in SUBSET upTo(j) /\ j \in upTo(j) /\ j \notin upTo(i)
    <3>1. i \in Nat /\ j \in Nat /\ i < j
      BY <1>3
    <3>2. \A k \in P : k <= i => k <= j
      BY <3>1
    <3>3. j <= j /\ ~(j <= i)
      BY <3>1
    <3> QED  BY <3>2, <3>3
  <2>2. /\ place[i] = Cardinality(upTo(i)) /\ place[j] = Cardinality(upTo(j))
        /\ IsFiniteSet(upTo(j)) /\ place[i] \in 1 .. c /\ place[j] \in 1 .. c
    BY <1>2
  <2> HIDE DEF upTo, c
  <2>3. place[i] <= place[j] /\ place[i] # place[j]
    BY <2>1, <2>2, FS_Subset
  <2> QED  BY <1>1, <2>2, <2>3
<1>4. \A i, j \in P : place[i] = place[j] => i = j
  <2> SUFFICES ASSUME NEW i \in P, NEW j \in P, i # j PROVE place[i] # place[j]
    OBVIOUS
  <2>1. i < j \/ j < i
    OBVIOUS
  <2>2. place[i] \in 1 .. c /\ place[j] \in 1 .. c
    BY <1>2
  <2> HIDE DEF c
  <2>3. place[i] \in Nat /\ place[j] \in Nat
    BY <1>1, <2>2
  <2> QED  BY <1>3, <2>1, <2>3
<1>5. img \in SUBSET (1 .. c)
  BY <1>2
<1>6. IsFiniteSet(1 .. c) /\ Cardinality(1 .. c) = c
  BY <1>1, IntervalSize
<1>7. IsFiniteSet(img) /\ Cardinality(img) = c
  <2>1. place \in [P -> img] /\ \A y \in img : \E i \in P : place[i] = y
    BY DEF Place
  <2>2. place \in Bijection(P, img)
    <3> HIDE DEF img
    <3> QED  BY <1>4, <2>1, Fun_IsBij
  <2> HIDE DEF img
  <2>3. ExistsBijection(P, img)
    BY <2>2 DEF ExistsBijection
  <2> QED  BY <2>3, FS_Bijection
<1>8. img = 1 .. c
  <2> HIDE DEF img, c
  <2> QED  BY <1>5, <1>6, <1>7, FS_Subset
<1> QED  BY <1>2, <1>3, <1>8

\* t is s without some of its elements.
Thins(t, s, h) ==
  /\ t \in Seq(ToSet(t)) /\ Len(t) \in Nat /\ DOMAIN t = 1 .. Len(t)
  /\ h \in [1 .. Len(t) -> DOMAIN s]
  /\ \A i \in 1 .. Len(t) : t[i] = s[h[i]]
  /\ \A i, j \in 1 .. Len(t) : h[i] = h[j] => i = j

LEMMA AtPositions ==
  ASSUME NEW S, NEW s \in Seq(S), NEW P \in SUBSET DOMAIN s
  PROVE  \E h : /\ Thins(At(s, P), s, h)
                /\ {h[i] : i \in 1 .. Len(At(s, P))} = P
<1> DEFINE place == Place(P)
           c == Cardinality(P)
           h == [n \in 1 .. c |-> CHOOSE i \in P : place[i] = n]
           t == At(s, P)
<1>1. DOMAIN s = 1 .. Len(s) /\ Len(s) \in Nat /\ \A i \in DOMAIN s : s[i] \in S
  BY LenProperties
<1>2. P \in SUBSET Nat /\ IsFiniteSet(P)
  <2>1. IsFiniteSet(1 .. Len(s)) /\ P \in SUBSET (1 .. Len(s))
    BY <1>1, IntervalSize
  <2>2. IsFiniteSet(P)
    BY <2>1, FS_Subset
  <2> QED  BY <2>1, <2>2
<1>3. c \in Nat
  BY <1>2, FS_CardinalityType
<1>4. /\ \A i \in P : place[i] \in 1 .. c
      /\ \A i, j \in P : i < j => place[i] < place[j]
      /\ \A n \in 1 .. c : \E i \in P : place[i] = n
  BY <1>2, Counted
<1>5. t = [n \in 1 .. c |-> s[h[n]]]
  BY DEF At
<1>6. \A n \in 1 .. c : h[n] \in P /\ place[h[n]] = n
  BY <1>4
<1> HIDE DEF h, c, place
<1>7. \A n \in 1 .. c : t[n] = s[h[n]] /\ t[n] \in S
  BY <1>1, <1>5, <1>6
<1>8. t \in [1 .. c -> S] /\ DOMAIN t = 1 .. c
  BY <1>5, <1>7
<1>9. t \in Seq(S) /\ Len(t) = c
  <2>1. t \in Seq(S)
    BY <1>3, <1>8, SeqDef
  <2> QED  BY <1>3, <1>8, <2>1, LenProperties
<1>10. t \in Seq(ToSet(t))
  <2>1. t \in [1 .. c -> ToSet(t)]
    BY <1>8 DEF ToSet
  <2> QED  BY <1>3, <2>1, SeqDef
<1>11. h \in [1 .. c -> DOMAIN s] /\ \A i, j \in 1 .. c : h[i] = h[j] => i = j
  BY <1>6 DEF h
<1>12. {h[i] : i \in 1 .. c} = P
  <2>1. ASSUME NEW i \in P PROVE \E n \in 1 .. c : h[n] = i
    <3>1. place[i] \in 1 .. c /\ h[place[i]] \in P /\ place[h[place[i]]] = place[i]
      BY <1>4, <1>6
    <3>2. \A k \in P : place[k] = place[i] => k = i
      <4> SUFFICES ASSUME NEW k \in P, k # i PROVE place[k] # place[i]
        OBVIOUS
      <4>1. k < i \/ i < k
        BY <1>2
      <4>2. place[i] \in Nat /\ place[k] \in Nat
        BY <1>3, <1>4
      <4> QED  BY <1>4, <4>1, <4>2
    <3> QED  BY <3>1, <3>2
  <2> QED  BY <1>6, <2>1
<1> HIDE DEF t
<1>13. Thins(t, s, h) /\ {h[i] : i \in 1 .. Len(t)} = P
  BY <1>3, <1>7, <1>8, <1>9, <1>10, <1>11, <1>12 DEF Thins
<1> QED  BY <1>13 DEF t

\* The elements of a sequence that are in a set.
LEMMA ThoseOf ==
  ASSUME NEW S, NEW s \in Seq(S), NEW K
  PROVE  /\ \E h : Thins(Those(s, K), s, h)
         /\ ToSet(Those(s, K)) = ToSet(s) \cap K
<1> DEFINE P == {i \in DOMAIN s : s[i] \in K}
           t == Those(s, K)
<1>1. P \in SUBSET DOMAIN s /\ t = At(s, P)
  BY DEF Those
<1> HIDE DEF P
<1>2. PICK h : Thins(t, s, h) /\ {h[i] : i \in 1 .. Len(t)} = P
  BY <1>1, AtPositions
<1> HIDE DEF t
<1>3. /\ DOMAIN t = 1 .. Len(t) /\ \A i \in 1 .. Len(t) : t[i] = s[h[i]] /\ h[i] \in P
  BY <1>2 DEF Thins
<1>4. ASSUME NEW x \in ToSet(t) PROVE x \in ToSet(s) \cap K
  <2>1. PICK i \in 1 .. Len(t) : x = t[i]
    BY <1>3 DEF ToSet
  <2>2. x = s[h[i]] /\ h[i] \in P
    BY <1>3, <2>1
  <2> QED  BY <2>2 DEF P, ToSet
<1>5. ASSUME NEW x \in ToSet(s) \cap K PROVE x \in ToSet(t)
  <2>1. PICK k \in P : s[k] = x
    BY DEF P, ToSet
  <2>2. PICK i \in 1 .. Len(t) : h[i] = k
    BY <1>2
  <2>3. t[i] = x
    BY <1>3, <2>1, <2>2
  <2> QED  BY <1>3, <2>3 DEF ToSet
<1>6. ToSet(t) = ToSet(s) \cap K
  BY <1>4, <1>5
<1> QED  BY <1>2, <1>6 DEF t

\* The first element with each key.
Firsts(t, s, key, h) ==
  /\ Thins(t, s, h)
  /\ (\A i, k \in DOMAIN s : key[s[i]] = key[s[k]] => i = k) =>
       {h[i] : i \in DOMAIN t} = DOMAIN s
  /\ \A i, k \in DOMAIN t : key[t[i]] = key[t[k]] => i = k
  /\ \A i \in DOMAIN s : \E k \in DOMAIN t : key[t[k]] = key[s[i]]

LEMMA FirstOfEachKey ==
  ASSUME NEW S, NEW s \in Seq(S), NEW key, NEW t, t = DistinctBy(key, s)
  PROVE  \E h : Firsts(t, s, key, h)
<1> DEFINE P == {i \in DOMAIN s : \A k \in 1 .. i - 1 : key[s[k]] # key[s[i]]}
<1>1. P \in SUBSET DOMAIN s /\ t = At(s, P)
  BY DEF DistinctBy
<1>2. DOMAIN s = 1 .. Len(s) /\ Len(s) \in Nat
  BY LenProperties
<1>3. \A i \in P : i \in DOMAIN s /\ \A k \in 1 .. i - 1 : key[s[k]] # key[s[i]]
  OBVIOUS
<1>4. ASSUME NEW i \in DOMAIN s PROVE \E k \in P : key[s[k]] = key[s[i]]
  <2> DEFINE T == {k \in DOMAIN s : key[s[k]] = key[s[i]]}
  <2>1. T \in SUBSET Nat /\ T # {}
    BY <1>2
  <2> HIDE DEF T
  <2>2. PICK x \in T : \A y \in T : x <= y
    BY <2>1, SmallestOf
  <2>3. x \in DOMAIN s /\ key[s[x]] = key[s[i]]
    BY <2>2 DEF T
  <2>4. ASSUME NEW k \in 1 .. x - 1 PROVE key[s[k]] # key[s[x]]
    <3>1. k \in DOMAIN s /\ ~(x <= k)
      BY <1>2, <2>3
    <3>2. k \notin T
      BY <2>2, <3>1
    <3> QED  BY <2>3, <3>1, <3>2 DEF T
  <2> QED  BY <2>3, <2>4
<1>5. (\A i, k \in DOMAIN s : key[s[i]] = key[s[k]] => i = k) => P = DOMAIN s
  <2> SUFFICES ASSUME \A i, k \in DOMAIN s : key[s[i]] = key[s[k]] => i = k,
                      NEW i \in DOMAIN s, NEW k \in 1 .. i - 1
               PROVE  key[s[k]] # key[s[i]]
    OBVIOUS
  <2>1. k \in DOMAIN s /\ k # i
    BY <1>2
  <2> QED  BY <2>1
<1> HIDE DEF P
<1>6. PICK h : Thins(t, s, h) /\ {h[i] : i \in 1 .. Len(t)} = P
  BY <1>1, AtPositions
<1>7. /\ DOMAIN t = 1 .. Len(t)
      /\ \A i \in DOMAIN t : t[i] = s[h[i]] /\ h[i] \in P
      /\ \A i, k \in DOMAIN t : h[i] = h[k] => i = k
  BY <1>6 DEF Thins
<1>8. ASSUME NEW i \in DOMAIN t, NEW k \in DOMAIN t, key[t[i]] = key[t[k]] PROVE i = k
  <2>1. /\ t[i] = s[h[i]] /\ t[k] = s[h[k]] /\ h[i] \in P /\ h[k] \in P
    BY <1>7
  <2>2. h[i] \in 1 .. Len(s) /\ h[k] \in 1 .. Len(s)
    BY <1>1, <1>2, <2>1
  <2>3. h[i] = h[k]
    <3>1. ~(h[i] < h[k])
      <4> SUFFICES ASSUME h[i] < h[k] PROVE FALSE
        OBVIOUS
      <4>1. h[i] \in 1 .. h[k] - 1
        BY <1>2, <2>2
      <4> QED  BY <1>3, <1>8, <2>1, <4>1
    <3>2. ~(h[k] < h[i])
      <4> SUFFICES ASSUME h[k] < h[i] PROVE FALSE
        OBVIOUS
      <4>1. h[k] \in 1 .. h[i] - 1
        BY <1>2, <2>2
      <4> QED  BY <1>3, <1>8, <2>1, <4>1
    <3> QED  BY <1>2, <2>2, <3>1, <3>2
  <2> QED  BY <1>7, <2>3
<1>9. ASSUME NEW i \in DOMAIN s PROVE \E k \in DOMAIN t : key[t[k]] = key[s[i]]
  <2>1. PICK x \in P : key[s[x]] = key[s[i]]
    BY <1>4
  <2>2. PICK k \in 1 .. Len(t) : h[k] = x
    BY <1>6
  <2> QED  BY <1>7, <2>1, <2>2
<1>10. (\A i, k \in DOMAIN s : key[s[i]] = key[s[k]] => i = k) => {h[i] : i \in DOMAIN t} = DOMAIN s
  BY <1>5, <1>6, <1>7
<1>11. Firsts(t, s, key, h)
  BY <1>6, <1>8, <1>9, <1>10 DEF Firsts
<1> QED  BY <1>11

LEMMA DistinctOf ==
  ASSUME NEW S, NEW s \in Seq(S), NEW t, t = Distinct(s)
  PROVE  /\ t \in Seq(ToSet(t)) /\ Len(t) \in Nat /\ DOMAIN t = 1 .. Len(t)
         /\ ToSet(t) = ToSet(s)
         /\ \A i, k \in DOMAIN t : t[i] = t[k] => i = k
<1> DEFINE key == [x \in ToSet(s) |-> x]
<1>1. t = DistinctBy(key, s)
  BY DEF Distinct
<1>2. \A x \in ToSet(s) : key[x] = x
  OBVIOUS
<1> HIDE DEF key
<1>3. PICK h : Firsts(t, s, key, h)
  BY <1>1, FirstOfEachKey
<1>4. /\ Thins(t, s, h)
      /\ \A i, k \in DOMAIN t : key[t[i]] = key[t[k]] => i = k
      /\ \A i \in DOMAIN s : \E k \in DOMAIN t : key[t[k]] = key[s[i]]
  BY <1>3 DEF Firsts
<1>5. /\ t \in Seq(ToSet(t)) /\ Len(t) \in Nat /\ DOMAIN t = 1 .. Len(t)
      /\ \A i \in DOMAIN t : t[i] = s[h[i]] /\ h[i] \in DOMAIN s
  BY <1>4 DEF Thins
<1>6. /\ \A i \in DOMAIN s : s[i] \in ToSet(s) /\ key[s[i]] = s[i]
      /\ \A i \in DOMAIN t : t[i] \in ToSet(s) /\ key[t[i]] = t[i]
  BY <1>2, <1>5 DEF ToSet
<1>7. ASSUME NEW x \in ToSet(s) PROVE x \in ToSet(t)
  <2>1. PICK i \in DOMAIN s : x = s[i]
    BY DEF ToSet
  <2>2. PICK k \in DOMAIN t : key[t[k]] = key[s[i]]
    BY <1>4
  <2>3. t[k] = x
    BY <1>6, <2>1, <2>2
  <2> QED  BY <2>3 DEF ToSet
<1>8. ToSet(t) \subseteq ToSet(s)
  BY <1>6 DEF ToSet
<1> QED  BY <1>4, <1>5, <1>6, <1>7, <1>8

-----------------------------------------------------------------------------
(* A fold from the left. *)

Highest(n) == [s \in SUBSET (1 .. n) |-> Max(s)]

LEMMA HighestPicks ==
  ASSUME NEW n \in Nat
  PROVE  /\ Picks(Highest(n), 1 .. n)
         /\ \A k \in 1 .. n : Highest(n)[1 .. k] = k /\ (1 .. k) \ {k} = 1 .. k - 1
<1>1. ASSUME NEW s \in SUBSET (1 .. n), s # {} PROVE Max(s) \in s /\ \A y \in s : y <= Max(s)
  <2>1. s \in SUBSET Nat /\ \A x \in s : x <= n
    OBVIOUS
  <2>2. PICK x \in s : \A y \in s : y <= x
    BY <1>1, <2>1, LargestOf
  <2>3. \A y \in s : x >= y
    BY <2>1, <2>2
  <2>4. Max(s) \in s /\ \A y \in s : Max(s) >= y
    BY <2>3 DEF Max
  <2> QED  BY <2>1, <2>4
<1>2. Picks(Highest(n), 1 .. n)
  BY <1>1 DEF Picks, Highest
<1>3. ASSUME NEW k \in 1 .. n PROVE Highest(n)[1 .. k] = k /\ (1 .. k) \ {k} = 1 .. k - 1
  <2> DEFINE s == 1 .. k
  <2>1. s \in SUBSET (1 .. n) /\ s # {} /\ k \in s /\ \A y \in s : y <= k /\ y \in Nat
    OBVIOUS
  <2>2. Highest(n)[s] = Max(s)
    BY <2>1 DEF Highest
  <2> HIDE DEF s
  <2>3. Max(s) \in s /\ k <= Max(s)
    BY <1>1, <2>1
  <2>4. Max(s) = k
    <3>1. Max(s) \in Nat /\ Max(s) <= k /\ k \in Nat
      BY <2>1, <2>3
    <3> QED  BY <2>3, <3>1
  <2>5. (1 .. k) \ {k} = 1 .. k - 1
    OBVIOUS
  <2> QED  BY <2>2, <2>4, <2>5 DEF s
<1> QED  BY <1>2, <1>3

\* h follows the step wherever the value before it is one of T.
Tries(h, n, T, base, step) ==
  /\ h[{}] = base
  /\ \A s \in SUBSET (1 .. n) :
       s # {} /\ h[s \ {Max(s)}] \in T => h[s] = step[<<Max(s), h[s \ {Max(s)}]>>]

\* g is the fold over n elements, from the first to the last.
Orders(g, n, T, base, step) ==
  /\ g \in [SUBSET (1 .. n) -> T]
  /\ g[{}] = base
  /\ \A s \in SUBSET (1 .. n) :
       s # {} => Max(s) \in s /\ g[s] = step[<<Max(s), g[s \ {Max(s)}]>>]
  /\ \A h : Tries(h, n, T, base, step) => h[1 .. n] = g[1 .. n]
  /\ g[1 .. 0] = base
  /\ \A k \in 1 .. n : g[1 .. k] = step[<<k, g[1 .. k - 1]>>]

\* A fold over n elements has one value, and goes through them from the first.
LEMMA InOrder ==
  ASSUME NEW n \in Nat, NEW T, NEW base \in T, NEW step,
         \A k \in 1 .. n, t \in T : step[<<k, t>>] \in T
  PROVE  \E g : Orders(g, n, T, base, step)
<1> DEFINE S == 1 .. n
           pick == Highest(n)
<1>1. IsFiniteSet(S) /\ Picks(pick, S)
  BY IntervalSize, HighestPicks
<1>2. \A k \in S, t \in T : step[<<k, t>>] \in T
  OBVIOUS
<1>3. /\ \A k \in S : pick[1 .. k] = k /\ (1 .. k) \ {k} = 1 .. k - 1
  BY HighestPicks
<1>4. \A k \in S : 1 .. k \in SUBSET S /\ 1 .. k # {}
  OBVIOUS
<1>5. 1 .. 0 = {}
  OBVIOUS
<1>6. \A s \in SUBSET S : pick[s] = Max(s)
  BY DEF Highest
<1> HIDE DEF S, pick
<1>7. PICK g \in [SUBSET S -> T] : Gathers(g, S, base, step, pick)
  BY <1>1, <1>2, RecursionOnSubsets
<1>8. /\ g[{}] = base
       /\ \A s \in SUBSET S : s # {} => Max(s) \in s /\ g[s] = step[<<Max(s), g[s \ {Max(s)}]>>]
  BY <1>1, <1>7, <1>6 DEF Gathers, Picks
<1>9. ASSUME NEW h, h[{}] = base,
             \A s \in SUBSET S :
               s # {} /\ h[s \ {Max(s)}] \in T => h[s] = step[<<Max(s), h[s \ {Max(s)}]>>]
      PROVE  h[S] = g[S]
  <2> DEFINE U == {s \in SUBSET S : h[s] = g[s]}
  <2>1. {} \in U
    BY <1>9, <1>8
  <2>2. ASSUME NEW s \in SUBSET S, s # {} /\ s \ {pick[s]} \in U PROVE s \in U
    <3>1. h[s \ {Max(s)}] = g[s \ {Max(s)}] /\ s \ {Max(s)} \in SUBSET S
      BY <1>6, <2>2
    <3>2. h[s \ {Max(s)}] \in T
      BY <1>7, <3>1
    <3> QED  BY <1>9, <1>8, <2>2, <3>1, <3>2
  <2> HIDE DEF U
  <2>3. SUBSET S \subseteq U
    BY <1>1, <2>1, <2>2, InductionOnSubsets
  <2> QED  BY <2>3 DEF U
<1>10. g[1 .. 0] = base
  BY <1>5, <1>7 DEF Gathers
<1>11. ASSUME NEW k \in S PROVE g[1 .. k] = step[<<k, g[1 .. k - 1]>>]
  <2> DEFINE s == 1 .. k
             r == 1 .. k - 1
  <2>1. s \in SUBSET S /\ s # {} /\ pick[s] = k /\ s \ {k} = r
    BY <1>3, <1>4
  <2> HIDE DEF s, r
  <2>2. g[s] = step[<<k, g[r]>>]
    BY <1>7, <2>1 DEF Gathers
  <2> QED  BY <2>2 DEF s, r
<1> HIDE DEF pick
<1>12. \A h : Tries(h, n, T, base, step) => h[S] = g[S]
  BY <1>9 DEF Tries, S
<1>13. Orders(g, n, T, base, step)
  BY <1>7, <1>10, <1>11, <1>8, <1>12 DEF Orders, S
<1> QED  BY <1>13

-----------------------------------------------------------------------------
(* The aliases. *)

\* What a plan knows of these entries: an alias that one collection carries, and
\* those that several do.
PlanOf(X) ==
  [lookup |-> {e \in X : e.key # <<>> /\ \A f \in X : f.key = e.key => f = e},
   ambiguous |-> {e.key : e \in {d \in X : d.key # <<>> /\ \E f \in X : f.key = d.key /\ f # d}}]

LEMMA SharedAlias ==
  ASSUME NEW X, NEW k
  PROVE  k \in PlanOf(X).ambiguous <=>
           k # <<>> /\ \E d, f \in X : d.key = k /\ f.key = k /\ f # d
<1> DEFINE D == {d \in X : d.key # <<>> /\ \E f \in X : f.key = d.key /\ f # d}
<1>1. PlanOf(X).ambiguous = {e.key : e \in D}
  BY DEF PlanOf
<1>2. \A d : d \in D <=> d \in X /\ d.key # <<>> /\ \E f \in X : f.key = d.key /\ f # d
  OBVIOUS
<1> HIDE DEF D
<1>3. k \in PlanOf(X).ambiguous <=> \E d \in D : d.key = k
  BY <1>1
<1> QED  BY <1>2, <1>3

LEMMA AliasAdded ==
  ASSUME NEW X, NEW a
  PROVE  addAlias(PlanOf(X), a) = PlanOf(X \cup {a})
<1> DEFINE p == PlanOf(X)
           q == PlanOf(X \cup {a})
           L == p.lookup
           A == p.ambiguous
           known == {e \in L : e.key = a.key}
<1>1. /\ p = [lookup |-> L, ambiguous |-> A] /\ q = [lookup |-> q.lookup, ambiguous |-> q.ambiguous]
  BY DEF PlanOf
<1>2. /\ L = {e \in X : e.key # <<>> /\ \A f \in X : f.key = e.key => f = e}
      /\ q.lookup = {e \in X \cup {a} : e.key # <<>> /\ \A f \in X \cup {a} : f.key = e.key => f = e}
  BY DEF PlanOf
<1>3. /\ \A k : k \in A <=> k # <<>> /\ \E d, f \in X : d.key = k /\ f.key = k /\ f # d
      /\ \A k : k \in q.ambiguous <=>
           k # <<>> /\ \E d, f \in X \cup {a} : d.key = k /\ f.key = k /\ f # d
  BY SharedAlias
<1>4. addAlias(p, a) =
        CASE a.key = <<>> \/ a \in known \/ a.key \in A -> p
          [] a.key # <<>> /\ known = {} /\ a.key \notin A -> [p EXCEPT !.lookup = @ \cup {a}]
          [] OTHER -> [lookup |-> L \ known, ambiguous |-> A \cup {a.key}]
  BY DEF addAlias
<1> HIDE DEF p, q, L, A
<1>5. CASE a.key = <<>> \/ a \in known \/ a.key \in A
  <2>1. addAlias(p, a) = p
    BY <1>4, <1>5
  <2>2. a \in known => X \cup {a} = X
    BY <1>2
  <2>3. \A k : k \in q.ambiguous <=> k \in A
    BY <1>3, <1>5, <2>2
  <2>4. q.ambiguous = A
    BY <2>3, SetExtensionality
  <2>5. q.lookup = L
    BY <1>2, <1>3, <1>5
  <2> QED  BY <1>1, <2>1, <2>4, <2>5 DEF p, q
<1>6. CASE ~(a.key = <<>> \/ a \in known \/ a.key \in A) /\ known = {}
  <2>1. addAlias(p, a) = [lookup |-> L \cup {a}, ambiguous |-> A]
    BY <1>1, <1>4, <1>6
  <2>2. \A f \in X : f.key # a.key
    <3> SUFFICES ASSUME NEW f \in X, f.key = a.key PROVE FALSE
      OBVIOUS
    <3>1. f \in L
      BY <1>2, <1>3, <1>6
    <3> QED  BY <1>6, <3>1
  <2>3. \A k : k \in q.ambiguous <=> k \in A
    BY <1>3, <2>2
  <2>4. q.ambiguous = A
    BY <2>3, SetExtensionality
  <2>5. q.lookup = L \cup {a}
    BY <1>2, <1>6, <2>2
  <2> QED  BY <1>1, <2>1, <2>4, <2>5 DEF p, q
<1>7. CASE ~(a.key = <<>> \/ a \in known \/ a.key \in A) /\ known # {}
  <2>1. addAlias(p, a) = [lookup |-> L \ known, ambiguous |-> A \cup {a.key}]
    BY <1>4, <1>7
  <2>2. PICK f \in X : f.key = a.key /\ f # a
    BY <1>2, <1>7
  <2>3. q.ambiguous = A \cup {a.key}
    BY <1>3, <1>7, <2>2
  <2>4. q.lookup = L \ known
    BY <1>2, <1>7, <2>2
  <2> QED  BY <1>1, <2>1, <2>3, <2>4 DEF p, q
<1> QED  BY <1>5, <1>6, <1>7 DEF p, q

\* The aliases of one collection after those that are known.
LEMMA AliasesFolded ==
  ASSUME NEW X, NEW S, NEW s \in Seq(S)
  PROVE  FoldLeft(addAlias, PlanOf(X), s) = PlanOf(X \cup ToSet(s))
<1> DEFINE n == Len(s)
           base == PlanOf(X)
           T == {PlanOf(Y) : Y \in SUBSET (X \cup ToSet(s))}
           step == [p \in (1 .. n) \X T |-> addAlias(p[2], s[p[1]])]
           last == Highest(n)
           Is(h) == h = [r \in SUBSET (1 .. n) |->
                           IF r = {} THEN base ELSE addAlias(h[r \ {Max(r)}], s[Max(r)])]
<1>1. n \in Nat /\ DOMAIN s = 1 .. n
  BY LenProperties
<1>2. \A k \in 1 .. n : s[k] \in ToSet(s)
  BY <1>1 DEF ToSet
<1>3. base \in T
  OBVIOUS
<1>4. ASSUME NEW k \in 1 .. n, NEW t \in T
      PROVE  step[<<k, t>>] = addAlias(t, s[k]) /\ step[<<k, t>>] \in T
  <2>1. step[<<k, t>>] = addAlias(t, s[k])
    OBVIOUS
  <2>2. PICK Y \in SUBSET (X \cup ToSet(s)) : t = PlanOf(Y)
    OBVIOUS
  <2>3. addAlias(t, s[k]) = PlanOf(Y \cup {s[k]})
    BY <2>2, AliasAdded
  <2>4. Y \cup {s[k]} \in SUBSET (X \cup ToSet(s))
    BY <1>2
  <2> QED  BY <2>1, <2>3, <2>4
<1>5. FoldLeft(addAlias, base, s) = (CHOOSE h : Is(h))[1 .. n]
  BY <1>1 DEF FoldLeft, MapThenFoldSet
<1> HIDE DEF base, T, step, n
<1>6. PICK g : Orders(g, n, T, base, step)
  BY <1>1, <1>3, <1>4, InOrder
<1>7. Is(g)
  <2>1. ASSUME NEW r \in SUBSET (1 .. n)
        PROVE  g[r] = IF r = {} THEN base ELSE addAlias(g[r \ {Max(r)}], s[Max(r)])
    <3>1. r # {} => /\ Max(r) \in 1 .. n /\ g[r \ {Max(r)}] \in T
                    /\ g[r] = step[<<Max(r), g[r \ {Max(r)}]>>]
      BY <1>6 DEF Orders
    <3> QED  BY <1>4, <1>6, <3>1 DEF Orders
  <2>2. g = [r \in SUBSET (1 .. n) |-> g[r]]
    BY <1>6 DEF Orders
  <2> QED  BY <2>1, <2>2
<1>8. ASSUME NEW h, Is(h) PROVE h[1 .. n] = g[1 .. n]
  <2>1. ASSUME NEW r \in SUBSET (1 .. n), r # {}, h[r \ {Max(r)}] \in T
        PROVE  h[r] = step[<<Max(r), h[r \ {Max(r)}]>>]
    <3>1. Max(r) \in 1 .. n /\ h[r] = addAlias(h[r \ {Max(r)}], s[Max(r)])
      BY <1>6, <1>8, <2>1 DEF Orders
    <3> QED  BY <1>4, <2>1, <3>1
  <2>2. h[{}] = base
    BY <1>8
  <2>3. Tries(h, n, T, base, step)
    BY <2>1, <2>2 DEF Tries
  <2> QED  BY <1>6, <2>3 DEF Orders
<1>9. FoldLeft(addAlias, base, s) = g[1 .. n]
  <2> HIDE DEF Is
  <2> QED  BY <1>5, <1>7, <1>8
<1> DEFINE U == {k \in Nat : k <= n => g[1 .. k] = PlanOf(X \cup {s[i] : i \in 1 .. k})}
<1>10. 0 \in U
  <2>1. g[1 .. 0] = base /\ {s[i] : i \in 1 .. 0} = {}
    BY <1>6 DEF Orders
  <2>2. X \cup {s[i] : i \in 1 .. 0} = X
    BY <2>1
  <2> QED  BY <2>1, <2>2 DEF base
<1>11. ASSUME NEW k \in Nat, k \in U PROVE k + 1 \in U
  <2> SUFFICES ASSUME k + 1 <= n PROVE g[1 .. k + 1] = PlanOf(X \cup {s[i] : i \in 1 .. k + 1})
    OBVIOUS
  <2> DEFINE j == k + 1
             Y == X \cup {s[i] : i \in 1 .. k}
  <2>1. j \in 1 .. n /\ j - 1 = k /\ 1 .. j = (1 .. k) \cup {j} /\ 1 .. k \in SUBSET (1 .. n)
    BY <1>1
  <2>2. g[1 .. k] = PlanOf(Y) /\ g[1 .. k] \in T
    BY <1>1, <1>6, <1>11, <2>1 DEF Orders
  <2>3. X \cup {s[i] : i \in 1 .. j} = Y \cup {s[j]}
    BY <2>1
  <2> HIDE DEF j, Y
  <2>4. g[1 .. j] = step[<<j, g[1 .. k]>>]
    BY <1>6, <2>1 DEF Orders
  <2>5. g[1 .. j] = PlanOf(Y \cup {s[j]})
    BY <1>4, <2>1, <2>2, <2>4, AliasAdded
  <2> QED  BY <2>3, <2>5 DEF j
<1> HIDE DEF U
<1>12. Nat \subseteq U
  BY <1>10, <1>11, InductionOnNat
<1>13. g[1 .. n] = PlanOf(X \cup ToSet(s))
  <2>1. ToSet(s) = {s[i] : i \in 1 .. n} /\ n <= n
    BY <1>1 DEF ToSet
  <2> QED  BY <1>1, <1>12, <2>1 DEF U
<1> QED  BY <1>9, <1>13 DEF base

\* What a collection's aliases add to a plan.
Entries(c) == {[key |-> normalizeTypeKey(Aliases(c)[i]), name |-> c.name] : i \in DOMAIN Aliases(c)}

LEMMA AliasSequence ==
  ASSUME NEW c, NEW X, c.resource.short \in Seq(X)
  PROVE  Aliases(c) \in Seq(ToSet(Aliases(c))) 
<1> DEFINE a == <<c.name, c.resource.kind>>
           b == c.resource.short
           d == <<APIPath(c.resource)>>
           A == {c.name, c.resource.kind}
           D == {APIPath(c.resource)}
           u == (a \o b) \o d
<1>1. Aliases(c) = u
  BY DEF Aliases
<1>2. a \in Seq(A) /\ d \in Seq(D) /\ b \in Seq(X)
  OBVIOUS
<1> DEFINE U == A \cup D \cup X
<1>3. a \in Seq(U) /\ b \in Seq(U) /\ d \in Seq(U)
  BY <1>2
<1> HIDE DEF a, b, d, A, D, U
<1> DEFINE w == a \o b
<1>4. w \in Seq(U)
  BY <1>3, ConcatProperties
<1>5. u = w \o d
  OBVIOUS
<1> HIDE DEF w, u
<1>6. u \in Seq(U)
  BY <1>3, <1>4, <1>5, ConcatProperties
<1>7. u \in Seq(ToSet(u))
  BY <1>6, OwnRange
<1> QED  BY <1>1, <1>7

LEMMA EntriesAdded ==
  ASSUME NEW Y, NEW c, NEW X, c.resource.short \in Seq(X)
  PROVE  addAliases(PlanOf(Y), c) = PlanOf(Y \cup Entries(c))
<1> DEFINE e == [i \in DOMAIN Aliases(c) |->
                   [key |-> normalizeTypeKey(Aliases(c)[i]), name |-> c.name]]
           q == Aliases(c)
<1>1. q \in Seq(ToSet(q))
  BY AliasSequence
<1>2. addAliases(PlanOf(Y), c) = FoldLeft(addAlias, PlanOf(Y), e)
  BY DEF addAliases
<1>3. ToSet(e) = Entries(c)
  BY DEF ToSet, Entries
<1>4. e = [i \in DOMAIN e |-> e[i]] /\ DOMAIN e = DOMAIN q
  OBVIOUS
<1> HIDE DEF e, q
<1>5. e \in Seq(ToSet(e))
  BY <1>1, <1>4, FunctionSeq
<1>6. FoldLeft(addAlias, PlanOf(Y), e) = PlanOf(Y \cup ToSet(e))
  BY <1>5, AliasesFolded
<1> QED  BY <1>2, <1>3, <1>6

\* The aliases of all collections.
LEMMA PlanFolded ==
  ASSUME NEW S, NEW X, NEW s \in Seq(S), \A c \in S : c.resource.short \in Seq(X)
  PROVE  NewCollectionPlan(s) = PlanOf(UNION {Entries(s[i]) : i \in 1 .. Len(s)})
<1> DEFINE n == Len(s)
           base == PlanOf({})
           Of(k) == UNION {Entries(s[i]) : i \in 1 .. k}
           All == Of(n)
           T == {PlanOf(Y) : Y \in SUBSET All}
           step == [p \in (1 .. n) \X T |-> addAliases(p[2], s[p[1]])]
           Is(h) == h = [r \in SUBSET (1 .. n) |->
                           IF r = {} THEN base ELSE addAliases(h[r \ {Max(r)}], s[Max(r)])]
<1>1. n \in Nat /\ DOMAIN s = 1 .. n
  BY LenProperties
<1>2. \A k \in 1 .. n : s[k] \in S /\ Entries(s[k]) \subseteq All
  BY <1>1
<1>3. base \in T
  OBVIOUS
<1>4. ASSUME NEW k \in 1 .. n, NEW t \in T
      PROVE  step[<<k, t>>] = addAliases(t, s[k]) /\ step[<<k, t>>] \in T
  <2>1. step[<<k, t>>] = addAliases(t, s[k])
    OBVIOUS
  <2>2. PICK Y \in SUBSET All : t = PlanOf(Y)
    OBVIOUS
  <2>3. addAliases(t, s[k]) = PlanOf(Y \cup Entries(s[k]))
    BY <2>2, EntriesAdded
  <2>4. Y \cup Entries(s[k]) \in SUBSET (All)
    BY <1>2
  <2> QED  BY <2>1, <2>3, <2>4
<1>5. FoldLeft(addAliases, base, s) = (CHOOSE h : Is(h))[1 .. n]
  BY <1>1 DEF FoldLeft, MapThenFoldSet
<1> HIDE DEF base, T, step, n
<1>6. PICK g : Orders(g, n, T, base, step)
  BY <1>1, <1>3, <1>4, InOrder
<1>7. Is(g)
  <2>1. ASSUME NEW r \in SUBSET (1 .. n)
        PROVE  g[r] = IF r = {} THEN base ELSE addAliases(g[r \ {Max(r)}], s[Max(r)])
    <3>1. r # {} => /\ Max(r) \in 1 .. n /\ g[r \ {Max(r)}] \in T
                    /\ g[r] = step[<<Max(r), g[r \ {Max(r)}]>>]
      BY <1>6 DEF Orders
    <3> QED  BY <1>4, <1>6, <3>1 DEF Orders
  <2>2. g = [r \in SUBSET (1 .. n) |-> g[r]]
    BY <1>6 DEF Orders
  <2> QED  BY <2>1, <2>2
<1>8. ASSUME NEW h, Is(h) PROVE h[1 .. n] = g[1 .. n]
  <2>1. ASSUME NEW r \in SUBSET (1 .. n), r # {}, h[r \ {Max(r)}] \in T
        PROVE  h[r] = step[<<Max(r), h[r \ {Max(r)}]>>]
    <3>1. Max(r) \in 1 .. n /\ h[r] = addAliases(h[r \ {Max(r)}], s[Max(r)])
      BY <1>6, <1>8, <2>1 DEF Orders
    <3> QED  BY <1>4, <2>1, <3>1
  <2>2. h[{}] = base
    BY <1>8
  <2>3. Tries(h, n, T, base, step)
    BY <2>1, <2>2 DEF Tries
  <2> QED  BY <1>6, <2>3 DEF Orders
<1>9. FoldLeft(addAliases, base, s) = g[1 .. n]
  <2> HIDE DEF Is
  <2> QED  BY <1>5, <1>7, <1>8
<1>10. /\ Of(0) = {}
       /\ \A k \in Nat : Of(k + 1) = Of(k) \cup Entries(s[k + 1])
  <2>1. 1 .. 0 = {}
    OBVIOUS
  <2>2. ASSUME NEW k \in Nat PROVE Of(k + 1) = Of(k) \cup Entries(s[k + 1])
    <3> DEFINE j == k + 1
    <3>1. 1 .. j = (1 .. k) \cup {j}
      OBVIOUS
    <3> HIDE DEF j
    <3>2. Of(j) = Of(k) \cup Entries(s[j])
      BY <3>1
    <3> QED  BY <3>2 DEF j
  <2> QED  BY <2>1, <2>2
<1>11. NewCollectionPlan(s) = FoldLeft(addAliases, base, s)
  BY DEF NewCollectionPlan, NoPlan, PlanOf, base
<1> HIDE DEF Of
<1> DEFINE U == {k \in Nat : k <= n => g[1 .. k] = PlanOf(Of(k))}
<1>12. 0 \in U
  BY <1>6, <1>10 DEF Orders, base
<1>13. ASSUME NEW k \in Nat, k \in U PROVE k + 1 \in U
  <2> SUFFICES ASSUME k + 1 <= n PROVE g[1 .. k + 1] = PlanOf(Of(k + 1))
    OBVIOUS
  <2> DEFINE j == k + 1
             Y == Of(k)
  <2>1. j \in 1 .. n /\ j - 1 = k /\ 1 .. k \in SUBSET (1 .. n)
    BY <1>1
  <2>2. g[1 .. k] = PlanOf(Y) /\ g[1 .. k] \in T
    BY <1>1, <1>6, <1>13, <2>1 DEF Orders
  <2>3. Of(j) = Y \cup Entries(s[j])
    BY <1>10
  <2> HIDE DEF j, Y
  <2>4. g[1 .. j] = step[<<j, g[1 .. k]>>]
    BY <1>6, <2>1 DEF Orders
  <2>5. step[<<j, g[1 .. k]>>] = addAliases(g[1 .. k], s[j]) /\ s[j] \in S
    BY <1>2, <1>4, <2>1, <2>2
  <2>6. addAliases(PlanOf(Y), s[j]) = PlanOf(Y \cup Entries(s[j]))
    BY <2>5, EntriesAdded
  <2> QED  BY <2>2, <2>3, <2>4, <2>5, <2>6 DEF j
<1> HIDE DEF U
<1>14. Nat \subseteq U
  BY <1>12, <1>13, InductionOnNat
<1>15. g[1 .. n] = PlanOf(Of(n))
  BY <1>1, <1>14 DEF U
<1> QED  BY <1>9, <1>15, <1>11 DEF Of, n

\* The names that carry an alias, in a plan made of these entries.
Resolves(X, K, who) ==
  /\ PlanOf(X).lookup = {[key |-> k, name |-> CHOOSE n \in who[k] : TRUE] :
                           k \in {j \in K : Cardinality(who[j]) = 1}}
  /\ PlanOf(X).ambiguous = {j \in K : Cardinality(who[j]) > 1}

LEMMA PlanResolves ==
  ASSUME NEW X, NEW N, IsFiniteSet(N),
         \A e \in X : e = [key |-> e.key, name |-> e.name] /\ e.name \in N,
         NEW K, K = {e.key : e \in X} \ {<<>>},
         NEW who, \A k \in K : who[k] = {e.name : e \in {d \in X : d.key = k}}
  PROVE  Resolves(X, K, who)
<1>1. \A k \in K : \A n : n \in who[k] <=> \E e \in X : e.key = k /\ e.name = n
  <2>1. \A k \in K : \A n : n \in who[k] <=> n \in {e.name : e \in {d \in X : d.key = k}}
    OBVIOUS
  <2> QED  BY <2>1
<1>2. \A k : k \in K <=> k # <<>> /\ \E e \in X : e.key = k
  OBVIOUS
<1>3. ASSUME NEW k \in K
      PROVE  /\ IsFiniteSet(who[k]) /\ Cardinality(who[k]) \in Nat
             /\ Cardinality(who[k]) = 0 <=> who[k] = {}
             /\ Cardinality(who[k]) = 1 <=> \E n : who[k] = {n}
  <2>1. who[k] \in SUBSET N
    BY <1>1
  <2>2. IsFiniteSet(who[k])
    BY <2>1, FS_Subset
  <2> QED  BY <2>2, FS_CardinalityType, FS_EmptySet, FS_Singleton
<1>4. ASSUME NEW k \in K
      PROVE  /\ Cardinality(who[k]) = 1 <=> \A e, f \in X : e.key = k /\ f.key = k => e = f
             /\ Cardinality(who[k]) > 1 <=> \E e, f \in X : e.key = k /\ f.key = k /\ f # e
  <2>1. PICK e \in X : e.key = k
    BY <1>2
  <2>2. e.name \in who[k]
    BY <1>1, <2>1
  <2>3. Cardinality(who[k]) \in Nat /\ Cardinality(who[k]) # 0
    BY <1>3, <2>2
  <2>4. Cardinality(who[k]) = 1 <=> \A f, g \in X : f.key = k /\ g.key = k => f = g
    <3> DEFINE w == who[k]
    <3>1. e.name \in w
      BY <2>2
    <3> HIDE DEF w
    <3>2. (\A x, y \in w : x = y) => w = {e.name}
      BY <3>1
    <3>3. (\E n : w = {n}) <=> \A x, y \in w : x = y
      BY <3>1, <3>2
    <3> USE DEF w
    <3>4. (\A x, y \in who[k] : x = y) <=> \A f, g \in X : f.key = k /\ g.key = k => f.name = g.name
      <4>1. \A f \in X : f.key = k => f.name \in who[k]
        BY <1>1
      <4>2. \A x \in who[k] : \E f \in X : f.key = k /\ f.name = x
        BY <1>1
      <4> QED  BY <4>1, <4>2
    <3>5. \A f, g \in X : f.key = k /\ g.key = k /\ f.name = g.name => f = g
      OBVIOUS
    <3> QED  BY <1>3, <3>3, <3>4, <3>5
  <2>5. Cardinality(who[k]) > 1 <=> Cardinality(who[k]) # 1
    BY <2>3
  <2>6. (\E f, g \in X : f.key = k /\ g.key = k /\ g # f) <=>
          ~(\A f, g \in X : f.key = k /\ g.key = k => f = g)
    OBVIOUS
  <2> QED  BY <2>4, <2>5, <2>6
<1>5. \A k : k \in PlanOf(X).ambiguous <=> k \in {j \in K : Cardinality(who[j]) > 1}
  <2> SUFFICES ASSUME NEW k
               PROVE  k \in PlanOf(X).ambiguous <=> k \in K /\ Cardinality(who[k]) > 1
    OBVIOUS
  <2>1. k \in PlanOf(X).ambiguous <=>
          k # <<>> /\ \E d, f \in X : d.key = k /\ f.key = k /\ f # d
    BY SharedAlias
  <2> QED  BY <1>2, <1>4, <2>1
<1>6. PlanOf(X).ambiguous = {j \in K : Cardinality(who[j]) > 1}
  BY <1>5, SetExtensionality
<1> DEFINE Sole == {j \in K : Cardinality(who[j]) = 1}
           Told == {[key |-> k, name |-> CHOOSE n \in who[k] : TRUE] : k \in Sole}
           L == PlanOf(X).lookup
<1>7. \A e : e \in L <=> e \in X /\ e.key # <<>> /\ \A f \in X : f.key = e.key => f = e
  BY DEF PlanOf
<1>8. \A k : k \in Sole <=> k \in K /\ Cardinality(who[k]) = 1
  OBVIOUS
<1> HIDE DEF Sole, L
<1>9. ASSUME NEW k \in Sole, NEW e \in X, e.key = k
      PROVE  e = [key |-> k, name |-> CHOOSE n \in who[k] : TRUE]
  <2>1. who[k] = {e.name}
    <3>1. \A f, g \in X : f.key = k /\ g.key = k => f = g
      BY <1>4, <1>8
    <3>2. e.name \in who[k] /\ \A n \in who[k] : n = e.name
      BY <1>1, <1>8, <1>9, <3>1
    <3> QED  BY <3>2
  <2>2. (CHOOSE n \in who[k] : TRUE) = e.name
    BY <2>1
  <2> QED  BY <1>9, <2>2
<1>10. ASSUME NEW e \in L PROVE e \in Told
  <2>1. e.key \in Sole /\ e \in X
    <3>1. e \in X /\ e.key # <<>> /\ \A f \in X : f.key = e.key => f = e
      BY <1>7
    <3>2. e.key \in K
      BY <1>2, <3>1
    <3> QED  BY <1>4, <1>8, <3>1, <3>2
  <2> QED  BY <1>9, <2>1
<1>11. ASSUME NEW k \in Sole PROVE [key |-> k, name |-> CHOOSE n \in who[k] : TRUE] \in L
  <2>1. PICK e \in X : e.key = k
    BY <1>2, <1>8
  <2>2. e.key # <<>> /\ \A f \in X : f.key = k => f = e
    BY <1>2, <1>4, <1>8, <2>1
  <2> QED  BY <1>7, <1>9, <2>1, <2>2
<1>12. L = Told
  BY <1>10, <1>11
<1> QED  BY <1>6, <1>12 DEF L, Sole, Resolves

-----------------------------------------------------------------------------
(* Names. *)

\* s, then a separator, then t.
Marks(x, s, bar, t) ==
  /\ Len(s) \in Nat /\ Len(t) \in Nat /\ Len(x) = Len(s) + 1 + Len(t)
  /\ \A i \in 1 .. Len(s) : x[i] = s[i]
  /\ x[Len(s) + 1] = bar
  /\ \A i \in 1 .. Len(t) : x[Len(s) + 1 + i] = t[i]

LEMMA Marked ==
  ASSUME NEW A, NEW s \in Seq(A), NEW t \in Seq(A), NEW bar, NEW x, x = s \o <<bar>> \o t
  PROVE  Marks(x, s, bar, t)
<1> DEFINE b == <<bar>>
           B == {bar}
           w == s \o b
<1>1. b \in Seq(B) /\ Len(b) = 1 /\ b[1] = bar /\ 1 \in 1 .. 1
  OBVIOUS
<1>2. x = w \o t
  OBVIOUS
<1> HIDE DEF b, B
<1>3. Joins(w, s, b)
  BY <1>1, Concatenated
<1> HIDE DEF w
<1>4. w \in Seq(ToSet(w)) /\ Len(s) \in Nat /\ Len(w) = Len(s) + 1
  BY <1>1, <1>3 DEF Joins
<1>5. Joins(x, w, t)
  BY <1>2, <1>4, Concatenated
<1>6. Len(t) \in Nat /\ Len(x) = Len(s) + 1 + Len(t)
  BY <1>4, <1>5 DEF Joins
<1>7. ASSUME NEW i \in 1 .. Len(s) PROVE x[i] = s[i]
  <2>1. i \in 1 .. Len(w)
    BY <1>4
  <2> QED  BY <1>3, <1>5, <2>1 DEF Joins
<1>8. x[Len(s) + 1] = bar
  <2>1. Len(s) + 1 \in 1 .. Len(w)
    BY <1>4
  <2>2. w[Len(s) + 1] = b[1]
    BY <1>1, <1>3 DEF Joins
  <2> QED  BY <1>1, <1>5, <2>1, <2>2 DEF Joins
<1>9. \A i \in 1 .. Len(t) : x[Len(s) + 1 + i] = t[i]
  BY <1>4, <1>5 DEF Joins
<1> QED  BY <1>4, <1>6, <1>7, <1>8, <1>9 DEF Marks

\* A text without the separator does not begin another one with it.
LEMMA MarkedApart ==
  ASSUME NEW A, NEW p \in Seq(A), NEW q \in Seq(A), NEW bar, NEW u, NEW v,
         NEW x, NEW y, Marks(x, p, bar, u), Marks(y, q, bar, v),
         bar \notin ToSet(p), bar \notin ToSet(q)
  PROVE  /\ x # q
         /\ x = y => /\ p = q /\ Len(u) = Len(v)
                     /\ \A i \in 1 .. Len(u) : u[i] = v[i]
<1> DEFINE m == Len(p)
           n == Len(q)
           k == Len(u)
           l == Len(v)
<1>1. m \in Nat /\ n \in Nat /\ k \in Nat /\ l \in Nat
  BY DEF Marks
<1>2. (\A i \in 1 .. m : p[i] # bar) /\ (\A i \in 1 .. n : q[i] # bar)
  BY DEF ToSet
<1>3. /\ Len(x) = m + 1 + k /\ Len(y) = n + 1 + l /\ x[m + 1] = bar /\ y[n + 1] = bar
      /\ \A i \in 1 .. m : x[i] = p[i]
      /\ \A i \in 1 .. n : y[i] = q[i]
      /\ \A i \in 1 .. k : x[m + 1 + i] = u[i]
      /\ \A i \in 1 .. l : y[n + 1 + i] = v[i]
  BY DEF Marks
<1>4. p = q <=> m = n /\ \A i \in 1 .. m : p[i] = q[i]
  <2>1. p = [i \in 1 .. m |-> p[i]] /\ q = [i \in 1 .. n |-> q[i]]
    OBVIOUS
  <2> HIDE DEF m, n
  <2>2. m = n /\ (\A i \in 1 .. m : p[i] = q[i]) => [i \in 1 .. m |-> p[i]] = [i \in 1 .. n |-> q[i]]
    OBVIOUS
  <2>3. p = q => m = n
    BY DEF m, n
  <2> QED  BY <2>1, <2>2, <2>3
<1>5. Len(q) = n
  OBVIOUS
<1> HIDE DEF m, n, k, l
<1>6. x # q
  <2> SUFFICES ASSUME x = q PROVE FALSE
    OBVIOUS
  <2>1. n = m + 1 + k
    BY <1>3, <1>5
  <2>2. m + 1 \in 1 .. n
    BY <1>1, <2>1
  <2> QED  BY <1>2, <1>3, <2>2
<1>7. ASSUME x = y PROVE m = n
  <2>1. ~(m < n)
    <3> SUFFICES ASSUME m < n PROVE FALSE
      OBVIOUS
    <3>1. m + 1 \in 1 .. n
      BY <1>1
    <3> QED  BY <1>2, <1>3, <1>7, <3>1
  <2>2. ~(n < m)
    <3> SUFFICES ASSUME n < m PROVE FALSE
      OBVIOUS
    <3>1. n + 1 \in 1 .. m
      BY <1>1
    <3> QED  BY <1>2, <1>3, <1>7, <3>1
  <2> QED  BY <1>1, <2>1, <2>2
<1>8. ASSUME x = y PROVE p = q /\ k = l /\ \A i \in 1 .. k : u[i] = v[i]
  <2>1. m = n
    BY <1>7, <1>8
  <2>2. k = l
    BY <1>1, <1>3, <1>8, <2>1
  <2> QED  BY <1>3, <1>4, <1>8, <2>1, <2>2
<1> QED  BY <1>6, <1>8 DEF k, l

\* What discovery returns of a resource.
Proper(r) ==
  /\ r.group \in Text /\ r.version \in Text /\ r.plural \in Text /\ r.kind \in Text
  /\ r.short \in Seq(Text) /\ r.namespaced \in BOOLEAN
  /\ r.hint \in {"none", "full", "metadata"}
  /\ "_" \notin ToSet(r.group) \cup ToSet(r.plural) /\ r.group # <<"core">>

\* Resources with a group and plural of their own.
Distinguished(rs) ==
  /\ rs \in Seq(ToSet(rs))
  /\ \A i, k \in DOMAIN rs :
       rs[i].group = rs[k].group /\ rs[i].plural = rs[k].plural => i = k
  /\ \A r \in ToSet(rs) : Proper(r)

GroupWord(r) == Swap(IF r.group = Core THEN <<"core">> ELSE r.group, ".", "_")

LEMMA Swapped ==
  ASSUME NEW A, NEW g \in Seq(A), NEW dot, NEW bar \in A, NEW w, w = Swap(g, dot, bar)
  PROVE  /\ w \in Seq(A) /\ Len(w) = Len(g) /\ Len(g) \in Nat
         /\ \A i \in 1 .. Len(g) : w[i] = IF g[i] = dot THEN bar ELSE g[i]
<1>1. DOMAIN g = 1 .. Len(g) /\ Len(g) \in Nat /\ \A i \in 1 .. Len(g) : g[i] \in A
  BY LenProperties
<1>2. w = [i \in 1 .. Len(g) |-> IF g[i] = dot THEN bar ELSE g[i]]
  BY <1>1 DEF Swap
<1>3. w \in [1 .. Len(g) -> A]
  BY <1>1, <1>2
<1>4. w \in Seq(A)
  BY <1>1, <1>3, SeqDef
<1> QED  BY <1>1, <1>2, <1>3, <1>4, LenProperties

\* The word that stands for the core group.
LEMMA CoreWord ==
  ASSUME NEW c, c = <<"core">>
  PROVE  c \in Text /\ "_" \in Word /\ \A i \in DOMAIN c : c[i] # "_"
<1> DEFINE A == Word
           w == "core"
           bar == "_"
<1>1. w \in A /\ bar \in A /\ w # bar
  BY WordAssumption
<1> HIDE DEF A, w, bar
<1>2. c = <<w>>
  BY DEF w
<1>3. c \in Seq(A) /\ DOMAIN c = 1 .. 1 /\ c[1] = w
  BY <1>1, <1>2
<1>4. \A i \in DOMAIN c : c[i] # bar
  BY <1>1, <1>3
<1> QED  BY <1>1, <1>3, <1>4 DEF A, bar, Text

LEMMA GroupWords ==
  ASSUME NEW r, Proper(r)
  PROVE  GroupWord(r) \in Text
<1> DEFINE g == IF r.group = Core THEN <<"core">> ELSE r.group
           w == GroupWord(r)
<1> DEFINE A == Word
           bar == "_"
           dot == "."
<1>1. g \in Seq(A) /\ bar \in A
  BY CoreWord DEF Proper, Text
<1>2. w = Swap(g, dot, bar)
  BY DEF GroupWord
<1> HIDE DEF g, w, A, bar, dot
<1>3. w \in Seq(A)
  BY <1>1, <1>2, Swapped
<1> QED  BY <1>3 DEF w, A, Text

LEMMA SameGroup ==
  ASSUME NEW r, NEW q, Proper(r), Proper(q), Len(GroupWord(r)) = Len(GroupWord(q)),
         \A i \in 1 .. Len(GroupWord(r)) : GroupWord(r)[i] = GroupWord(q)[i]
  PROVE  r.group = q.group
<1> DEFINE g == IF r.group = Core THEN <<"core">> ELSE r.group
           h == IF q.group = Core THEN <<"core">> ELSE q.group
           u == GroupWord(r)
           v == GroupWord(q)
<1> DEFINE A == Word
           bar == "_"
           dot == "."
<1>1. /\ g \in Seq(A) /\ h \in Seq(A)
      /\ u = Swap(g, dot, bar) /\ v = Swap(h, dot, bar) /\ bar \in A
  BY CoreWord DEF Proper, Text, GroupWord
<1>2. /\ \A i \in DOMAIN r.group : r.group[i] # bar
      /\ \A i \in DOMAIN q.group : q.group[i] # bar
      /\ r.group # <<"core">> /\ q.group # <<"core">>
  BY DEF Proper, ToSet
<1>3. /\ \A i \in DOMAIN g : g[i] # bar
      /\ \A i \in DOMAIN h : h[i] # bar
  <2> DEFINE c == <<"core">>
  <2>1. \A i \in DOMAIN c : c[i] # bar
    BY CoreWord
  <2> QED  BY <1>2, <2>1
<1>4. g = h => r.group = q.group
  BY <1>2 DEF Core
<1> HIDE DEF g, h, u, v, A, bar, dot
<1>5. /\ Len(u) = Len(g) /\ Len(g) \in Nat
      /\ \A i \in 1 .. Len(g) : u[i] = IF g[i] = dot THEN bar ELSE g[i]
  BY <1>1, Swapped
<1>6. /\ Len(v) = Len(h) /\ Len(h) \in Nat
      /\ \A i \in 1 .. Len(h) : v[i] = IF h[i] = dot THEN bar ELSE h[i]
  BY <1>1, Swapped
<1>7. Len(u) = Len(v) /\ \A i \in 1 .. Len(u) : u[i] = v[i]
  BY DEF u, v
<1>8. DOMAIN g = 1 .. Len(g) /\ DOMAIN h = 1 .. Len(h)
  BY <1>1, LenProperties
<1>9. \A i \in 1 .. Len(g) : g[i] = h[i]
  BY <1>3, <1>5, <1>6, <1>7, <1>8
<1>10. g = h
  <2>1. Len(g) = Len(h)
    BY <1>5, <1>6, <1>7
  <2> QED  BY <1>1, <1>9, <2>1, SeqEqual
<1> QED  BY <1>4, <1>10

\* Every resource has a name of its own.
LEMMA NamesDiffer ==
  ASSUME NEW rs, Distinguished(rs), NEW i \in DOMAIN rs, NEW k \in DOMAIN rs,
         NameOf(rs, rs[i]) = NameOf(rs, rs[k])
  PROVE  i = k
<1> DEFINE r == rs[i]
           q == rs[k]
           p == r.plural
           s == q.plural
           u == GroupWord(r)
           v == GroupWord(q)
           bar == "_"
           x == p \o <<bar>> \o u
           y == s \o <<bar>> \o v
           A == Word
           m == NameOf(rs, r)
           n == NameOf(rs, q)
<1>1. /\ r \in ToSet(rs) /\ q \in ToSet(rs) /\ Proper(r) /\ Proper(q)
  BY DEF Distinguished, ToSet
<1>2. /\ p \in Seq(A) /\ s \in Seq(A) /\ bar \notin ToSet(p) /\ bar \notin ToSet(s)
  BY <1>1 DEF Proper, Text
<1>3. u \in Seq(A) /\ v \in Seq(A)
  BY <1>1, GroupWords DEF Text
<1>4. r.group = q.group /\ p = s => i = k
  BY DEF Distinguished
<1>5. /\ m \in {x, p} /\ n \in {y, s}
      /\ m = x \/ \A o \in ToSet(rs) : o # r => o.plural # p
  BY DEF NameOf, GroupWord
<1>6. Len(u) = Len(v) /\ (\A j \in 1 .. Len(u) : u[j] = v[j]) => r.group = q.group
  BY <1>1, SameGroup
<1>7. r = q => r.group = q.group /\ p = s
  OBVIOUS
<1>8. m = n /\ s = q.plural
  OBVIOUS
<1> HIDE DEF r, q, p, s, u, v, bar, A, m, n
<1>9. Marks(x, p, bar, u) /\ Marks(y, s, bar, v)
  BY <1>2, <1>3, Marked
<1> HIDE DEF x, y
<1>10. x # s
  BY ONLY <1>2, <1>9, MarkedApart
<1>11. y # p
  BY ONLY <1>2, <1>9, MarkedApart
<1>12. CASE x = y
  <2>1. p = s /\ Len(u) = Len(v) /\ \A j \in 1 .. Len(u) : u[j] = v[j]
    BY <1>2, <1>9, <1>12, MarkedApart
  <2>2. r.group = q.group
    BY ONLY <1>6, <2>1
  <2> QED  BY ONLY <1>4, <2>1, <2>2
<1>13. CASE x # y
  <2>1. m = p /\ p = s /\ m # x
    BY ONLY <1>5, <1>8, <1>10, <1>11, <1>13
  <2>2. \A o \in ToSet(rs) : o # r => o.plural # p
    BY ONLY <1>5, <2>1
  <2>3. r = q
    BY ONLY <1>1, <1>8, <2>1, <2>2
  <2> QED  BY ONLY <1>4, <1>7, <2>3
<1> QED  BY <1>12, <1>13

CollectionOf(rs, full, r) ==
  [name |-> NameOf(rs, r), resource |-> r, fetch |-> IF full THEN "full" ELSE defaultFetchMode(r)]

\* One collection, with a name of its own, for every resource.
OnePerResource(cs, rs, full, h) ==
  /\ cs \in Seq(ToSet(cs)) /\ Len(cs) \in Nat /\ DOMAIN cs = 1 .. Len(cs)
  /\ h \in [DOMAIN cs -> DOMAIN rs]
  /\ \A i, k \in DOMAIN cs : h[i] = h[k] => i = k
  /\ \A j \in DOMAIN rs : \E i \in DOMAIN cs : h[i] = j
  /\ \A i \in DOMAIN cs : cs[i] = CollectionOf(rs, full, rs[h[i]])
  /\ \A i, k \in DOMAIN cs : cs[i].name = cs[k].name => i = k

LEMMA CollectionsMatch ==
  ASSUME NEW rs, Distinguished(rs), NEW full, NEW cs, cs = BuildCollections(rs, full)
  PROVE  \E h : OnePerResource(cs, rs, full, h)
<1> DEFINE of(i) == CollectionOf(rs, full, rs[i])
           all == [i \in DOMAIN rs |-> of(i)]
           key == [c \in ToSet(all) |-> c.name]
<1>1. cs = DistinctBy(key, all)
  BY DEF BuildCollections, CollectionOf
<1>2. \A i \in DOMAIN rs : of(i).name = NameOf(rs, rs[i])
  BY DEF CollectionOf
<1> HIDE DEF of
<1>3. /\ all = [i \in DOMAIN all |-> all[i]] /\ DOMAIN all = DOMAIN rs
      /\ \A i \in DOMAIN rs : all[i] = of(i)
  OBVIOUS
<1>4. \A i \in DOMAIN rs : key[all[i]] = NameOf(rs, rs[i])
  BY <1>2 DEF ToSet
<1> HIDE DEF all, key
<1>5. all \in Seq(ToSet(all))
  BY <1>3, FunctionSeq DEF Distinguished
<1>6. PICK h : Firsts(cs, all, key, h)
  BY <1>1, <1>5, FirstOfEachKey
<1>7. /\ Thins(cs, all, h)
      /\ (\A i, k \in DOMAIN all : key[all[i]] = key[all[k]] => i = k) =>
           {h[i] : i \in DOMAIN cs} = DOMAIN all
      /\ \A i, k \in DOMAIN cs : key[cs[i]] = key[cs[k]] => i = k
  BY <1>6 DEF Firsts
<1>8. {h[i] : i \in DOMAIN cs} = DOMAIN rs
  BY <1>3, <1>4, <1>7, NamesDiffer
<1>9. /\ cs \in Seq(ToSet(cs)) /\ Len(cs) \in Nat /\ DOMAIN cs = 1 .. Len(cs)
      /\ h \in [DOMAIN cs -> DOMAIN rs]
      /\ \A i \in DOMAIN cs : cs[i] = of(h[i])
      /\ \A i, k \in DOMAIN cs : h[i] = h[k] => i = k
  BY <1>3, <1>7 DEF Thins
<1>10. \A i \in DOMAIN cs : key[cs[i]] = cs[i].name
  BY <1>2, <1>3, <1>4, <1>9
<1>11. \A j \in DOMAIN rs : \E i \in DOMAIN cs : h[i] = j
  BY <1>8
<1>12. OnePerResource(cs, rs, full, h)
  BY <1>7, <1>9, <1>10, <1>11 DEF OnePerResource, of
<1> QED  BY <1>12

\* Names and resources of the collections.
LEMMA CollectionFacts ==
  ASSUME NEW rs, Distinguished(rs), NEW full, NEW cs, NEW h, OnePerResource(cs, rs, full, h)
  PROVE  /\ \A c \in ToSet(cs) :
              /\ c.resource \in ToSet(rs) /\ Proper(c.resource)
              /\ c.name = NameOf(rs, c.resource)
              /\ c.fetch = IF full THEN "full" ELSE defaultFetchMode(c.resource)
         /\ \A c, d \in ToSet(cs) : c.name = d.name => c = d
         /\ \A r \in ToSet(rs) : Cardinality({i \in DOMAIN cs : cs[i].resource = r}) = 1
<1>1. ASSUME NEW i \in DOMAIN cs
      PROVE  /\ h[i] \in DOMAIN rs
             /\ cs[i].resource = rs[h[i]] /\ cs[i].name = NameOf(rs, cs[i].resource)
             /\ cs[i].fetch = IF full THEN "full" ELSE defaultFetchMode(cs[i].resource)
  BY DEF OnePerResource, CollectionOf
<1>2. \A j \in DOMAIN rs : rs[j] \in ToSet(rs) /\ Proper(rs[j])
  BY DEF Distinguished, ToSet
<1>3. ASSUME NEW c \in ToSet(cs)
      PROVE  /\ c.resource \in ToSet(rs) /\ Proper(c.resource)
             /\ c.name = NameOf(rs, c.resource)
             /\ c.fetch = IF full THEN "full" ELSE defaultFetchMode(c.resource)
  <2>1. PICK i \in DOMAIN cs : c = cs[i]
    BY DEF ToSet
  <2> QED  BY <1>1, <1>2, <2>1
<1>4. \A c, d \in ToSet(cs) : c.name = d.name => c = d
  BY DEF OnePerResource, ToSet
<1>5. ASSUME NEW r \in ToSet(rs) PROVE Cardinality({i \in DOMAIN cs : cs[i].resource = r}) = 1
  <2>1. PICK j \in DOMAIN rs : r = rs[j]
    BY DEF ToSet
  <2>2. PICK i \in DOMAIN cs : h[i] = j
    BY DEF OnePerResource
  <2>3. \A k \in DOMAIN cs : cs[k].resource = r => h[k] = j
    BY <1>1, <2>1 DEF Distinguished
  <2>4. {k \in DOMAIN cs : cs[k].resource = r} = {i}
    BY <1>1, <2>1, <2>2, <2>3 DEF OnePerResource
  <2> QED  BY <2>4, FS_Singleton
<1> QED  BY <1>3, <1>4, <1>5

\* An alias resolves exactly when one collection carries it.
LEMMA PlanOfCollections ==
  ASSUME NEW rs, Distinguished(rs), NEW full, NEW h, OnePerResource(collections, rs, full, h),
         plan = NewCollectionPlan(collections)
  PROVE  /\ plan.lookup = {[key |-> k, name |-> CHOOSE n \in Carriers(k) : TRUE] :
                             k \in {j \in Keys : Cardinality(Carriers(j)) = 1}}
         /\ plan.ambiguous = {j \in Keys : Cardinality(Carriers(j)) > 1}
<1> DEFINE cs == collections
           X == UNION {Entries(cs[i]) : i \in 1 .. Len(cs)}
           N == {c.name : c \in ToSet(cs)}
           K == Keys
           who == [k \in K |-> Carriers(k)]
           S == ToSet(cs)
           Y == Text
<1>1. cs \in Seq(S) /\ DOMAIN cs = 1 .. Len(cs) /\ Len(cs) \in Nat
  BY DEF OnePerResource
<1>2. \A c \in S : c.resource.short \in Seq(Y)
  BY CollectionFacts DEF Proper
<1>3. plan = PlanOf(X)
  <2> HIDE DEF S, Y
  <2> QED  BY <1>1, <1>2, PlanFolded
<1>4. \A e : e \in X <=> \E c \in S : e \in Entries(c)
  BY <1>1 DEF ToSet
<1>5. \A e : e \in X <=> \E c \in S : \E i \in DOMAIN Aliases(c) :
         e = [key |-> normalizeTypeKey(Aliases(c)[i]), name |-> c.name]
  BY <1>4 DEF Entries
<1>6. \A k, n : n \in Carriers(k) <=>
         \E c \in S : c.name = n /\ \E i \in DOMAIN Aliases(c) : normalizeTypeKey(Aliases(c)[i]) = k
  BY DEF Carriers
<1>7. ASSUME NEW k
      PROVE  k \in Keys <=>
               k # <<>> /\ \E c \in S : \E i \in DOMAIN Aliases(c) : normalizeTypeKey(Aliases(c)[i]) = k
  <2> DEFINE T(c) == {normalizeTypeKey(Aliases(c)[i]) : i \in DOMAIN Aliases(c)}
  <2>1. \A c : k \in T(c) <=> \E i \in DOMAIN Aliases(c) : normalizeTypeKey(Aliases(c)[i]) = k
    OBVIOUS
  <2>2. Keys = (UNION {T(c) : c \in S}) \ {<<>>}
    BY DEF Keys
  <2> HIDE DEF T, S
  <2>3. k \in UNION {T(c) : c \in S} <=> \E c \in S : k \in T(c)
    OBVIOUS
  <2>4. k \in Keys <=> k # <<>> /\ \E c \in S : k \in T(c)
    BY ONLY <2>2, <2>3, Zenon
  <2> QED  BY <2>1, <2>4
<1> HIDE DEF X
<1>8. \A e \in X : e = [key |-> e.key, name |-> e.name] /\ e.name \in N
  BY <1>5
<1>9. K = {e.key : e \in X} \ {<<>>}
  <2>1. \A k : (\E e \in X : e.key = k) <=>
                 \E c \in S : \E i \in DOMAIN Aliases(c) : normalizeTypeKey(Aliases(c)[i]) = k
    <3> SUFFICES ASSUME NEW k
                 PROVE  (\E e \in X : e.key = k) <=>
                          \E c \in S : \E i \in DOMAIN Aliases(c) : normalizeTypeKey(Aliases(c)[i]) = k
      OBVIOUS
    <3>1. ASSUME NEW e \in X, e.key = k
          PROVE  \E c \in S : \E i \in DOMAIN Aliases(c) : normalizeTypeKey(Aliases(c)[i]) = k
      BY <1>5, <3>1
    <3>2. ASSUME NEW c \in S, NEW i \in DOMAIN Aliases(c), normalizeTypeKey(Aliases(c)[i]) = k
          PROVE  \E e \in X : e.key = k
      <4> DEFINE d == [key |-> k, name |-> c.name]
      <4>1. d \in X
        BY <1>5, <3>2
      <4>2. d.key = k
        OBVIOUS
      <4> QED  BY <4>1, <4>2
    <3> QED  BY <3>1, <3>2
  <2>2. \A k : k \in K <=> k \in {e.key : e \in X} \ {<<>>}
    BY <1>7, <2>1
  <2> QED  BY <2>2, SetExtensionality
<1>10. ASSUME NEW k \in K PROVE who[k] = {e.name : e \in {d \in X : d.key = k}}
  <2>1. ASSUME NEW n PROVE n \in Carriers(k) <=> \E e \in X : e.key = k /\ e.name = n
    <3> DEFINE d == [key |-> k, name |-> n]
    <3>1. d.key = k /\ d.name = n
      OBVIOUS
    <3>2. d \in X <=> n \in Carriers(k)
      BY <1>5, <1>6
    <3>3. \A e \in X : e.key = k /\ e.name = n => e = d
      BY <1>8
    <3> QED  BY <3>1, <3>2, <3>3
  <2>2. Carriers(k) = {e.name : e \in {d \in X : d.key = k}}
    BY <2>1
  <2> QED  BY <2>2
<1>11. IsFiniteSet(N)
  <2> DEFINE D == 1 .. Len(cs)
             f == [i \in D |-> cs[i].name]
  <2>1. IsFiniteSet(D)
    BY <1>1, IntervalSize
  <2>2. f \in [D -> N] /\ \A n \in N : \E i \in D : f[i] = n
    BY <1>1 DEF ToSet
  <2> HIDE DEF D, f, N
  <2>3. f \in Surjection(D, N)
    BY <2>2, Fun_IsSurj
  <2> QED  BY <2>1, <2>3, FS_Surjection
<1>12. \A k \in K : who[k] = Carriers(k)
  OBVIOUS
<1> HIDE DEF N, K, who
<1>13. Resolves(X, K, who)
  BY <1>8, <1>9, <1>10, <1>11, PlanResolves
<1>14. /\ {j \in K : Cardinality(who[j]) = 1} = {j \in K : Cardinality(Carriers(j)) = 1}
       /\ {j \in K : Cardinality(who[j]) > 1} = {j \in K : Cardinality(Carriers(j)) > 1}
  BY <1>12
<1>15. {[key |-> k, name |-> CHOOSE n \in who[k] : TRUE] : k \in {j \in K : Cardinality(who[j]) = 1}}
       = {[key |-> k, name |-> CHOOSE n \in Carriers(k) : TRUE] :
            k \in {j \in K : Cardinality(Carriers(j)) = 1}}
  BY <1>12, <1>14
<1> QED  BY <1>3, <1>13, <1>14, <1>15 DEF K, Resolves

-----------------------------------------------------------------------------
(* The checkpoint. *)

Size(t, l) == IF t.clusterScoped THEN 1 ELSE l

\* What CreateCheckpoint counts is the number of jobs that ValidateResume finds.
LEMMA JobsCounted ==
  ASSUME NEW S, NEW s \in Seq(S), NEW M, NEW ns \in Seq(M),
         \A i \in 1 .. Len(s) : s[i].clusterScoped \in BOOLEAN,
         NEW c, c = CreateCheckpoint(s, ns)
  PROVE  c.remaining = Cardinality(Jobs(c))
<1> DEFINE n == Len(s)
           l == Len(ns)
           T == Nat
           base == 0
           step == [p \in (1 .. n) \X T |-> p[2] + Size(s[p[1]], l)]
           Is(h) == h = [r \in SUBSET (1 .. n) |->
                           IF r = {} THEN base ELSE h[r \ {Max(r)}] + Size(s[Max(r)], l)]
           At1(k) == {j \in Jobs(c) : j[1] = k}
           UpTo(k) == {j \in Jobs(c) : j[1] <= k}
<1>1. n \in Nat /\ DOMAIN s = 1 .. n /\ l \in Nat
  BY LenProperties
<1>2. c.targets = s /\ c.namespaces = ns
  BY DEF CreateCheckpoint
<1>3. base \in T
  OBVIOUS
<1>4. ASSUME NEW k \in 1 .. n, NEW t \in T
      PROVE  step[<<k, t>>] = t + Size(s[k], l) /\ step[<<k, t>>] \in T
  <2>1. step[<<k, t>>] = t + Size(s[k], l)
    OBVIOUS
  <2>2. Size(s[k], l) \in Nat
    BY <1>1 DEF Size
  <2> QED  BY <2>1, <2>2
<1>5. c.remaining = (CHOOSE h : Is(h))[1 .. n]
  BY <1>1 DEF CreateCheckpoint, FoldLeft, MapThenFoldSet, Size
<1>6. Jobs(c) = {j \in (1 .. n) \X (0 .. l) : s[j[1]].clusterScoped <=> j[2] = 0}
  BY <1>2 DEF Jobs
<1> HIDE DEF base, T, step, n, l
<1>7. PICK g : Orders(g, n, T, base, step)
  BY <1>1, <1>3, <1>4, InOrder
<1>8. Is(g)
  <2>1. ASSUME NEW r \in SUBSET (1 .. n)
        PROVE  g[r] = IF r = {} THEN base ELSE g[r \ {Max(r)}] + Size(s[Max(r)], l)
    <3>1. r # {} => /\ Max(r) \in 1 .. n /\ g[r \ {Max(r)}] \in T
                    /\ g[r] = step[<<Max(r), g[r \ {Max(r)}]>>]
      BY <1>7 DEF Orders
    <3> QED  BY <1>4, <1>7, <3>1 DEF Orders
  <2>2. g = [r \in SUBSET (1 .. n) |-> g[r]]
    BY <1>7 DEF Orders
  <2> QED  BY <2>1, <2>2
<1>9. ASSUME NEW h, Is(h) PROVE h[1 .. n] = g[1 .. n]
  <2>1. ASSUME NEW r \in SUBSET (1 .. n), r # {}, h[r \ {Max(r)}] \in T
        PROVE  h[r] = step[<<Max(r), h[r \ {Max(r)}]>>]
    <3>1. Max(r) \in 1 .. n /\ h[r] = h[r \ {Max(r)}] + Size(s[Max(r)], l)
      BY <1>7, <1>9, <2>1 DEF Orders
    <3> QED  BY <1>4, <2>1, <3>1
  <2>2. h[{}] = base
    BY <1>9
  <2>3. Tries(h, n, T, base, step)
    BY <2>1, <2>2 DEF Tries
  <2> QED  BY <1>7, <2>3 DEF Orders
<1>10. c.remaining = g[1 .. n]
  <2> HIDE DEF Is
  <2> QED  BY <1>5, <1>8, <1>9
<1>11. ASSUME NEW k \in 1 .. n
       PROVE  IsFiniteSet(At1(k)) /\ Cardinality(At1(k)) = Size(s[k], l)
  <2>1. \A j : j \in At1(k) <=> \E x \in 0 .. l : j = <<k, x>> /\ (s[k].clusterScoped <=> x = 0)
    BY <1>6
  <2>2. CASE s[k].clusterScoped
    <3>1. At1(k) = {<<k, 0>>}
      BY <1>1, <2>1, <2>2
    <3> HIDE DEF At1
    <3>2. IsFiniteSet(At1(k)) /\ Cardinality(At1(k)) = 1
      BY <3>1, FS_Singleton
    <3> QED  BY <2>2, <3>2 DEF Size
  <2>3. CASE ~s[k].clusterScoped
    <3> DEFINE D == 1 .. l
               A == At1(k)
               f == [x \in D |-> <<k, x>>]
    <3>1. \A j : j \in A <=> \E x \in D : j = <<k, x>>
      BY <1>1, <2>1, <2>3
    <3>2. IsFiniteSet(D) /\ Cardinality(D) = l
      BY <1>1, IntervalSize
    <3> HIDE DEF A
    <3>3. f \in [D -> A] /\ (\A j \in A : \E x \in D : f[x] = j) /\ \A x, y \in D : f[x] = f[y] => x = y
      BY <3>1
    <3> HIDE DEF D, f
    <3>4. f \in Bijection(D, A)
      BY <3>3, Fun_IsBij
    <3>5. ExistsBijection(D, A)
      BY <3>4 DEF ExistsBijection
    <3>6. IsFiniteSet(A) /\ Cardinality(A) = l
      BY <3>2, <3>5, FS_Bijection
    <3> QED  BY <2>3, <3>6 DEF A, Size
  <2> QED  BY <2>2, <2>3
<1>12. /\ UpTo(0) = {}
       /\ \A k \in Nat : k + 1 \in 1 .. n => /\ UpTo(k + 1) = UpTo(k) \cup At1(k + 1)
                                             /\ UpTo(k) \cap At1(k + 1) = {}
       /\ UpTo(n) = Jobs(c)
  <2>1. \A j \in Jobs(c) : j[1] \in 1 .. n
    BY <1>6
  <2>2. \A j \in Jobs(c) : j[1] \in Nat /\ j[1] # 0 /\ j[1] <= n
    BY <1>1, <2>1
  <2> QED  BY <2>2
<1> HIDE DEF At1, UpTo
<1> DEFINE U == {k \in Nat : k <= n => IsFiniteSet(UpTo(k)) /\ Cardinality(UpTo(k)) = g[1 .. k]}
<1>13. 0 \in U
  <2>1. g[1 .. 0] = 0
    BY <1>7 DEF Orders, base
  <2> QED  BY <1>12, <2>1, FS_EmptySet
<1>14. ASSUME NEW k \in Nat, k \in U PROVE k + 1 \in U
  <2> SUFFICES ASSUME k + 1 <= n
               PROVE  IsFiniteSet(UpTo(k + 1)) /\ Cardinality(UpTo(k + 1)) = g[1 .. k + 1]
    OBVIOUS
  <2> DEFINE j == k + 1
             A == UpTo(k)
             B == At1(j)
             v == g[1 .. k]
  <2>1. j \in 1 .. n /\ j - 1 = k /\ 1 .. k \in SUBSET (1 .. n) /\ k <= n
    BY <1>1
  <2>2. IsFiniteSet(A) /\ Cardinality(A) = v
    BY <1>14, <2>1
  <2>3. UpTo(j) = A \cup B /\ A \cap B = {}
    BY <1>12, <2>1
  <2>4. IsFiniteSet(B) /\ Cardinality(B) = Size(s[j], l)
    BY <1>11, <2>1
  <2> HIDE DEF j, A, B
  <2>5. g[1 .. j] = step[<<j, v>>] /\ v \in T
    BY <1>7, <2>1 DEF Orders
  <2>6. g[1 .. j] = v + Size(s[j], l) /\ v + Size(s[j], l) \in Nat /\ v \in Nat
    BY <1>4, <2>1, <2>5 DEF T
  <2> DEFINE z == Size(s[j], l)
             both == Cardinality(A \cup B)
             w == g[1 .. j]
  <2>7. z \in Nat
    BY <2>4, FS_CardinalityType
  <2> HIDE DEF v, z
  <2>8. IsFiniteSet(A \cup B) /\ Cardinality(A \cup B) = v + z - 0
    BY <2>2, <2>3, <2>4, FS_Union, FS_EmptySet DEF z
  <2>9. both = v + z - 0 /\ w = v + z
    BY <2>6, <2>8 DEF z
  <2> HIDE DEF both, w
  <2>10. both = w
    BY ONLY <2>6, <2>7, <2>9
  <2>11. Cardinality(A \cup B) = g[1 .. j]
    BY <2>10 DEF both, w
  <2> QED  BY <2>3, <2>8, <2>11 DEF j
<1> HIDE DEF U
<1>15. Nat \subseteq U
  BY <1>13, <1>14, InductionOnNat
<1>16. Cardinality(UpTo(n)) = g[1 .. n]
  <2>1. n \in U /\ n <= n
    BY <1>1, <1>15
  <2> QED  BY <2>1 DEF U
<1> QED  BY <1>10, <1>12, <1>16

\* The targets of a checkpoint that can be resumed.
SoundTargets(ts, cs) ==
  /\ ts \in Seq(ToSet(ts)) /\ ts # <<>>
  /\ ToSet(ts) \subseteq {Target(c) : c \in ToSet(cs)}
  /\ \A t \in ToSet(ts) : /\ <<>> \notin {t.name, t.version, t.plural}
                          /\ t.fetch \in {"full", "metadata"} /\ t.clusterScoped \in BOOLEAN
  /\ \A i, k \in DOMAIN ts : ts[i].name = ts[k].name => i = k

\* The namespaces of a checkpoint that can be resumed.
SoundNamespaces(ns) ==
  /\ ns \in Seq(ToSet(ns)) /\ Unnamed \notin ToSet(ns)
  /\ \A i, k \in DOMAIN ns : ns[i] = ns[k] => i = k

\* Each collection makes a target that ValidateResume accepts.
LEMMA TargetOf ==
  ASSUME NEW rs, Distinguished(rs), NEW full \in BOOLEAN, NEW cs, NEW h, OnePerResource(cs, rs, full, h),
         ValidCollections(cs), NEW c \in ToSet(cs)
  PROVE  /\ <<>> \notin {Target(c).name, Target(c).version, Target(c).plural}
         /\ Target(c).fetch \in {"full", "metadata"} /\ Target(c).clusterScoped \in BOOLEAN
<1>1. Proper(c.resource) /\ c.fetch = IF full THEN "full" ELSE defaultFetchMode(c.resource)
  BY CollectionFacts
<1>2. PICK i \in DOMAIN cs : c = cs[i]
  BY DEF ToSet
<1>3. c.name # <<>> /\ c.resource.version # <<>> /\ c.resource.plural # <<>>
  BY <1>2 DEF ValidCollections, isValidName
<1>4. defaultFetchMode(c.resource) \in {"full", "metadata"}
  BY <1>1 DEF defaultFetchMode, Proper
<1>5. c.fetch \in {"full", "metadata"}
  BY <1>1, <1>4
<1> QED  BY <1>1, <1>3, <1>5 DEF Target, Proper

\* A type the plan knows stands for one of its collections.
LEMMA TypeResolves ==
  ASSUME NEW rs, Distinguished(rs), NEW full, NEW cs, NEW h, OnePerResource(cs, rs, full, h),
         NEW p, p = NewCollectionPlan(cs), NEW type, Known(p, type)
  PROVE  \E c \in ToSet(cs) : c.name = Resolved(p, type)
<1>1. cs \in Seq(ToSet(cs)) /\ DOMAIN cs = 1 .. Len(cs)
  BY DEF OnePerResource
<1>2. \A c \in ToSet(cs) : c.resource.short \in Seq(Text)
  BY CollectionFacts DEF Proper
<1>3. p = PlanOf(UNION {Entries(cs[i]) : i \in 1 .. Len(cs)})
  BY <1>1, <1>2, PlanFolded
<1>4. \A e \in p.lookup : \E i \in 1 .. Len(cs) : e \in Entries(cs[i])
  BY <1>3 DEF PlanOf
<1>5. \A i \in 1 .. Len(cs) : \A e \in Entries(cs[i]) : e.name = cs[i].name
  BY DEF Entries
<1> DEFINE e == CHOOSE f \in p.lookup : f.key = normalizeTypeKey(type)
<1>6. e \in p.lookup
  BY DEF Known
<1>7. Resolved(p, type) = e.name
  BY DEF Resolved
<1> HIDE DEF e
<1>8. PICK i \in 1 .. Len(cs) : e.name = cs[i].name
  BY <1>4, <1>5, <1>6
<1>9. cs[i] \in ToSet(cs)
  BY <1>1 DEF ToSet
<1> QED  BY <1>7, <1>8, <1>9

\* The targets of an accepted plan can be saved.
LEMMA TargetsSound ==
  ASSUME NEW rs, Distinguished(rs), NEW full \in BOOLEAN, NEW cs, NEW h, OnePerResource(cs, rs, full, h),
         ValidCollections(cs), NEW p, p = NewCollectionPlan(cs), NEW types \in Seq(Text),
         \A i \in DOMAIN types : Known(p, types[i]),
         NEW ts, ts = TargetsForTypes(cs, p, types)
  PROVE  SoundTargets(ts, cs)
<1> DEFINE C == ToSet(cs)
           made == {Target(c) : c \in C}
           of == [t \in ToSet(types) |-> Target(CHOOSE c \in C : c.name = Resolved(p, t))]
           q == [i \in DOMAIN types |-> of[types[i]]]
           all == [i \in DOMAIN cs |-> Target(cs[i])]
<1>1. cs \in Seq(C) /\ DOMAIN cs = 1 .. Len(cs) /\ cs # <<>> /\ C = {cs[i] : i \in DOMAIN cs}
  BY DEF OnePerResource, ValidCollections, ToSet
<1>2. \A c, d \in C : c.name = d.name => c = d
  BY CollectionFacts
<1>3. \A i, k \in DOMAIN cs : cs[i].name = cs[k].name => i = k
  BY DEF OnePerResource
<1>4. \A t \in made : /\ <<>> \notin {t.name, t.version, t.plural}
                      /\ t.fetch \in {"full", "metadata"} /\ t.clusterScoped \in BOOLEAN
  BY TargetOf
<1>5. \A t, u \in made : t.name = u.name => t = u
  BY <1>2 DEF Target
<1>6. CASE types = <<>>
  <2>1. ts = all
    BY <1>6 DEF TargetsForTypes
  <2>2. all \in Seq(ToSet(all)) /\ Len(all) = Len(cs)
    BY <1>1, FunctionSeq
  <2>3. ToSet(all) \subseteq made /\ DOMAIN all = DOMAIN cs
    BY <1>1 DEF ToSet
  <2>4. \A i, k \in DOMAIN all : all[i].name = all[k].name => i = k
    BY <1>3 DEF Target
  <2>5. all # <<>>
    BY <1>1, <2>2
  <2> HIDE DEF all, made
  <2> QED  BY <1>4, <2>1, <2>2, <2>3, <2>4, <2>5 DEF SoundTargets, made
<1>7. CASE types # <<>>
  <2>1. DOMAIN types = 1 .. Len(types) /\ Len(types) \in Nat /\ ToSet(types) = {types[i] : i \in DOMAIN types}
    BY LenProperties DEF ToSet
  <2>2. q = [i \in DOMAIN types |-> Target(CHOOSE c \in C : c.name = Resolved(p, types[i]))]
    BY <2>1
  <2>3. ts = Distinct(q)
    <3> DEFINE r == [i \in DOMAIN types |-> Target(CHOOSE c \in C : c.name = Resolved(p, types[i]))]
    <3>1. ts = Distinct(r)
      BY <1>7 DEF TargetsForTypes
    <3> HIDE DEF q, r
    <3>2. q = r
      BY <2>2 DEF r
    <3> QED  BY <3>1, <3>2
  <2>4. \A i \in DOMAIN types : q[i] \in made
    <3> SUFFICES ASSUME NEW i \in DOMAIN types PROVE q[i] \in made
      OBVIOUS
    <3>1. \E c \in C : c.name = Resolved(p, types[i])
      BY TypeResolves
    <3>2. q[i] = Target(CHOOSE c \in C : c.name = Resolved(p, types[i]))
      BY <2>1
    <3> QED  BY <3>1, <3>2
  <2>5. q \in Seq(ToSet(q))
    BY FunctionSeq
  <2>6. q # <<>>
    BY <1>7, <2>1
  <2>7. ToSet(q) \subseteq made /\ ToSet(q) # {}
    <3>1. DOMAIN q = DOMAIN types /\ 1 \in DOMAIN types
      BY <1>7, <2>1
    <3> HIDE DEF q, made
    <3> QED  BY <2>4, <3>1 DEF ToSet
  <2> HIDE DEF q
  <2>8. /\ ts \in Seq(ToSet(ts)) /\ DOMAIN ts = 1 .. Len(ts)
        /\ ToSet(ts) = ToSet(q)
        /\ \A i, k \in DOMAIN ts : ts[i] = ts[k] => i = k
    BY <2>3, <2>5, DistinctOf
  <2>9. \A i \in DOMAIN ts : ts[i] \in made
    BY <2>7, <2>8 DEF ToSet
  <2>10. ts # <<>>
    BY <2>7, <2>8 DEF ToSet
  <2>11. \A i, k \in DOMAIN ts : ts[i].name = ts[k].name => i = k
    BY <1>5, <2>8, <2>9
  <2>12. ToSet(ts) \subseteq made
    BY <2>7, <2>8
  <2> HIDE DEF made
  <2> QED  BY <1>4, <2>8, <2>10, <2>11, <2>12 DEF SoundTargets, made
<1> QED  BY <1>6, <1>7

\* Sound targets and namespaces make a checkpoint that ValidateResume accepts.
LEMMA CheckpointResumes ==
  ASSUME NEW cs, NEW ts, SoundTargets(ts, cs), NEW ns, SoundNamespaces(ns)
  PROVE  ValidateResume(CreateCheckpoint(ts, ns))
<1> DEFINE c == CreateCheckpoint(ts, ns)
<1>1. c.targets = ts /\ c.namespaces = ns
  BY DEF CreateCheckpoint
<1>2. DOMAIN ts = 1 .. Len(ts) /\ Len(ts) \in Nat /\ DOMAIN ns = 1 .. Len(ns) /\ Len(ns) \in Nat
  BY LenProperties DEF SoundTargets, SoundNamespaces
<1>3. \A i \in 1 .. Len(ts) : ts[i].clusterScoped \in BOOLEAN
  BY <1>2 DEF SoundTargets, ToSet
<1>4. c.remaining = Cardinality(Jobs(c))
  BY <1>3, JobsCounted DEF SoundTargets, SoundNamespaces
<1> HIDE DEF c
<1>5. ASSUME NEW j \in Jobs(c), NEW k \in Jobs(c), JobKey(c, j) = JobKey(c, k)
      PROVE  j = k
  <2>1. /\ j \in (1 .. Len(ts)) \X (0 .. Len(ns)) /\ k \in (1 .. Len(ts)) \X (0 .. Len(ns))
        /\ ts[j[1]].clusterScoped <=> j[2] = 0
        /\ ts[k[1]].clusterScoped <=> k[2] = 0
    BY <1>1 DEF Jobs
  <2>2. ts[j[1]].name = ts[k[1]].name
    BY <1>1, <1>5 DEF JobKey
  <2>3. j[1] = k[1]
    BY <1>2, <2>1, <2>2 DEF SoundTargets
  <2>4. j[2] = 0 <=> k[2] = 0
    BY <2>1, <2>3
  <2>5. CASE j[2] # 0
    <3>1. ns[j[2]] = ns[k[2]]
      BY <1>1, <1>5, <2>4, <2>5 DEF JobKey
    <3>2. j[2] \in DOMAIN ns /\ k[2] \in DOMAIN ns
      BY <1>2, <2>1, <2>4, <2>5
    <3>3. j[2] = k[2]
      BY <3>1, <3>2 DEF SoundNamespaces
    <3> QED  BY <2>1, <2>3, <3>3
  <2> QED  BY <2>1, <2>3, <2>4, <2>5
<1>6. ValidateResume(c)
  BY <1>1, <1>4, <1>5 DEF ValidateResume, SoundTargets, SoundNamespaces, IsInjective
<1> QED  BY <1>6 DEF c

(* Namespaces. *)

\* The elements of a set, as SetToSeq orders them.
LEMMA SetInOrder ==
  ASSUME NEW S, IsFiniteSet(S)
  PROVE  SetToSeq(S) \in Seq(S) /\ ToSet(SetToSeq(S)) \subseteq S
<1> DEFINE n == Cardinality(S)
           D == 1 .. n
<1>1. n \in Nat /\ ExistsBijection(D, S)
  BY FS_CardinalityType
<1>2. PICK f : f \in Bijection(D, S)
  BY <1>1 DEF ExistsBijection
<1>3. f \in [D -> S] /\ IsInjective(f)
  BY <1>2 DEF Bijection, Injection, IsInjective
<1>4. SetToSeq(S) \in [D -> S]
  BY <1>3 DEF SetToSeq
<1>5. DOMAIN SetToSeq(S) = D /\ \A i \in D : SetToSeq(S)[i] \in S
  BY <1>4
<1>6. SetToSeq(S) \in Seq(S)
  BY <1>1, <1>4
<1> QED  BY <1>5, <1>6 DEF ToSet

\* Once they are unique and none is unnamed, namespaces can be saved.
LEMMA UniqueSound ==
  ASSUME NEW S, NEW s \in Seq(S), Unnamed \notin ToSet(s), NEW ns, ns = UniqueNamespaces(s)
  PROVE  SoundNamespaces(ns) /\ ToSet(ns) = ToSet(s)
<1>1. ns = Distinct(s)
  BY DEF UniqueNamespaces
<1>2. /\ ns \in Seq(ToSet(ns)) /\ ToSet(ns) = ToSet(s)
      /\ \A i, k \in DOMAIN ns : ns[i] = ns[k] => i = k
  BY <1>1, DistinctOf
<1> QED  BY <1>2 DEF SoundNamespaces

\* The word that stands for no namespace is not the default one.
LEMMA DefaultNamed == "default" # Unnamed
  BY Zenon DEF Unnamed

\* One namespace.
LEMMA OneNamespace ==
  ASSUME NEW c, c # Unnamed, NEW s, s = <<c>>
  PROVE  s \in Seq({c}) /\ Unnamed \notin ToSet(s) /\ ToSet(s) = {c}
<1>1. s \in Seq({c}) /\ DOMAIN s = 1 .. 1 /\ s[1] = c
  OBVIOUS
<1>2. ToSet(s) = {c}
  BY <1>1 DEF ToSet
<1> QED  BY <1>1, <1>2

\* What -n names, or "default".
LEMMA ParsedNamespaces ==
  ASSUME NEW W, NEW parts \in Seq(W), NEW s, s = ParseNamespaces(parts)
  PROVE  /\ s \in Seq(ToSet(s)) /\ Unnamed \notin ToSet(s)
         /\ ToSet(s) \subseteq ToSet(parts) \cup {"default"}
<1> DEFINE K == ToSet(parts) \ {Unnamed}
           named == Those(parts, K)
           one == <<"default">>
<1>1. s = IF named = <<>> THEN one ELSE named
  BY DEF ParseNamespaces
<1> HIDE DEF K
<1>2. (\E h : Thins(named, parts, h)) /\ ToSet(named) = ToSet(parts) \cap K
  BY ThoseOf
<1>3. one \in Seq({"default"}) /\ Unnamed \notin ToSet(one) /\ ToSet(one) = {"default"}
  BY OneNamespace, DefaultNamed
<1> HIDE DEF named, one
<1>4. named \in Seq(ToSet(named)) /\ Unnamed \notin ToSet(named)
  BY <1>2 DEF Thins, K
<1> QED  BY <1>1, <1>2, <1>3, <1>4 DEF K

-----------------------------------------------------------------------------
(* Resources. *)

\* Some of the resources.
LEMMA ThoseDistinguished ==
  ASSUME NEW rs, Distinguished(rs), NEW K, NEW t, t = Those(rs, K)
  PROVE  Distinguished(t) /\ ToSet(t) = ToSet(rs) \cap K
<1>1. rs \in Seq(ToSet(rs))
  BY DEF Distinguished
<1>2. (\E h : Thins(t, rs, h)) /\ ToSet(t) = ToSet(rs) \cap K
  BY <1>1, ThoseOf
<1>3. PICK h : Thins(t, rs, h)
  BY <1>2
<1>4. \A i \in DOMAIN t : t[i] = rs[h[i]] /\ h[i] \in DOMAIN rs
  BY <1>3 DEF Thins
<1>5. ASSUME NEW i \in DOMAIN t, NEW k \in DOMAIN t,
             t[i].group = t[k].group, t[i].plural = t[k].plural
      PROVE  i = k
  <2>1. h[i] = h[k]
    BY <1>4, <1>5 DEF Distinguished
  <2> QED  BY <1>3, <2>1 DEF Thins
<1>6. t \in Seq(ToSet(t)) /\ \A r \in ToSet(t) : Proper(r)
  BY <1>2, <1>3 DEF Distinguished, Thins
<1> QED  BY <1>2, <1>5, <1>6 DEF Distinguished

\* What discovery returns.
Discovered(fs, listed) ==
  /\ Distinguished(fs)
  /\ \A r \in ToSet(fs) : /\ (r.custom <=> listed /\ r.crd)
                          /\ [r EXCEPT !.custom = FALSE] \in ToSet(Catalogue)

LEMMA ServedFound ==
  ASSUME NEW K, NEW listed \in BOOLEAN, NEW s, s = Those(Catalogue, K),
         NEW fs, fs = [i \in DOMAIN s |-> [s[i] EXCEPT !.custom = listed /\ s[i].crd]]
  PROVE  Discovered(fs, listed)
<1>1. /\ Catalogue \in Seq(Resource)
      /\ \A i, k \in DOMAIN Catalogue :
           i # k => \/ Catalogue[i].group # Catalogue[k].group
                    \/ Catalogue[i].plural # Catalogue[k].plural
  BY CatalogueAssumption
<1>2. PICK h : Thins(s, Catalogue, h)
  BY <1>1, ThoseOf
<1>3. /\ s \in Seq(ToSet(s)) /\ DOMAIN s = 1 .. Len(s)
      /\ \A i \in DOMAIN s : s[i] = Catalogue[h[i]] /\ h[i] \in DOMAIN Catalogue
  BY <1>2 DEF Thins
<1>4. ASSUME NEW i \in DOMAIN s
      PROVE  /\ s[i] \in Resource /\ s[i] \in ToSet(Catalogue)
             /\ "_" \notin ToSet(s[i].group) \cup ToSet(s[i].plural) /\ s[i].group # <<"core">>
  <2>1. s[i] \in ToSet(Catalogue)
    BY <1>3 DEF ToSet
  <2>2. s[i] \in Resource
    BY <1>1, <1>3
  <2> QED  BY <2>1, <2>2, CatalogueAssumption
<1>5. ASSUME NEW i \in DOMAIN s
      PROVE  /\ fs[i].group = s[i].group /\ fs[i].plural = s[i].plural
             /\ Proper(fs[i]) /\ (fs[i].custom <=> listed /\ fs[i].crd)
             /\ [fs[i] EXCEPT !.custom = FALSE] = s[i]
  <2> DEFINE r == s[i]
             q == [r EXCEPT !.custom = listed /\ r.crd]
  <2>1. fs[i] = q
    OBVIOUS
  <2>2. r \in Resource
    BY <1>4
  <2> HIDE DEF r
  <2>3. /\ q.group = r.group /\ q.plural = r.plural /\ q.version = r.version /\ q.kind = r.kind
        /\ q.short = r.short /\ q.namespaced = r.namespaced /\ q.hint = r.hint /\ q.crd = r.crd
        /\ q.custom = (listed /\ r.crd)
    BY <2>2 DEF Resource
  <2>4. [q EXCEPT !.custom = FALSE] = r
    BY <2>2 DEF Resource
  <2>5. Proper(q)
    BY <1>4, <2>2, <2>3 DEF Proper, Resource, r
  <2> HIDE DEF q
  <2> QED  BY <2>1, <2>3, <2>4, <2>5 DEF r
<1>6. DOMAIN fs = DOMAIN s /\ fs \in Seq(ToSet(fs))
  BY <1>3, FunctionSeq
<1>7. ASSUME NEW i \in DOMAIN fs, NEW k \in DOMAIN fs,
             fs[i].group = fs[k].group, fs[i].plural = fs[k].plural
      PROVE  i = k
  <2>1. h[i] = h[k]
    BY ONLY <1>1, <1>3, <1>5, <1>6, <1>7
  <2> QED  BY <1>2, <1>6, <2>1, <1>3 DEF Thins
<1>8. ASSUME NEW r \in ToSet(fs)
      PROVE  /\ Proper(r) /\ (r.custom <=> listed /\ r.crd)
             /\ [r EXCEPT !.custom = FALSE] \in ToSet(Catalogue)
  <2>1. PICK i \in DOMAIN fs : r = fs[i]
    BY DEF ToSet
  <2> QED  BY ONLY <1>4, <1>5, <1>6, <2>1
<1> HIDE DEF Discovered
<1> QED  BY <1>6, <1>7, <1>8 DEF Discovered, Distinguished

-----------------------------------------------------------------------------
(* The invariant. *)

Planning == {"select", "namespaces", "save", "saved"}

\* Every resource has a group and plural of its own and is custom exactly when a
\* listed definition makes it.
Found == Discovered(found, crdsListed)

\* What is chosen comes from discovery.
Chosen ==
  /\ Distinguished(chosen) /\ ToSet(chosen) \subseteq ToSet(found)
  /\ stage = "discover" => chosen = <<>>

\* Past the confirmation nothing custom is left without consent.
Consented ==
  request.types = <<>> /\ ~request.accept /\ answer # "yes" =>
    \/ stage \in {"discover", "filter", "confirm", "refused"}
    \/ \A r \in ToSet(chosen) : ~r.custom

\* The collections and their plan are those of what was chosen.
Built ==
  \/ collections = <<>> /\ stage \notin Planning
  \/ /\ stage \in Planning \cup {"refused"}
     /\ collections = BuildCollections(Collectable(chosen), request.full)
     /\ ValidCollections(collections)
     /\ plan = NewCollectionPlan(collections)

\* The targets can be saved.
Selected ==
  \/ targets = <<>> /\ stage \notin {"namespaces", "save", "saved"}
  \/ stage \in {"namespaces", "save", "saved", "refused"} /\ SoundTargets(targets, collections)

\* So can the namespaces.
Named == stage \in {"save", "saved"} => SoundNamespaces(namespaces)

\* The checkpoint is the one made of both.
Saved == stage = "saved" => checkpoint = CreateCheckpoint(targets, namespaces)

Inv == /\ TypeOK /\ Found /\ Chosen /\ Consented
       /\ Built /\ Selected /\ Named /\ Saved

LEMMA EmptyDistinguished ==
  ASSUME NEW e, e = <<>>
  PROVE  Distinguished(e) /\ ToSet(e) = {}
<1>1. ToSet(e) = {} /\ e \in Seq({}) /\ DOMAIN e = {}
  BY DEF ToSet
<1> QED  BY <1>1 DEF Distinguished

LEMMA Starts == Init => Inv
<1> SUFFICES ASSUME Init PROVE Inv
  OBVIOUS
<1>1. /\ Distinguished(chosen) /\ ToSet(chosen) = {} /\ Distinguished(found) /\ ToSet(found) = {}
      /\ ToSet(collections) = {} /\ ToSet(targets) = {} /\ ToSet(namespaces) = {}
  BY EmptyDistinguished DEF Init
<1>2. TypeOK
  BY <1>1 DEF Init, TypeOK
<1>3. Found /\ Chosen
  BY <1>1 DEF Init, Found, Chosen, Discovered
<1>4. Consented /\ Built /\ Selected /\ Named /\ Saved
  BY DEF Init, Consented, Built, Selected, Named, Saved, Planning
<1> QED  BY <1>2, <1>3, <1>4 DEF Inv

\* Refusing leaves everything else as it was.
LEMMA RefusingKeeps ==
  ASSUME Inv, stage' = "refused",
         UNCHANGED <<request, discovery, selection, planned, namespaces, checkpoint>>
  PROVE  Inv'
<1> USE DEF discovery, selection, planned, Inv
<1>1. TypeOK'
  BY DEF TypeOK
<1>2. Found' /\ Chosen'
  BY DEF Found, Chosen
<1>3. Consented' /\ Built' /\ Selected' /\ Named' /\ Saved'
  BY DEF Consented, Built, Selected, Named, Saved, Planning
<1> QED  BY <1>1, <1>2, <1>3

LEMMA DiscoverKeeps ==
  ASSUME Inv, Discover
  PROVE  Inv'
<1> USE DEF discovery, selection, planned
<1>1. /\ stage = "discover" /\ stage' = "filter" /\ crdsListed' \in BOOLEAN
      /\ UNCHANGED <<request, answer, chosen, collections, plan, targets, namespaces, checkpoint>>
      /\ chosen = <<>> /\ collections = <<>> /\ targets = <<>>
  BY DEF Discover, Inv, Chosen, Built, Selected, Planning
<1>2. PICK failed \in SUBSET {r.group : r \in ToSet(Catalogue)} :
        found' = LET served == Those(Catalogue, {r \in ToSet(Catalogue) : r.group \notin failed})
                 IN [i \in DOMAIN served |->
                       [served[i] EXCEPT !.custom = crdsListed' /\ served[i].crd]]
  BY DEF Discover
<1>3. PICK s : s = Those(Catalogue, {r \in ToSet(Catalogue) : r.group \notin failed})
  OBVIOUS
<1>4. found' = [i \in DOMAIN s |-> [s[i] EXCEPT !.custom = crdsListed' /\ s[i].crd]]
  BY <1>2, <1>3
<1>5. Discovered(found', crdsListed')
  BY <1>1, <1>3, <1>4, ServedFound
<1>6. ToSet(chosen) = {} /\ ToSet(collections) = {} /\ Distinguished(chosen)
  BY <1>1, EmptyDistinguished
<1>7. TypeOK'
  BY <1>1, <1>5, <1>6 DEF TypeOK, Inv, Discovered
<1>8. Found' /\ Chosen'
  BY <1>1, <1>5, <1>6 DEF Found, Chosen
<1>9. Consented' /\ Built' /\ Selected' /\ Named' /\ Saved'
  BY <1>1 DEF Consented, Built, Selected, Named, Saved, Planning
<1> QED  BY <1>7, <1>8, <1>9 DEF Inv

\* Choosing among what discovery found, before anything is built.
LEMMA ChoosingKeeps ==
  ASSUME Inv, stage \in {"filter", "confirm"}, stage' \in {"refused", "confirm", "build"},
         Distinguished(chosen'), ToSet(chosen') \subseteq ToSet(found),
         answer' \in {"none", "yes", "no"}, Consented',
         UNCHANGED <<request, discovery, planned, namespaces, checkpoint>>
  PROVE  Inv'
<1> USE DEF discovery, planned
<1>1. collections = <<>> /\ targets = <<>>
  BY DEF Inv, Built, Selected, Planning
<1>2. ToSet(collections) = {}
  BY <1>1, EmptyDistinguished
<1>3. TypeOK'
  BY <1>2 DEF Inv, TypeOK
<1>4. Found' /\ Chosen'
  BY DEF Inv, Found, Chosen
<1>5. Built' /\ Selected' /\ Named' /\ Saved'
  BY <1>1 DEF Built, Selected, Named, Saved, Planning
<1> QED  BY <1>3, <1>4, <1>5 DEF Inv

LEMMA FilterByScopeKeeps ==
  ASSUME Inv, FilterByScope
  PROVE  Inv'
<1>1. /\ stage = "filter" /\ stage' \in {"refused", "confirm"} /\ chosen' = InScope(request, found)
      /\ UNCHANGED <<request, discovery, answer, planned, namespaces, checkpoint>>
  BY DEF FilterByScope
<1>2. Distinguished(found) /\ answer \in {"none", "yes", "no"}
  BY DEF Inv, Found, Discovered, TypeOK
<1>3. Distinguished(chosen') /\ ToSet(chosen') \subseteq ToSet(found)
  <2>1. CASE Scope(request) = "all"
    BY <1>1, <1>2, <2>1 DEF InScope
  <2>2. CASE Scope(request) # "all"
    <3>1. chosen' = Those(found, {r \in ToSet(found) :
                                    \E e \in Allowlist(request) : matchesAllowlist(r, e)})
      BY <1>1, <2>2 DEF InScope, FilterDiscoveredResources
    <3> QED  BY <1>2, <3>1, ThoseDistinguished
  <2> QED  BY <2>1, <2>2
<1>4. Consented'
  BY <1>1 DEF Consented
<1> QED  BY <1>1, <1>2, <1>3, <1>4, ChoosingKeeps

LEMMA SkipFilterKeeps ==
  ASSUME Inv, SkipFilter
  PROVE  Inv'
<1>1. /\ stage = "filter" /\ stage' = "build" /\ chosen' = found /\ request.types # <<>>
      /\ UNCHANGED <<request, discovery, answer, planned, namespaces, checkpoint>>
  BY DEF SkipFilter
<1>2. Distinguished(found) /\ answer \in {"none", "yes", "no"}
  BY DEF Inv, Found, Discovered, TypeOK
<1>3. Consented'
  BY <1>1 DEF Consented
<1>4. Distinguished(chosen') /\ ToSet(chosen') \subseteq ToSet(found)
  BY <1>1, <1>2
<1> QED  BY <1>1, <1>2, <1>3, <1>4, ChoosingKeeps

\* Leaving custom resources out.
LEMMA WithoutKeeps ==
  ASSUME Inv, stage = "confirm", stage' = "build", answer' \in {"none", "yes", "no"},
         chosen' = WithoutCustom(chosen),
         UNCHANGED <<request, discovery, planned, namespaces, checkpoint>>
  PROVE  Inv'
<1>1. Distinguished(chosen) /\ ToSet(chosen) \subseteq ToSet(found)
  BY DEF Inv, Chosen
<1>2. chosen' = Those(chosen, {r \in ToSet(chosen) : ~r.custom})
  BY DEF WithoutCustom
<1>3. Distinguished(chosen') /\ ToSet(chosen') = ToSet(chosen) \cap {r \in ToSet(chosen) : ~r.custom}
  BY <1>1, <1>2, ThoseDistinguished
<1>4. Consented'
  BY <1>3 DEF Consented
<1> QED  BY <1>1, <1>3, <1>4, ChoosingKeeps

LEMMA NoCRDsToConfirmKeeps ==
  ASSUME Inv, NoCRDsToConfirm
  PROVE  Inv'
<1> DEFINE C == {i \in DOMAIN chosen : chosen[i].custom}
<1>1. /\ stage = "confirm" /\ stage' = "build" /\ ~MustConfirm
      /\ UNCHANGED <<request, discovery, answer, chosen, planned, namespaces, checkpoint>>
  BY DEF NoCRDsToConfirm, selection
<1>2. /\ Distinguished(chosen) /\ ToSet(chosen) \subseteq ToSet(found)
      /\ answer \in {"none", "yes", "no"}
  BY DEF Inv, Chosen, TypeOK
<1>3. ASSUME ~request.accept, NEW r \in ToSet(chosen) PROVE ~r.custom
  <2>1. PICK i \in DOMAIN chosen : r = chosen[i]
    BY DEF ToSet
  <2>2. DOMAIN chosen = 1 .. Len(chosen) /\ Len(chosen) \in Nat
    BY <1>2, LenProperties DEF Distinguished
  <2>3. IsFiniteSet(DOMAIN chosen)
    BY <2>2, IntervalSize
  <2>4. IsFiniteSet(C)
    BY <2>3, FS_Subset
  <2>5. Cardinality(C) \in Nat /\ (Cardinality(C) = 0 <=> C = {})
    BY <2>4, FS_CardinalityType, FS_EmptySet
  <2>6. ~(Cardinality(C) >= 1)
    BY <1>1, <1>3 DEF MustConfirm, CustomCount
  <2> HIDE DEF C
  <2>7. C = {}
    BY <2>5, <2>6
  <2> QED  BY <2>1, <2>7 DEF C
<1>4. Consented'
  BY <1>1, <1>3 DEF Consented
<1> QED  BY <1>1, <1>2, <1>4, ChoosingKeeps

LEMMA PromptForCRDsKeeps ==
  ASSUME Inv, PromptForCRDs
  PROVE  Inv'
<1>1. /\ stage = "confirm" /\ stage' = "build" /\ answer' \in {"yes", "no"}
      /\ chosen' = IF answer' = "yes" THEN chosen ELSE WithoutCustom(chosen)
      /\ UNCHANGED <<request, discovery, planned, namespaces, checkpoint>>
  BY DEF PromptForCRDs
<1>2. Distinguished(chosen) /\ ToSet(chosen) \subseteq ToSet(found)
  BY DEF Inv, Chosen
<1>3. CASE answer' = "yes"
  <2>1. Consented'
    BY <1>3 DEF Consented
  <2>2. chosen' = chosen
    BY <1>1, <1>3
  <2> QED  BY <1>1, <1>2, <2>1, <2>2, ChoosingKeeps
<1>4. CASE answer' # "yes"
  BY <1>1, <1>4, WithoutKeeps
<1> QED  BY <1>3, <1>4

LEMMA SkipCRDsKeeps ==
  ASSUME Inv, SkipCRDs
  PROVE  Inv'
<1>1. answer \in {"none", "yes", "no"}
  BY DEF Inv, TypeOK
<1> QED  BY <1>1, WithoutKeeps DEF SkipCRDs

LEMMA ListOnlyKeeps ==
  ASSUME Inv, ListOnly
  PROVE  Inv'
<1> USE DEF discovery, selection, planned
<1>1. /\ stage = "build" /\ stage' = "listed"
      /\ UNCHANGED <<request, discovery, selection, planned, namespaces, checkpoint>>
  BY DEF ListOnly
<1>2. TypeOK' /\ Found' /\ Chosen'
  BY <1>1 DEF Inv, TypeOK, Found, Chosen
<1>3. Consented' /\ Built' /\ Selected' /\ Named' /\ Saved'
  BY <1>1 DEF Inv, Consented, Built, Selected, Named, Saved, Planning
<1> QED  BY <1>2, <1>3 DEF Inv

\* Exactly the chosen resources but the definitions become collections.
LEMMA CollectionsOf ==
  ASSUME NEW rs, Distinguished(rs), NEW full, NEW cs, cs = BuildCollections(Collectable(rs), full)
  PROVE  /\ Distinguished(Collectable(rs)) /\ ToSet(Collectable(rs)) \subseteq ToSet(rs)
         /\ \E h : OnePerResource(cs, Collectable(rs), full, h)
         /\ \A c \in ToSet(cs) : c.resource \in ToSet(rs)
<1> DEFINE K == {r \in ToSet(rs) : ~IsDefinition(r)}
           ds == Collectable(rs)
<1>1. Distinguished(ds) /\ ToSet(ds) = ToSet(rs) \cap K
  <2>1. ds = Those(rs, K)
    BY DEF Collectable
  <2> HIDE DEF ds, K
  <2> QED  BY <2>1, ThoseDistinguished
<1>2. cs = BuildCollections(ds, full)
  OBVIOUS
<1> HIDE DEF ds, K
<1>3. PICK h : OnePerResource(cs, ds, full, h)
  BY <1>1, <1>2, CollectionsMatch
<1>4. \A c \in ToSet(cs) : c.resource \in ToSet(ds)
  BY <1>1, <1>3, CollectionFacts
<1> QED  BY <1>1, <1>3, <1>4 DEF ds

LEMMA BuildPlanKeeps ==
  ASSUME Inv, BuildPlan
  PROVE  Inv'
<1> DEFINE cs == BuildCollections(Collectable(chosen), request.full)
<1> USE DEF discovery, selection
<1>1. /\ stage = "build"
      /\ IF ValidCollections(cs)
         THEN stage' = "select" /\ collections' = cs /\ plan' = NewCollectionPlan(cs)
         ELSE stage' = "invalid" /\ UNCHANGED <<collections, plan>>
      /\ UNCHANGED <<request, discovery, selection, targets, namespaces, checkpoint>>
  BY DEF BuildPlan
<1>2. collections = <<>> /\ targets = <<>> /\ Distinguished(chosen)
  BY <1>1 DEF Inv, Built, Selected, Planning, Chosen
<1>3. \A c \in ToSet(cs) : c.resource \in ToSet(chosen)
  <2> HIDE DEF cs
  <2>1. cs = BuildCollections(Collectable(chosen), request.full)
    BY DEF cs
  <2> QED  BY <1>2, <2>1, CollectionsOf
<1>4. ToSet(targets) = {}
  BY <1>2, EmptyDistinguished
<1> HIDE DEF cs
<1>5. TypeOK'
  BY <1>1, <1>3, <1>4 DEF Inv, TypeOK
<1>6. Found' /\ Chosen'
  BY <1>1 DEF Inv, Found, Chosen
<1>7. Consented' /\ Selected' /\ Named' /\ Saved'
  BY <1>1, <1>2 DEF Inv, Consented, Selected, Named, Saved
<1>8. Built'
  BY <1>1, <1>2 DEF Built, Planning, cs
<1> QED  BY <1>5, <1>6, <1>7, <1>8 DEF Inv

\* The plan of a collection that was built.
LEMMA PlanBuilt ==
  ASSUME Inv, stage \in Planning \/ collections # <<>>
  PROVE  /\ request \in Request /\ request.full \in BOOLEAN
         /\ Distinguished(Collectable(chosen)) /\ ToSet(Collectable(chosen)) \subseteq ToSet(chosen)
         /\ \E h : OnePerResource(collections, Collectable(chosen), request.full, h)
         /\ ValidCollections(collections) /\ plan = NewCollectionPlan(collections)
<1>1. /\ collections = BuildCollections(Collectable(chosen), request.full)
      /\ ValidCollections(collections) /\ plan = NewCollectionPlan(collections)
  BY DEF Inv, Built
<1>2. request \in Request /\ Distinguished(chosen)
  BY DEF Inv, TypeOK, Chosen
<1>3. request.full \in BOOLEAN
  BY <1>2, RequestAssumption
<1>4. PICK cs, full : cs = collections /\ full = request.full
  OBVIOUS
<1>5. cs = BuildCollections(Collectable(chosen), full)
  BY <1>1, <1>4
<1>6. /\ Distinguished(Collectable(chosen)) /\ ToSet(Collectable(chosen)) \subseteq ToSet(chosen)
      /\ \E h : OnePerResource(cs, Collectable(chosen), full, h)
  BY <1>2, <1>5, CollectionsOf
<1> QED  BY <1>1, <1>2, <1>3, <1>4, <1>6

LEMMA SelectTargetsKeeps ==
  ASSUME Inv, SelectTargets
  PROVE  Inv'
<1> USE DEF discovery, selection
<1>1. /\ stage = "select" /\ stage' = "namespaces"
      /\ \A i \in DOMAIN request.types : Known(plan, request.types[i])
      /\ targets' = TargetsForTypes(collections, plan, request.types)
      /\ UNCHANGED <<request, discovery, selection, collections, plan, namespaces, checkpoint>>
  BY DEF SelectTargets
<1>2. /\ request \in Request /\ request.full \in BOOLEAN
      /\ Distinguished(Collectable(chosen))
      /\ ValidCollections(collections) /\ plan = NewCollectionPlan(collections)
  BY <1>1, PlanBuilt DEF Planning
<1>3. PICK h : OnePerResource(collections, Collectable(chosen), request.full, h)
  BY <1>1, PlanBuilt DEF Planning
<1>4. request.types \in Seq(Text)
  BY <1>2, RequestAssumption
<1>5. SoundTargets(targets', collections)
  BY <1>1, <1>2, <1>3, <1>4, TargetsSound
<1>6. TypeOK'
  BY <1>1, <1>5 DEF Inv, TypeOK, SoundTargets
<1>7. Found' /\ Chosen'
  BY <1>1 DEF Inv, Found, Chosen
<1>8. Consented' /\ Built' /\ Named' /\ Saved'
  BY <1>1 DEF Inv, Consented, Built, Named, Saved, Planning
<1>9. Selected'
  BY <1>1, <1>5 DEF Selected
<1> QED  BY <1>6, <1>7, <1>8, <1>9 DEF Inv

\* Any namespaces that can be saved.
LEMMA NamespacesKeep ==
  ASSUME Inv, stage = "namespaces", stage' = "save", SoundNamespaces(namespaces'),
         ToSet(namespaces') \subseteq Namespace \cup {"default", ContextNamespace}
                                       \cup ToSet(request.namespaces),
         UNCHANGED <<request, discovery, selection, planned, checkpoint>>
  PROVE  Inv'
<1> USE DEF discovery, selection, planned
<1>1. TypeOK'
  BY DEF Inv, TypeOK
<1>2. Found' /\ Chosen'
  BY DEF Inv, Found, Chosen
<1>3. Consented' /\ Built' /\ Selected' /\ Named' /\ Saved'
  BY DEF Inv, Consented, Built, Selected, Named, Saved, Planning
<1> QED  BY <1>1, <1>2, <1>3 DEF Inv

LEMMA ListNamespacesKeeps ==
  ASSUME Inv, ListNamespaces
  PROVE  Inv'
<1>1. PICK ns \in SUBSET Namespace : namespaces' = UniqueNamespaces(SetToSeq(ns))
  BY DEF ListNamespaces
<1>2. IsFiniteSet(ns) /\ Unnamed \notin ns
  BY NamespaceAssumption, FS_Subset
<1>3. PICK s : s = SetToSeq(ns)
  OBVIOUS
<1>4. s \in Seq(ns) /\ ToSet(s) \subseteq ns
  BY <1>2, <1>3, SetInOrder
<1>5. SoundNamespaces(namespaces') /\ ToSet(namespaces') = ToSet(s)
  BY <1>1, <1>2, <1>3, <1>4, UniqueSound
<1>6. ToSet(namespaces') \subseteq Namespace \cup {"default", ContextNamespace}
                                     \cup ToSet(request.namespaces)
  BY <1>4, <1>5
<1>7. /\ stage = "namespaces" /\ stage' = "save"
      /\ UNCHANGED <<request, discovery, selection, planned, checkpoint>>
  BY DEF ListNamespaces
<1> QED  BY <1>5, <1>6, <1>7, NamespacesKeep

LEMMA NamedNamespacesKeeps ==
  ASSUME Inv, NamedNamespaces
  PROVE  Inv'
<1> DEFINE all == Namespace \cup {"default", ContextNamespace} \cup ToSet(request.namespaces)
<1>1. PICK context \in {"default", ContextNamespace} :
        namespaces' = UniqueNamespaces(IF request.namespaces = <<>> THEN <<context>>
                                       ELSE ParseNamespaces(request.namespaces))
  BY DEF NamedNamespaces
<1>2. context # Unnamed
  BY DefaultNamed, NamespaceAssumption
<1>3. request.namespaces \in Seq(Word)
  BY RequestAssumption DEF Inv, TypeOK
<1>4. PICK one, parsed : one = <<context>> /\ parsed = ParseNamespaces(request.namespaces)
  OBVIOUS
<1>5. one \in Seq({context}) /\ Unnamed \notin ToSet(one) /\ ToSet(one) = {context}
  BY <1>2, <1>4, OneNamespace
<1>6. /\ parsed \in Seq(ToSet(parsed)) /\ Unnamed \notin ToSet(parsed)
      /\ ToSet(parsed) \subseteq ToSet(request.namespaces) \cup {"default"}
  BY <1>3, <1>4, ParsedNamespaces
<1>7. SoundNamespaces(namespaces') /\ ToSet(namespaces') \subseteq all
  <2>1. CASE request.namespaces = <<>>
    <3>1. namespaces' = UniqueNamespaces(one)
      BY <1>1, <1>4, <2>1
    <3>2. SoundNamespaces(namespaces') /\ ToSet(namespaces') = ToSet(one)
      BY <1>5, <3>1, UniqueSound
    <3> QED  BY <1>5, <3>2
  <2>2. CASE request.namespaces # <<>>
    <3>1. namespaces' = UniqueNamespaces(parsed)
      BY <1>1, <1>4, <2>2
    <3>2. SoundNamespaces(namespaces') /\ ToSet(namespaces') = ToSet(parsed)
      BY <1>6, <3>1, UniqueSound
    <3> QED  BY <1>6, <3>2
  <2> QED  BY <2>1, <2>2
<1>8. /\ stage = "namespaces" /\ stage' = "save"
      /\ UNCHANGED <<request, discovery, selection, planned, checkpoint>>
  BY DEF NamedNamespaces
<1> QED  BY <1>7, <1>8, NamespacesKeep

LEMMA SavePlanKeeps ==
  ASSUME Inv, SavePlan
  PROVE  Inv'
<1> USE DEF discovery, selection, planned
<1>1. /\ stage = "save" /\ stage' = "saved" /\ checkpoint' = CreateCheckpoint(targets, namespaces)
      /\ UNCHANGED <<request, discovery, selection, planned, namespaces>>
  BY DEF SavePlan
<1>2. TypeOK' /\ Found' /\ Chosen'
  BY <1>1 DEF Inv, TypeOK, Found, Chosen
<1>3. Consented' /\ Built' /\ Selected' /\ Named'
  BY <1>1 DEF Inv, Consented, Built, Selected, Named, Planning
<1>4. Saved'
  BY <1>1 DEF Saved
<1> QED  BY <1>2, <1>3, <1>4 DEF Inv

\* Every step keeps the invariant.
LEMMA StepsKeep == Inv /\ [Next]_vars => Inv'
<1> SUFFICES ASSUME Inv, [Next]_vars PROVE Inv'
  OBVIOUS
<1>1. CASE Next
  <2>1. CASE \/ DiscoverFails \/ BadAllowlist \/ PromptFails \/ UnknownType \/ NamespacesFail
    BY <2>1, RefusingKeeps DEF DiscoverFails, BadAllowlist, PromptFails, UnknownType, NamespacesFail
  <2> QED
    BY <1>1, <2>1, DiscoverKeeps, FilterByScopeKeeps, SkipFilterKeeps, NoCRDsToConfirmKeeps,
       PromptForCRDsKeeps, SkipCRDsKeeps, ListOnlyKeeps, BuildPlanKeeps, SelectTargetsKeeps,
       ListNamespacesKeeps, NamedNamespacesKeeps, SavePlanKeeps DEF Next
<1>2. CASE UNCHANGED vars
  <2> USE DEF discovery, selection, planned, vars
  <2>1. TypeOK' /\ Found' /\ Chosen'
    BY <1>2 DEF Inv, TypeOK, Found, Chosen
  <2>2. Consented' /\ Built' /\ Selected' /\ Named' /\ Saved'
    BY <1>2 DEF Inv, Consented, Built, Selected, Named, Saved
  <2> QED  BY <2>1, <2>2 DEF Inv
<1> QED  BY <1>1, <1>2

LEMMA InvAlways == Spec => []Inv
  BY Starts, StepsKeep, PTL DEF Spec

-----------------------------------------------------------------------------
(* The theorems. *)

\* The variables have their types: what is collected was chosen, what was chosen
\* was discovered, and no namespace comes from nowhere (CollectService.Run).
THEOREM TypeCorrect == Spec => []TypeOK
<1>1. Inv => TypeOK
  BY DEF Inv
<1> QED  BY <1>1, InvAlways, PTL

\* Whatever the cluster serves, every resource that was chosen has exactly one
\* collection, and no name stands for two (BuildCollectionsConfigFromDiscovery).
THEOREM NamesIdentifyAlways == Spec => []NamesIdentify
<1>1. ASSUME Inv PROVE NamesIdentify
  <2> SUFFICES ASSUME collections # <<>>
               PROVE  /\ \A r \in ToSet(Collectable(chosen)) :
                           Cardinality({i \in DOMAIN collections : collections[i].resource = r}) = 1
                      /\ \A i, k \in DOMAIN collections :
                           collections[i].name = collections[k].name => i = k
    BY DEF NamesIdentify
  <2>1. PICK rs : rs = Collectable(chosen)
    OBVIOUS
  <2>2. Distinguished(rs) /\ \E h : OnePerResource(collections, rs, request.full, h)
    BY <1>1, <2>1, PlanBuilt
  <2>3. PICK h : OnePerResource(collections, rs, request.full, h)
    BY <2>2
  <2>4. \A r \in ToSet(rs) :
          Cardinality({i \in DOMAIN collections : collections[i].resource = r}) = 1
    BY <2>2, <2>3, CollectionFacts
  <2>5. \A i, k \in DOMAIN collections : collections[i].name = collections[k].name => i = k
    BY <2>3 DEF OnePerResource
  <2> QED  BY <2>1, <2>4, <2>5
<1> QED  BY <1>1, InvAlways, PTL

\* An alias resolves exactly when one collection carries it, whatever order the
\* collections come in and however many share it (addAlias, NewCollectionPlan).
THEOREM AliasesUniqueAlways == Spec => []AliasesUnique
<1>1. ASSUME Inv PROVE AliasesUnique
  <2> SUFFICES ASSUME stage = "select"
               PROVE  /\ plan.lookup = {[key |-> k, name |-> CHOOSE n \in Carriers(k) : TRUE] :
                                          k \in {j \in Keys : Cardinality(Carriers(j)) = 1}}
                      /\ plan.ambiguous = {j \in Keys : Cardinality(Carriers(j)) > 1}
    BY DEF AliasesUnique
  <2>1. /\ Distinguished(Collectable(chosen)) /\ plan = NewCollectionPlan(collections)
        /\ \E h : OnePerResource(collections, Collectable(chosen), request.full, h)
    BY <1>1, PlanBuilt DEF Planning
  <2> QED  BY <2>1, PlanOfCollections
<1> QED  BY <1>1, InvAlways, PTL

\* The checkpoint of every plan the code accepts passes ValidateResume: its counts
\* agree with its jobs and no two jobs share a key (CreateCheckpoint).
THEOREM SavedPlanResumableAlways == Spec => []SavedPlanResumable
<1>1. ASSUME Inv PROVE SavedPlanResumable
  <2> SUFFICES ASSUME stage = "saved" PROVE ValidateResume(checkpoint)
    BY DEF SavedPlanResumable
  <2>1. /\ SoundTargets(targets, collections) /\ SoundNamespaces(namespaces)
        /\ checkpoint = CreateCheckpoint(targets, namespaces)
    BY <1>1 DEF Inv, Selected, Named, Saved
  <2> QED  BY <2>1, CheckpointResumes
<1> QED  BY <1>1, InvAlways, PTL

\* Once the definitions are known, custom resources are collected only after
\* --accept-crds or a yes (shouldIncludeCRDs, promptForCRDs).
THEOREM CRDsNeedConsentAlways == Spec => []CRDsNeedConsent
<1>1. ASSUME Inv PROVE CRDsNeedConsent
  <2> SUFFICES ASSUME stage = "saved", request.types = <<>>, crdsListed, ~request.accept,
                      answer # "yes", NEW r \in Collected
               PROVE  ~r.crd
    BY DEF CRDsNeedConsent, Unasked
  <2>1. PICK c \in ToSet(collections) : r = c.resource
    BY DEF Collected
  <2>2. r \in ToSet(chosen) /\ ToSet(chosen) \subseteq ToSet(found)
    BY <1>1, <2>1 DEF Inv, TypeOK
  <2>3. ~r.custom
    BY <1>1, <2>2 DEF Inv, Consented
  <2>4. r.custom <=> crdsListed /\ r.crd
    BY <1>1, <2>2 DEF Inv, Found, Discovered
  <2> QED  BY <2>3, <2>4
<1> QED  BY <1>1, InvAlways, PTL

=============================================================================
