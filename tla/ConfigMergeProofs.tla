-------------------------- MODULE ConfigMergeProofs --------------------------
(***************************************************************************)
(* The laws of the merge, for lists of any length over any names.          *)
(***************************************************************************)
EXTENDS ConfigMerge, TLAPS

\* The variables start with their types and keep them (TypeStep).
LEMMA TypeInit == Init => TypeOK
  <1> SUFFICES ASSUME Init PROVE TypeOK
    OBVIOUS
  <1>1. user \in Seq(Entry) /\ embedded \in Seq(Entry)
    BY InputAssumption DEF Init
  <1>2. merged \in Seq(Entry) /\ Len(merged) = 0
    BY DEF Init
  <1>3. FirstList \in Seq(Entry)
    BY <1>1 DEF FirstList
  <1>4. i \in 1..(Len(IF pc = "first" THEN FirstList ELSE SecondList) + 1)
    BY <1>3 DEF Init
  <1>5. seen \in [Name -> 0..Len(merged)] /\ \A n \in Name : seen[n] = 0
    BY <1>2 DEF Init
  <1> QED
    BY <1>1, <1>2, <1>4, <1>5 DEF Init, TypeOK

\* What appending an entry does to the list and the index.
LEMMA AppendFacts ==
  ASSUME TypeOK, NEW e \in Entry, AppendEntry(e)
  PROVE  /\ merged' \in Seq(Entry)
         /\ Len(merged') = Len(merged) + 1
         /\ \A k \in 1..Len(merged) : merged'[k] = merged[k]
         /\ merged'[Len(merged) + 1] = e
         /\ seen' \in [Name -> 0..Len(merged')]
         /\ seen'[e.name] = Len(merged) + 1
         /\ \A n \in Name : n # e.name => seen'[n] = seen[n]
         /\ \A n \in Name : seen[n] # 0 => seen'[n] # 0
         /\ \A n \in Name : seen'[n] # 0 => merged'[seen'[n]].name = n
  <1>1. e.name \in Name
    BY DEF Entry
  <1>2. /\ merged' \in Seq(Entry) /\ Len(merged') = Len(merged) + 1
        /\ \A k \in 1..Len(merged) : merged'[k] = merged[k]
        /\ merged'[Len(merged) + 1] = e
    BY DEF AppendEntry, TypeOK
  <1>3. /\ seen' \in [Name -> 0..Len(merged')]
        /\ seen'[e.name] = Len(merged) + 1
        /\ \A n \in Name : n # e.name => seen'[n] = seen[n]
    <2>1. seen \in [Name -> 0..Len(merged)] /\ Len(merged) \in Nat
      BY DEF TypeOK
    <2> QED
      BY <1>1, <1>2, <2>1 DEF AppendEntry
  <1>4. ASSUME NEW n \in Name, seen'[n] # 0
        PROVE  merged'[seen'[n]].name = n
    <2>1. CASE n = e.name
      BY <2>1, <1>2, <1>3
    <2>2. CASE n # e.name
      <3>1. seen[n] # 0 /\ seen[n] \in 1..Len(merged) /\ merged[seen[n]].name = n
        BY <2>2, <1>3, <1>4 DEF TypeOK
      <3> QED
        BY <2>2, <3>1, <1>2, <1>3
    <2> QED
      BY <2>1, <2>2
  <1>5. \A n \in Name : seen[n] # 0 => seen'[n] # 0
    BY <1>1, <1>3 DEF TypeOK
  <1> QED
    BY <1>2, <1>3, <1>4, <1>5

\* What replacing a type does to the list.
LEMMA OverrideFacts ==
  ASSUME TypeOK, OverrideType
  PROVE  /\ user[i] \in Entry /\ i \in 1..Len(user)
         /\ seen[user[i].name] \in 1..Len(merged)
         /\ merged[seen[user[i].name]].name = user[i].name
         /\ merged' \in Seq(Entry) /\ Len(merged') = Len(merged)
         /\ merged'[seen[user[i].name]] = user[i]
         /\ \A k \in 1..Len(merged) : k # seen[user[i].name] => merged'[k] = merged[k]
         /\ \A k \in 1..Len(merged) : merged'[k].name = merged[k].name
  <1>1. SecondList = user /\ i \in 1..Len(user) /\ user[i] \in Entry
    BY DEF OverrideType, SecondList, TypeOK
  <1>2. user[i].name \in Name /\ seen[user[i].name] # 0
    BY <1>1 DEF Entry, OverrideType
  <1>3. /\ seen[user[i].name] \in 1..Len(merged)
        /\ merged[seen[user[i].name]].name = user[i].name
    BY <1>2 DEF TypeOK
  <1>4. /\ merged' \in Seq(Entry) /\ Len(merged') = Len(merged)
        /\ merged'[seen[user[i].name]] = user[i]
        /\ \A k \in 1..Len(merged) : k # seen[user[i].name] => merged'[k] = merged[k]
    BY <1>1, <1>3 DEF OverrideType, TypeOK
  <1> QED
    BY <1>1, <1>3, <1>4

LEMMA TypeStep == TypeOK /\ [Next]_vars => TypeOK'
  <1> SUFFICES ASSUME TypeOK, [Next]_vars PROVE TypeOK'
    OBVIOUS
  <1>1. CASE TakeFirst
    <2>1. FirstList[i] \in Entry /\ AppendEntry(FirstList[i])
      BY <1>1 DEF TakeFirst, TypeOK, FirstList
    <2> QED
      BY <1>1, <2>1, AppendFacts DEF TakeFirst, TypeOK, FirstList, SecondList
  <1>2. CASE EndFirst
    BY <1>2 DEF EndFirst, TypeOK, FirstList, SecondList
  <1>3. CASE TakeNew
    <2>1. SecondList[i] \in Entry /\ AppendEntry(SecondList[i])
      BY <1>3 DEF TakeNew, TypeOK, SecondList
    <2> QED
      BY <1>3, <2>1, AppendFacts DEF TakeNew, TypeOK, FirstList, SecondList
  <1>4. CASE SkipQuery
    BY <1>4 DEF SkipQuery, TypeOK, FirstList, SecondList
  <1>5. CASE OverrideType
    <2>1. seen' \in [Name -> 0..Len(merged')]
      BY <1>5, OverrideFacts DEF OverrideType, TypeOK
    <2>2. \A n \in Name : seen'[n] # 0 => merged'[seen'[n]].name = n
      BY <1>5, OverrideFacts DEF OverrideType, TypeOK
    <2> QED
      BY <1>5, <2>1, <2>2, OverrideFacts DEF OverrideType, TypeOK, FirstList, SecondList
  <1>6. CASE EndSecond
    BY <1>6 DEF EndSecond, TypeOK, FirstList, SecondList
  <1>7. CASE UNCHANGED vars
    BY <1>7 DEF vars, TypeOK, FirstList, SecondList
  <1> QED
    BY <1>1, <1>2, <1>3, <1>4, <1>5, <1>6, <1>7 DEF Next

\* Which list a step reads, and that no step changes the lists.
LEMMA ListFacts ==
  ASSUME TypeOK
  PROVE  /\ FirstList \in Seq(Entry) /\ SecondList \in Seq(Entry)
         /\ Len(FirstList) \in Nat /\ Len(SecondList) \in Nat /\ Len(merged) \in Nat
         /\ i \in Nat \ {0}
         /\ \A k \in 1..Len(FirstList) : FirstList[k].name \in Name
         /\ \A k \in 1..Len(SecondList) : SecondList[k].name \in Name
         /\ \A k \in 1..Len(merged) : merged[k].name \in Name
         /\ [Next]_vars => FirstList' = FirstList /\ SecondList' = SecondList
  <1>1. FirstList \in Seq(Entry) /\ SecondList \in Seq(Entry)
    BY DEF TypeOK, FirstList, SecondList
  <1>2. [Next]_vars => FirstList' = FirstList /\ SecondList' = SecondList
    BY DEF Next, vars, TakeFirst, EndFirst, TakeNew, SkipQuery, OverrideType, EndSecond,
           FirstList, SecondList
  <1>3. Len(FirstList) \in Nat /\ Len(SecondList) \in Nat /\ Len(merged) \in Nat
    BY <1>1 DEF TypeOK
  <1>4. i \in Nat \ {0}
    BY <1>3 DEF TypeOK
  <1>5. \A e \in Entry : e.name \in Name
    BY DEF Entry
  <1> QED
    BY <1>1, <1>2, <1>3, <1>4, <1>5 DEF TypeOK

\* No step changes what is merged.
LEMMA InputsStay == [Next]_vars => kind' = kind /\ user' = user /\ embedded' = embedded
  BY DEF Next, vars, TakeFirst, EndFirst, TakeNew, SkipQuery, OverrideType, EndSecond

\* An index once recorded stays recorded.
LEMMA SeenStays ==
  ASSUME TypeOK, [Next]_vars
  PROVE  \A n \in Name : seen[n] # 0 => seen'[n] # 0
  <1>1. CASE TakeFirst
    BY <1>1, AppendFacts, ListFacts DEF TakeFirst, TypeOK
  <1>2. CASE TakeNew
    BY <1>2, AppendFacts, ListFacts DEF TakeNew, TypeOK
  <1> QED
    BY <1>1, <1>2 DEF Next, vars, EndFirst, SkipQuery, OverrideType, EndSecond

LEMMA CoveredStep == TypeOK /\ Covered /\ [Next]_vars => Covered'
  <1> SUFFICES ASSUME TypeOK, Covered, [Next]_vars PROVE Covered'
    OBVIOUS
  <1>a. /\ FirstList' = FirstList /\ SecondList' = SecondList
        /\ Len(FirstList) \in Nat /\ Len(SecondList) \in Nat /\ i \in Nat \ {0}
        /\ \A k \in 1..Len(FirstList) : FirstList[k].name \in Name
        /\ \A k \in 1..Len(SecondList) : SecondList[k].name \in Name
        /\ \A k \in 1..Len(merged) : merged[k].name \in Name
    BY ListFacts
  <1>b. /\ \A k \in 1..Len(FirstList) :
               (pc = "first" => k < i) => seen'[FirstList[k].name] # 0
        /\ \A k \in 1..Len(SecondList) :
               pc # "first" /\ k < i => seen'[SecondList[k].name] # 0
        /\ \A k \in 1..Len(merged) : seen'[merged[k].name] # 0
    BY <1>a, SeenStays DEF Covered
  <1>c. ASSUME NEW e \in Entry, AppendEntry(e)
        PROVE  /\ \A k \in 1..Len(merged') : seen'[merged'[k].name] # 0
               /\ seen'[e.name] # 0
    <2>1. Len(merged) \in Nat
      BY ListFacts
    <2> QED
      BY <1>b, <1>c, <2>1, AppendFacts
  <1>1. CASE TakeFirst
    <2>1. FirstList[i] \in Entry /\ AppendEntry(FirstList[i])
      BY <1>1, ListFacts DEF TakeFirst
    <2> QED
      BY <1>1, <1>a, <1>b, <1>c, <2>1 DEF TakeFirst, Covered
  <1>2. CASE EndFirst
    BY <1>2, <1>a, <1>b DEF EndFirst, Covered
  <1>3. CASE TakeNew
    <2>1. SecondList[i] \in Entry /\ AppendEntry(SecondList[i])
      BY <1>3, ListFacts DEF TakeNew
    <2> QED
      BY <1>3, <1>a, <1>b, <1>c, <2>1 DEF TakeNew, Covered
  <1>4. CASE SkipQuery
    BY <1>4, <1>a, <1>b DEF SkipQuery, Covered
  <1>5. CASE OverrideType
    <2>1. Len(merged') = Len(merged) /\ \A k \in 1..Len(merged) : merged'[k].name = merged[k].name
      BY <1>5, OverrideFacts
    <2>2. SecondList = user /\ seen[user[i].name] # 0
      BY <1>5 DEF OverrideType, SecondList
    <2> QED
      BY <1>5, <1>a, <1>b, <2>1, <2>2 DEF OverrideType, Covered
  <1>6. CASE EndSecond
    <2>1. i = Len(SecondList) + 1
      BY <1>6, <1>a DEF EndSecond, TypeOK
    <2> QED
      BY <1>6, <1>a, <1>b, <2>1 DEF EndSecond, Covered
  <1>7. CASE UNCHANGED vars
    BY <1>7, <1>a, <1>b DEF vars, Covered
  <1> QED
    BY <1>1, <1>2, <1>3, <1>4, <1>5, <1>6, <1>7 DEF Next

LEMMA CopiedStep == TypeOK /\ Covered /\ Copied /\ [Next]_vars => Copied'
  <1> SUFFICES ASSUME TypeOK, Covered, Copied, [Next]_vars PROVE Copied'
    OBVIOUS
  <1>a. /\ FirstList' = FirstList /\ Len(FirstList) \in Nat /\ Len(merged) \in Nat
        /\ i \in Nat \ {0} /\ Len(user) \in Nat /\ user \in Seq(Entry)
    BY ListFacts DEF TypeOK
  <1>1. CASE TakeFirst
    <2>1. FirstList[i] \in Entry /\ AppendEntry(FirstList[i]) /\ i \in 1..Len(FirstList)
      BY <1>1, ListFacts DEF TakeFirst
    <2> QED
      BY <1>1, <1>a, <2>1, AppendFacts DEF TakeFirst, Copied
  <1>2. CASE EndFirst
    <2>1. i = Len(FirstList) + 1
      BY <1>2, <1>a DEF EndFirst, TypeOK
    <2> QED
      BY <1>2, <1>a, <2>1 DEF EndFirst, FirstList, Copied
  <1>3. CASE TakeNew
    <2>1. /\ SecondList[i] \in Entry /\ AppendEntry(SecondList[i])
          /\ pc = "second" /\ pc' = "second" /\ user' = user /\ kind' = kind
          /\ seen[SecondList[i].name] = 0
      BY <1>3, ListFacts DEF TakeNew
    <2>2. kind = "queries" => \A j \in 1..Len(user) : user[j].name # SecondList[i].name
      BY <2>1 DEF Covered, FirstList
    <2>3. SUFFICES ASSUME kind = "queries"
          PROVE  /\ Len(merged') >= Len(user)
                 /\ \A k \in 1..Len(user) : merged'[k] = user[k]
                 /\ \A k \in (Len(user) + 1)..Len(merged') :
                        \A j \in 1..Len(user) : user[j].name # merged'[k].name
      BY <2>1 DEF Copied
    <2>4. /\ Len(merged) >= Len(user)
          /\ \A k \in 1..Len(user) : merged[k] = user[k]
          /\ \A k \in (Len(user) + 1)..Len(merged) :
                 \A j \in 1..Len(user) : user[j].name # merged[k].name
      BY <2>1, <2>3 DEF Copied
    <2>5. /\ Len(merged') = Len(merged) + 1 /\ merged'[Len(merged) + 1] = SecondList[i]
          /\ \A k \in 1..Len(merged) : merged'[k] = merged[k]
      BY <2>1, AppendFacts
    <2>6. \A k \in 1..Len(user) : merged'[k] = user[k]
      BY <1>a, <2>4, <2>5
    <2>7. ASSUME NEW k \in (Len(user) + 1)..Len(merged'), NEW j \in 1..Len(user)
          PROVE  user[j].name # merged'[k].name
      <3>1. CASE k = Len(merged) + 1
        BY <2>2, <2>3, <2>5, <3>1
      <3>2. CASE k # Len(merged) + 1
        <4>1. k \in (Len(user) + 1)..Len(merged) /\ k \in 1..Len(merged)
          BY <1>a, <2>5, <2>7, <3>2
        <4> QED
          BY <2>4, <2>5, <4>1
      <3> QED
        BY <3>1, <3>2
    <2> QED
      BY <1>a, <2>4, <2>5, <2>6, <2>7
  <1>4. CASE SkipQuery
    BY <1>4 DEF SkipQuery, Copied
  <1>5. CASE OverrideType
    BY <1>5 DEF OverrideType, Copied
  <1>6. CASE EndSecond
    BY <1>6 DEF EndSecond, Copied
  <1>7. CASE UNCHANGED vars
    BY <1>7, <1>a DEF vars, Copied
  <1> QED
    BY <1>1, <1>2, <1>3, <1>4, <1>5, <1>6, <1>7 DEF Next

LEMMA NoRepeatStep == TypeOK /\ Covered /\ Copied /\ NoRepeat /\ [Next]_vars => NoRepeat'
  <1> SUFFICES ASSUME TypeOK, Covered, Copied, NoRepeat, [Next]_vars PROVE NoRepeat'
    OBVIOUS
  <1> USE DEF NoRepeat, Distinct
  <1>a. FirstList' = FirstList /\ Len(FirstList) \in Nat /\ Len(merged) \in Nat /\ i \in Nat
    BY ListFacts
  <1>1. CASE TakeFirst
    BY <1>1 DEF TakeFirst
  <1>2. CASE EndFirst
    <2>1. i = Len(FirstList) + 1
      BY <1>2, <1>a DEF EndFirst, TypeOK
    <2>2. Len(merged) = Len(FirstList) /\ \A k \in 1..Len(merged) : merged[k] = FirstList[k]
      BY <1>2, <1>a, <2>1 DEF EndFirst, Copied
    <2> QED
      BY <1>2, <1>a, <2>2 DEF EndFirst
  <1>3. CASE TakeNew
    <2>1. SecondList[i] \in Entry /\ AppendEntry(SecondList[i])
      BY <1>3, ListFacts DEF TakeNew
    <2>2. \A k \in 1..Len(merged) : merged[k].name # SecondList[i].name
      BY <1>3 DEF TakeNew, Covered
    <2>3. /\ Len(merged') = Len(merged) + 1 /\ merged'[Len(merged) + 1] = SecondList[i]
          /\ \A k \in 1..Len(merged) : merged'[k] = merged[k]
      BY <2>1, AppendFacts
    <2> QED
      BY <1>3, <1>a, <2>2, <2>3 DEF TakeNew
  <1>4. CASE SkipQuery
    BY <1>4, <1>a DEF SkipQuery
  <1>5. CASE OverrideType
    BY <1>5, <1>a, OverrideFacts DEF OverrideType
  <1>6. CASE EndSecond
    BY <1>6, <1>a DEF EndSecond
  <1>7. CASE UNCHANGED vars
    BY <1>7, <1>a DEF vars
  <1> QED
    BY <1>1, <1>2, <1>3, <1>4, <1>5, <1>6, <1>7 DEF Next

LEMMA ReplacedStep ==
  TypeOK /\ Covered /\ Copied /\ NoRepeat /\ Replaced /\ [Next]_vars => Replaced'
  <1> SUFFICES ASSUME TypeOK, Covered, Copied, NoRepeat, Replaced, [Next]_vars
               PROVE  Replaced'
    OBVIOUS
  <1> SUFFICES ASSUME kind = "types", pc' # "first", Distinct(embedded),
                      NEW k \in 1..Len(merged'),
                      \E j \in 1..(i' - 1) : user'[j].name = merged'[k].name
               PROVE  \E j \in 1..(i' - 1) :
                          /\ user'[j] = merged'[k]
                          /\ \A l \in (j + 1)..(i' - 1) : user'[l].name # merged'[k].name
    <2>1. kind' = kind /\ embedded' = embedded
      BY InputsStay
    <2> QED
      BY <2>1 DEF Replaced, Distinct
  <1>a. Len(merged) \in Nat /\ i \in Nat \ {0} /\ Len(user) \in Nat
    BY ListFacts DEF TypeOK
  <1>0. pc # "first" => \A m \in 1..Len(merged) :
            (\E j \in 1..(i - 1) : user[j].name = merged[m].name) =>
                \E j \in 1..(i - 1) :
                    /\ user[j] = merged[m]
                    /\ \A l \in (j + 1)..(i - 1) : user[l].name # merged[m].name
    BY DEF Replaced
  <1>1. CASE TakeFirst
    BY <1>1 DEF TakeFirst
  <1>2. CASE EndFirst
    BY <1>2 DEF EndFirst
  <1>3. CASE TakeNew
    <2>1. user[i] \in Entry /\ AppendEntry(user[i]) /\ i \in 1..Len(user) /\ user' = user
          /\ i' = i + 1 /\ pc # "first" /\ seen[user[i].name] = 0
      BY <1>3, ListFacts DEF TakeNew, SecondList
    <2>2. CASE k = Len(merged) + 1
      BY <1>a, <2>1, <2>2, AppendFacts
    <2>3. CASE k \in 1..Len(merged)
      <3>1. merged'[k] = merged[k] /\ merged[k].name # user[i].name
        BY <2>1, <2>3, AppendFacts DEF Covered
      <3>2. \E j \in 1..(i - 1) : user[j].name = merged[k].name
        BY <1>a, <2>1, <3>1
      <3>3. PICK j \in 1..(i - 1) :
                /\ user[j] = merged[k]
                /\ \A l \in (j + 1)..(i - 1) : user[l].name # merged[k].name
        BY <1>0, <2>1, <2>3, <3>2
      <3> QED
        BY <1>a, <2>1, <3>1, <3>3
    <2> QED
      BY <1>a, <2>1, <2>2, <2>3, AppendFacts
  <1>4. CASE SkipQuery
    BY <1>4 DEF SkipQuery
  <1>5. CASE OverrideType
    <2>1. i' = i + 1 /\ user' = user /\ pc # "first"
      BY <1>5 DEF OverrideType
    <2>2. k \in 1..Len(merged)
      BY <1>5, OverrideFacts
    <2>3. CASE k = seen[user[i].name]
      BY <1>5, <1>a, <2>1, <2>3, OverrideFacts
    <2>4. CASE k # seen[user[i].name]
      <3>1. merged'[k] = merged[k]
        BY <1>5, <2>2, <2>4, OverrideFacts
      <3>2. Distinct(merged)
        BY <2>1 DEF NoRepeat, FirstList
      <3>3. merged[k].name # user[i].name
        BY <1>5, <2>2, <2>4, <3>2, OverrideFacts DEF Distinct
      <3>4. \E j \in 1..(i - 1) : user[j].name = merged[k].name
        BY <1>a, <2>1, <3>1, <3>3
      <3>5. PICK j \in 1..(i - 1) :
                /\ user[j] = merged[k]
                /\ \A l \in (j + 1)..(i - 1) : user[l].name # merged[k].name
        BY <1>0, <2>1, <2>2, <3>4
      <3>6. ASSUME NEW l \in (j + 1)..i PROVE user[l].name # merged[k].name
        <4>1. CASE l = i
          BY <3>3, <4>1
        <4>2. CASE l # i
          <5>1. l \in (j + 1)..(i - 1)
            BY <1>a, <4>2
          <5> QED
            BY <3>5, <5>1
        <4> QED
          BY <4>1, <4>2
      <3>7. i' - 1 = i /\ j \in 1..i /\ user' = user
        BY <1>a, <2>1
      <3>8. user[j] = merged'[k] /\ \A l \in (j + 1)..i : user[l].name # merged'[k].name
        BY <3>1, <3>5, <3>6
      <3> QED
        BY <3>7, <3>8
    <2> QED
      BY <2>3, <2>4
  <1>6. CASE EndSecond
    BY <1>0, <1>6 DEF EndSecond
  <1>7. CASE UNCHANGED vars
    BY <1>0, <1>7 DEF vars
  <1> QED
    BY <1>1, <1>2, <1>3, <1>4, <1>5, <1>6, <1>7 DEF Next

-----------------------------------------------------------------------------
\* The invariant holds whatever lists are merged.
THEOREM MergeInvariance == Spec => []IndInv
  <1>1. Init => IndInv
    <2> SUFFICES ASSUME Init PROVE IndInv
      OBVIOUS
    <2>1. TypeOK
      BY TypeInit
    <2> QED
      BY <2>1, ListFacts DEF Init, IndInv, Covered, Copied, NoRepeat, Replaced
  <1>2. IndInv /\ [Next]_vars => IndInv'
    BY TypeStep, CoveredStep, CopiedStep, NoRepeatStep, ReplacedStep DEF IndInv
  <1> QED
    BY <1>1, <1>2, PTL DEF Spec

\* No name of either list is lost (config/merge.go:53 and :105).
THEOREM NothingLostAlways == Spec => []NothingLost
  <1>1. IndInv => NothingLost
    <2> SUFFICES ASSUME IndInv, pc = "done" PROVE NothingLost
      BY DEF NothingLost
    <2>1. TypeOK /\ Covered
      BY DEF IndInv
    <2>2. /\ \A k \in 1..Len(FirstList) : seen[FirstList[k].name] # 0
          /\ \A k \in 1..Len(SecondList) : seen[SecondList[k].name] # 0
      BY <2>1, ListFacts DEF Covered
    <2>3. \A n \in Name : seen[n] # 0 => \E l \in 1..Len(merged) : merged[l].name = n
      BY <2>1 DEF TypeOK
    <2>4. /\ \A k \in 1..Len(FirstList) :
                 \E l \in 1..Len(merged) : merged[l].name = FirstList[k].name
          /\ \A k \in 1..Len(SecondList) :
                 \E l \in 1..Len(merged) : merged[l].name = SecondList[k].name
      BY <2>1, <2>2, <2>3, ListFacts
    <2> QED
      BY <2>1, <2>4 DEF NothingLost, FirstList, SecondList, TypeOK
  <1> QED
    BY <1>1, MergeInvariance, PTL

\* The user's entry wins under every name the user gave (config/merge.go:107).
THEOREM UserWinsAlways == Spec => []UserWins
  <1>1. IndInv => UserWins
    <2> SUFFICES ASSUME IndInv, pc = "done", kind = "types" => Distinct(embedded),
                        NEW k \in 1..Len(merged),
                        \E j \in 1..Len(user) : user[j].name = merged[k].name
                 PROVE  \E j \in 1..Len(user) :
                            /\ user[j] = merged[k]
                            /\ kind = "types" =>
                                   \A l \in (j + 1)..Len(user) : user[l].name # merged[k].name
      BY DEF UserWins
    <2>1. TypeOK /\ Covered /\ Copied /\ Replaced
      BY DEF IndInv
    <2>2. CASE kind = "queries"
      <3>1. k \in 1..Len(user) /\ merged[k] = user[k]
        BY <2>1, <2>2, ListFacts DEF Copied, FirstList
      <3> QED
        BY <2>2, <3>1
    <2>3. CASE kind = "types"
      <3>1. i = Len(user) + 1 /\ Len(user) \in Nat
        BY <2>1, <2>3 DEF Covered, SecondList, TypeOK
      <3> QED
        BY <2>1, <2>3, <3>1 DEF Replaced
    <2> QED
      BY <2>1, <2>2, <2>3 DEF TypeOK
  <1> QED
    BY <1>1, MergeInvariance, PTL

\* The merge adds no repetition (config/merge.go:55 and :108).
THEOREM MergedDistinctAlways == Spec => []MergedDistinct
  <1>1. IndInv => MergedDistinct
    BY DEF IndInv, NoRepeat, MergedDistinct
  <1> QED
    BY <1>1, MergeInvariance, PTL
=============================================================================
