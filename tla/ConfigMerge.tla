----------------------------- MODULE ConfigMerge -----------------------------
(***************************************************************************)
(* config/merge.go: the operator's queries or types are merged with those  *)
(* built into the program.  One action per turn of a loop.  An entry is a  *)
(* name and a body; the queries' map of booleans and the types' map of     *)
(* indices are one function here, 0 where a name is absent.                *)
(***************************************************************************)
EXTENDS Integers, Sequences

CONSTANTS
    Name,        \* names of queries or types
    Body,        \* everything else in an entry
    UserFiles,   \* the lists an operator may provide
    Embedded     \* the lists that may be built in

Entry == [name : Name, body : Body]

ASSUME InputAssumption == UserFiles \subseteq Seq(Entry) /\ Embedded \subseteq Seq(Entry)

VARIABLES
    kind,      \* "queries" for MergeQueries, "types" for mergeByName
    user, embedded,
    pc,        \* the loop being run
    i,         \* its next index
    seen, merged

vars == <<kind, user, embedded, pc, i, seen, merged>>

\* MergeQueries goes through the user's list first, mergeByName through the embedded one.
FirstList == IF kind = "queries" THEN user ELSE embedded
SecondList == IF kind = "queries" THEN embedded ELSE user

Init ==
    /\ kind \in {"queries", "types"}
    /\ user \in UserFiles
    /\ embedded \in Embedded
    /\ pc = "first" /\ i = 1
    /\ seen = [n \in Name |-> 0]
    /\ merged = << >>

AppendEntry(entry) ==
    /\ merged' = Append(merged, entry)
    /\ seen' = [seen EXCEPT ![entry.name] = Len(merged) + 1]

\* The first loop takes every entry, one with a repeated name too.
TakeFirst ==
    /\ pc = "first" /\ i <= Len(FirstList)
    /\ AppendEntry(FirstList[i])
    /\ i' = i + 1
    /\ UNCHANGED <<kind, user, embedded, pc>>

EndFirst ==
    /\ pc = "first" /\ i > Len(FirstList)
    /\ pc' = "second" /\ i' = 1
    /\ UNCHANGED <<kind, user, embedded, seen, merged>>

\* Mutant: what the second loop adds is not recorded.
TakeNew_Unrecorded ==
    /\ pc = "second" /\ i <= Len(SecondList)
    /\ seen[SecondList[i].name] = 0
    /\ merged' = Append(merged, SecondList[i])
    /\ i' = i + 1
    /\ UNCHANGED <<kind, user, embedded, pc, seen>>

\* The second loop: an entry with a new name is added ...
TakeNew ==
    /\ pc = "second" /\ i <= Len(SecondList)
    /\ seen[SecondList[i].name] = 0
    /\ AppendEntry(SecondList[i])
    /\ i' = i + 1
    /\ UNCHANGED <<kind, user, embedded, pc>>

\* ... an embedded query whose name is taken is left out ...
SkipQuery ==
    /\ pc = "second" /\ i <= Len(SecondList)
    /\ kind = "queries" /\ seen[SecondList[i].name] # 0
    /\ i' = i + 1
    /\ UNCHANGED <<kind, user, embedded, pc, seen, merged>>

\* Mutant: a type whose name is taken is left out.
OverrideType_Skip ==
    /\ pc = "second" /\ i <= Len(SecondList)
    /\ kind = "types" /\ seen[SecondList[i].name] # 0
    /\ i' = i + 1
    /\ UNCHANGED <<kind, user, embedded, pc, seen, merged>>

\* ... and a user's type replaces the one of its name where that stands.
OverrideType ==
    /\ pc = "second" /\ i <= Len(SecondList)
    /\ kind = "types" /\ seen[SecondList[i].name] # 0
    /\ merged' = [merged EXCEPT ![seen[SecondList[i].name]] = SecondList[i]]
    /\ i' = i + 1
    /\ UNCHANGED <<kind, user, embedded, pc, seen>>

\* Mutant: the second loop stops before its last entry.
EndSecond_Early ==
    /\ pc = "second" /\ i >= Len(SecondList)
    /\ pc' = "done"
    /\ UNCHANGED <<kind, user, embedded, i, seen, merged>>

EndSecond ==
    /\ pc = "second" /\ i > Len(SecondList)
    /\ pc' = "done"
    /\ UNCHANGED <<kind, user, embedded, i, seen, merged>>

Next == TakeFirst \/ EndFirst \/ TakeNew \/ SkipQuery \/ OverrideType \/ EndSecond

Spec == Init /\ [][Next]_vars

-----------------------------------------------------------------------------
(* Properties *)

\* The variables have their types, and an index recorded for a name is that of an
\* entry of the merged list with that name.
TypeOK ==
    /\ kind \in {"queries", "types"} /\ pc \in {"first", "second", "done"}
    /\ user \in Seq(Entry) /\ embedded \in Seq(Entry) /\ merged \in Seq(Entry)
    /\ i \in 1..(Len(IF pc = "first" THEN FirstList ELSE SecondList) + 1)
    /\ seen \in [Name -> 0..Len(merged)]
    /\ \A n \in Name : seen[n] # 0 => merged[seen[n]].name = n

Distinct(list) ==
    \A k, l \in 1..Len(list) : list[k].name = list[l].name => k = l

\* Every name of either list is in the merged one.
NothingLost ==
    pc = "done" =>
        /\ \A k \in 1..Len(user) : \E l \in 1..Len(merged) : merged[l].name = user[k].name
        /\ \A k \in 1..Len(embedded) :
               \E l \in 1..Len(merged) : merged[l].name = embedded[k].name

\* "User types take precedence over embedded types with the same name"
\* (config/merge.go:107): what the merged list has under a name the user gave is the
\* user's entry, the last one for types.  A type the embedded list repeated would
\* escape the index, hence the assumption on it.
UserWins ==
    pc = "done" /\ (kind = "types" => Distinct(embedded)) =>
        \A k \in 1..Len(merged) :
            (\E j \in 1..Len(user) : user[j].name = merged[k].name) =>
                \E j \in 1..Len(user) :
                    /\ user[j] = merged[k]
                    /\ kind = "types" =>
                           \A l \in (j + 1)..Len(user) : user[l].name # merged[k].name

\* The merged list repeats no name, unless the list taken whole did.
MergedDistinct == pc = "done" /\ Distinct(FirstList) => Distinct(merged)

-----------------------------------------------------------------------------
(* The inductive invariant *)

\* Every name the loops have gone through is recorded.
Covered ==
    /\ \A k \in 1..Len(merged) : seen[merged[k].name] # 0
    /\ \A k \in 1..Len(FirstList) :
           (pc = "first" => k < i) => seen[FirstList[k].name] # 0
    /\ \A k \in 1..Len(SecondList) : pc # "first" /\ k < i => seen[SecondList[k].name] # 0
    /\ pc = "done" => i = Len(SecondList) + 1

\* The first loop copies its list; the second keeps queries and their places.
Copied ==
    /\ pc = "first" => Len(merged) = i - 1 /\ \A k \in 1..(i - 1) : merged[k] = FirstList[k]
    /\ kind = "queries" /\ pc # "first" =>
           /\ Len(merged) >= Len(user)
           /\ \A k \in 1..Len(user) : merged[k] = user[k]
           /\ \A k \in (Len(user) + 1)..Len(merged) :
                  \A j \in 1..Len(user) : user[j].name # merged[k].name

NoRepeat == pc # "first" /\ Distinct(FirstList) => Distinct(merged)

\* What the second loop has gone through has replaced what was there.
Replaced ==
    kind = "types" /\ pc # "first" /\ Distinct(embedded) =>
        \A k \in 1..Len(merged) :
            (\E j \in 1..(i - 1) : user[j].name = merged[k].name) =>
                \E j \in 1..(i - 1) :
                    /\ user[j] = merged[k]
                    /\ \A l \in (j + 1)..(i - 1) : user[l].name # merged[k].name

IndInv == TypeOK /\ Covered /\ Copied /\ NoRepeat /\ Replaced
=============================================================================
