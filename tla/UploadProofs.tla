---------------------------- MODULE UploadProofs ----------------------------
(***************************************************************************)
(* Upload for any number of operators, requests, runs and faults.  Three   *)
(* invariants: types and whose job is whose; what a first run has read     *)
(* before it deletes; and what a run on its own has done so far.           *)
(***************************************************************************)
EXTENDS Upload, Recursion, TLAPS

\* The stages in which Run tests its flags, and the end.
AskStage == {"resetDB", "flags", "resetAll", "loadSchema", "loadQueries", "readFile", "done"}

\* The order, number by number.
LEMMA Places ==
  /\ Len(Order) = 6
  /\ Order[1] = "resetDB" /\ Order[2] = "flags" /\ Order[3] = "resetAll"
  /\ Order[4] = "loadSchema" /\ Order[5] = "loadQueries" /\ Order[6] = "readFile"
  BY DEF Order

\* The i-th stage, and what comes after the last.
OrderOrDone(m) == IF m = 7 THEN "done" ELSE Order[m]

\* A run goes on with the first stage it asks for.
LEMMA FirstFromPlace ==
  ASSUME NEW r, NEW i \in 1..7
  PROVE  \E m \in i..7 : /\ FirstFrom(r, i) = OrderOrDone(m)
                         /\ m < 7 => Asks(r, Order[m])
                         /\ \A k \in i..(m - 1) : ~Asks(r, Order[k])
  <1> DEFINE asked == {k \in i..Len(Order) : Asks(r, Order[k])}
  <1>1. Len(Order) = 6
    BY Places
  <1>2. asked \in SUBSET Nat
    BY <1>1
  <1>3. CASE asked = {}
    <2>1. FirstFrom(r, i) = OrderOrDone(7)
      BY <1>3 DEF FirstFrom, OrderOrDone
    <2>2. \A k \in i..(7 - 1) : ~Asks(r, Order[k])
      BY <1>1, <1>3
    <2> QED
      BY <2>1, <2>2
  <1>4. CASE asked # {}
    <2> DEFINE m == CHOOSE k \in asked : \A l \in asked : k <= l
    <2>1. m \in asked /\ \A l \in asked : m <= l
      <3> HIDE DEF asked
      <3>1. \E k \in asked : \A l \in asked : k <= l
        BY <1>2, <1>4, SmallestOf
      <3> QED
        BY <3>1
    <2>2. FirstFrom(r, i) = Order[m]
      BY <1>4 DEF FirstFrom
    <2> HIDE DEF m
    <2>3. m \in i..6 /\ Asks(r, Order[m])
      BY <2>1, <1>1
    <2>4. \A k \in i..(m - 1) : ~Asks(r, Order[k])
      <3> SUFFICES ASSUME NEW k \in i..(m - 1), Asks(r, Order[k]) PROVE FALSE
        OBVIOUS
      <3>1. k \in asked
        BY <1>1, <2>3
      <3> QED
        BY <2>1, <2>3, <3>1
    <2>5. FirstFrom(r, i) = OrderOrDone(m)
      BY <2>2, <2>3 DEF OrderOrDone
    <2> QED
      BY <2>3, <2>4, <2>5
  <1> QED
    BY <1>3, <1>4

\* The stage after a stage of Run.
LEMMA AfterPlace ==
  ASSUME NEW r
  PROVE  /\ After(r, "resetDB") = FirstFrom(r, 2)
         /\ After(r, "flags") = FirstFrom(r, 3)
         /\ After(r, "loadSchema") = FirstFrom(r, 5)
         /\ After(r, "loadQueries") = FirstFrom(r, 6)
  <1>1. /\ (CHOOSE k \in 1..Len(Order) : Order[k] = "resetDB") = 1
        /\ (CHOOSE k \in 1..Len(Order) : Order[k] = "flags") = 2
        /\ (CHOOSE k \in 1..Len(Order) : Order[k] = "loadSchema") = 4
        /\ (CHOOSE k \in 1..Len(Order) : Order[k] = "loadQueries") = 5
    <2>1. \A k \in 1..6 : k = 1 \/ k = 2 \/ k = 3 \/ k = 4 \/ k = 5 \/ k = 6
      OBVIOUS
    <2> QED
      BY <2>1, Places
  <1>2. 2 = 1 + 1 /\ 3 = 1 + 2 /\ 5 = 1 + 4 /\ 6 = 1 + 5
    OBVIOUS
  <1>3. /\ After(r, "resetDB") = FirstFrom(r, 1 + 1)
        /\ After(r, "flags") = FirstFrom(r, 1 + 2)
        /\ After(r, "loadSchema") = FirstFrom(r, 1 + 4)
        /\ After(r, "loadQueries") = FirstFrom(r, 1 + 5)
    BY <1>1, Zenon DEF After
  <1> QED
    BY <1>2, <1>3

\* A reset alone is what is asked for when it comes up.
LEMMA ResetAsked ==
  ASSUME NEW r, NEW i \in 1..7, FirstFrom(r, i) = "resetAll"
  PROVE  ResetOnly(r)
  <1>1. PICK m \in i..7 : FirstFrom(r, i) = OrderOrDone(m) /\ (m < 7 => Asks(r, Order[m]))
    BY FirstFromPlace
  <1>2. m < 7 /\ Order[m] = "resetAll"
    BY <1>1 DEF OrderOrDone
  <1> QED
    BY <1>1, <1>2 DEF Asks

\* A run goes on with a stage of Run, or is done.
LEMMA FirstFromStage ==
  ASSUME NEW r, NEW i \in 1..7
  PROVE  FirstFrom(r, i) \in AskStage
  <1>1. PICK m \in i..7 : FirstFrom(r, i) = OrderOrDone(m)
    BY FirstFromPlace
  <1>2. m = 1 \/ m = 2 \/ m = 3 \/ m = 4 \/ m = 5 \/ m = 6 \/ m = 7
    OBVIOUS
  <1> QED
    BY <1>1, <1>2, Places DEF OrderOrDone, AskStage

\* So does a run after a stage.
LEMMA AfterStage ==
  ASSUME NEW r, NEW stage \in {"resetDB", "flags", "loadSchema", "loadQueries"}
  PROVE  After(r, stage) \in AskStage
  BY AfterPlace, FirstFromStage

\* The stages by name.
LEMMA Stages ==
  Stage = Idle \cup AskStage \cup
    {"toggle", "listExts", "deleteExts", "putSchema", "listQueries", "deleteQueries",
     "checkQueries", "importQueries", "startJob", "sendFile", "endJob", "deferredEnd"}
  <1>1. Len(Order) = 6
    BY DEF Order
  <1>2. /\ Order[1] = "resetDB" /\ Order[2] = "flags" /\ Order[3] = "resetAll"
        /\ Order[4] = "loadSchema" /\ Order[5] = "loadQueries" /\ Order[6] = "readFile"
    BY DEF Order
  <1>3. {Order[k] : k \in 1..Len(Order)} =
           {"resetDB", "flags", "resetAll", "loadSchema", "loadQueries", "readFile"}
    BY <1>1, <1>2
  <1> QED
    BY <1>3 DEF Stage, AskStage, Idle

-----------------------------------------------------------------------------
\* The server in use and the operators who have not begun.
LEMMA InitInv == Init => IndInv
  <1> SUFFICES ASSUME Init PROVE IndInv
    OBVIOUS
  <1>1. ServerTypes
    <2> DEFINE Ext == [id : 1..nextId, name : {"builtin", "custom", "kubernetes"},
                     content : {"old", "new"}]
    <2>1. PICK more \in SUBSET {[id |-> 3, name |-> "kubernetes", content |-> "old"]} :
            exts = {[id |-> 1, name |-> "builtin", content |-> "old"],
                    [id |-> 2, name |-> "custom", content |-> "old"]} \cup more
      BY DEF Init
    <2>2. nextId = 5
      BY DEF Init
    <2>3. /\ [id |-> 1, name |-> "builtin", content |-> "old"] \in Ext
          /\ [id |-> 2, name |-> "custom", content |-> "old"] \in Ext
          /\ [id |-> 3, name |-> "kubernetes", content |-> "old"] \in Ext
      BY <2>2
    <2> HIDE DEF Ext
    <2>4. exts \subseteq Ext
      BY <2>1, <2>3
    <2>5. queries \subseteq [id : 1..nextId, name : {"own"} \cup UserQueries \cup EmbeddedQueries]
      BY <2>2 DEF Init
    <2>6. jobs \in Seq([state : {"open", "ended"}, files : {0, 1}])
      BY DEF Init
    <2> QED
      BY <2>2, <2>4, <2>5, <2>6 DEF Init, ServerTypes, Ext
  <1>2. RunTypes
    BY BoundAssumption DEF Init, RunTypes, Stage, Idle
  <1>3. JobKnown /\ PastAndFuture
    BY DEF Init, JobKnown, PastAndFuture, JobStage, Running, Idle
  <1> QED
    BY <1>1, <1>2, <1>3 DEF IndInv, TypeOK

\* What a step of a run outside its upload job needs to keep the invariant.
LEMMA OutsideStep ==
  ASSUME IndInv, NEW c \in Client, pc[c] \in Stage \ (Idle \cup JobStage),
         NEW s \in Stage \ JobStage, pc' = [pc EXCEPT ![c] = s],
         ServerTypes', jobs' = jobs, job' = job, req' = req, alone' = alone, runs' = runs,
         expired' = expired, faults' \in 0..MaxFaults,
         failures' \in [Client -> Nat], \A d \in Client \ {c} : failures'[d] = failures[d],
         NEW t, todo' = [todo EXCEPT ![c] = t],
         s = "importQueries" => t \subseteq UserQueries \cup EmbeddedQueries
  PROVE  IndInv'
  <1>1. RunTypes'
    BY DEF IndInv, TypeOK, RunTypes
  <1>2. pc'[c] = s /\ \A d \in Client \ {c} : pc'[d] = pc[d]
    BY DEF IndInv, TypeOK, RunTypes
  <1>3. JobKnown'
    BY <1>2 DEF IndInv, JobKnown, JobStage, Running, Idle
  <1>4. todo'[c] = t /\ \A d \in Client \ {c} : todo'[d] = todo[d]
    BY DEF IndInv, TypeOK, RunTypes
  <1>5. PastAndFuture'
    BY <1>2, <1>4 DEF IndInv, PastAndFuture, JobStage
  <1> QED
    BY <1>1, <1>3, <1>5 DEF IndInv, TypeOK

\* A step in which nothing is sent.
LEMMA LocalStep ==
  ASSUME IndInv, NEW c \in Client, pc[c] \in Stage \ (Idle \cup JobStage),
         NEW s \in Stage \ JobStage, Local(c, s),
         NEW t, todo' = [todo EXCEPT ![c] = t],
         s = "importQueries" => t \subseteq UserQueries \cup EmbeddedQueries
  PROVE  IndInv'
  <1>1. ServerTypes'
    BY DEF IndInv, TypeOK, ServerTypes, Local, server
  <1>2. failures' \in [Client -> Nat] /\ faults' \in 0..MaxFaults
    BY DEF IndInv, TypeOK, RunTypes, Local
  <1> QED
    BY <1>1, <1>2, OutsideStep DEF Local, server

\* A run that does not touch its list.
LEMMA SameTodo ==
  ASSUME IndInv, NEW c \in Client
  PROVE  todo = [todo EXCEPT ![c] = todo[c]]
  BY DEF IndInv, TypeOK, RunTypes

\* Reading files and flags.
LEMMA LocalActions ==
  ASSUME IndInv, NEW c \in Client,
         ResetAll(c) \/ LoadSchema(c) \/ BadSchema(c) \/ LoadQueries(c)
           \/ CheckQueries(c) \/ ReadFile(c)
  PROVE  IndInv'
  <1>1. /\ {"failed", "listExts", "putSchema", "listQueries", "checkQueries",
            "importQueries", "startJob"} \subseteq Stage \ JobStage
        /\ {"resetAll", "loadSchema", "putSchema", "loadQueries", "checkQueries",
            "readFile"} \subseteq Stage \ (Idle \cup JobStage)
    BY Stages DEF JobStage, Idle, AskStage
  <1>2. todo = [todo EXCEPT ![c] = todo[c]]
    BY SameTodo
  <1>3. CASE ResetAll(c) \/ LoadSchema(c) \/ BadSchema(c) \/ LoadQueries(c) \/ ReadFile(c)
    <2>1. \E s \in {"failed", "listExts", "putSchema", "listQueries", "checkQueries", "startJob"} :
            Local(c, s)
      BY <1>3 DEF ResetAll, LoadSchema, BadSchema, LoadQueries, ReadFile
    <2>2. todo' = [todo EXCEPT ![c] = todo[c]] /\ pc[c] \in Stage \ (Idle \cup JobStage)
      BY <1>3, <1>1, <1>2 DEF ResetAll, LoadSchema, BadSchema, LoadQueries, ReadFile
    <2> QED
      BY <2>1, <2>2, <1>1, LocalStep
  <1>4. CASE CheckQueries(c)
    <2>1. Wanted(req[c]) \subseteq UserQueries \cup EmbeddedQueries
      BY DEF Wanted
    <2>2. PICK s \in {"failed", "importQueries"}, t \in SUBSET (UserQueries \cup EmbeddedQueries) :
            Local(c, s) /\ todo' = [todo EXCEPT ![c] = t]
      BY <1>4, <2>1 DEF CheckQueries
    <2> QED
      BY <2>2, <1>4, <1>1, LocalStep DEF CheckQueries
  <1> QED
    BY <1>3, <1>4
-----------------------------------------------------------------------------
(* Requests outside an upload job *)

\* What a request does to its run: it goes on or fails.
LEMMA CallStep ==
  ASSUME IndInv, NEW c \in Client, pc[c] \in Stage \ (Idle \cup JobStage),
         NEW next \in Stage \ JobStage, NEW s \in {next, "failed", "killed"},
         pc' = [pc EXCEPT ![c] = s], ServerTypes', jobs' = jobs,
         UNCHANGED <<job, req, alone, runs, expired>>,
         failures' = failures \/ failures' = [failures EXCEPT ![c] = @ + 1],
         faults' = faults \/ (faults < MaxFaults /\ faults' = faults + 1),
         NEW t, todo' = todo \/ todo' = [todo EXCEPT ![c] = t],
         s = "importQueries" => t \subseteq UserQueries \cup EmbeddedQueries,
         s = "importQueries" => todo' = [todo EXCEPT ![c] = t]
  PROVE  IndInv'
  <1>1. {"failed", "killed"} \subseteq Stage \ JobStage
    BY Stages DEF JobStage, Idle
  <1>2. s \in Stage \ JobStage
    BY <1>1
  <1>3. faults' \in 0..MaxFaults
    BY BoundAssumption DEF IndInv, TypeOK, RunTypes
  <1>4. /\ failures' \in [Client -> Nat]
        /\ \A d \in Client \ {c} : failures'[d] = failures[d]
    BY DEF IndInv, TypeOK, RunTypes
  <1>5. CASE todo' = todo
    <2>1. todo' = [todo EXCEPT ![c] = todo[c]]
      BY <1>5, SameTodo
    <2>2. s = "importQueries" => todo[c] \subseteq UserQueries \cup EmbeddedQueries
      <3>1. SUFFICES ASSUME s = "importQueries"
                     PROVE  todo[c] \subseteq UserQueries \cup EmbeddedQueries
        OBVIOUS
      <3>2. todo[c] = t
        BY <3>1, <1>5 DEF IndInv, TypeOK, RunTypes
      <3> QED
        BY <3>1, <3>2
    <2> QED
      BY <1>2, <1>3, <1>4, <2>1, <2>2, OutsideStep
  <1>6. CASE todo' = [todo EXCEPT ![c] = t]
    BY <1>2, <1>3, <1>4, <1>6, OutsideStep
  <1> QED
    BY <1>5, <1>6

\* Types of the server after each effect.
LEMMA ResetTypes ==
  ASSUME ServerTypes, embedded' = embedded, graph' = {},
         UNCHANGED <<flag, exts, queries, jobs, nextId>>
  PROVE  ServerTypes'
  BY DEF ServerTypes

\* The toggle of the flag.
LEMMA ToggleTypes ==
  ASSUME ServerTypes, embedded' = embedded, flag' = ~flag,
         UNCHANGED <<exts, queries, graph, jobs, nextId>>
  PROVE  ServerTypes'
  BY DEF ServerTypes

\* Deletions.
LEMMA DeleteTypes ==
  ASSUME ServerTypes, embedded' = embedded, exts' \subseteq exts, queries' \subseteq queries,
         UNCHANGED <<flag, graph, jobs, nextId>>
  PROVE  ServerTypes'
  <1>1. /\ exts' \subseteq [id : 1..nextId', name : {"builtin", "custom", "kubernetes"},
                          content : {"old", "new"}]
        /\ queries' \subseteq [id : 1..nextId', name : {"own"} \cup UserQueries \cup EmbeddedQueries]
    BY DEF ServerTypes
  <1> QED
    BY <1>1 DEF ServerTypes

\* Requests without effect.
LEMMA SameTypes ==
  ASSUME ServerTypes, embedded' = embedded, UNCHANGED server
  PROVE  ServerTypes'
  BY DEF ServerTypes, server

\* Resetting the database and enabling the feature.
LEMMA CallActions ==
  ASSUME IndInv, NEW c \in Client, ResetDatabase(c) \/ ReadFlags(c) \/ Toggle(c)
  PROVE  IndInv'
  <1>1. /\ {"toggle", "failed", "killed"} \cup AskStage \subseteq Stage \ JobStage
        /\ {"resetDB", "flags", "toggle"} \subseteq Stage \ (Idle \cup JobStage)
    BY Stages DEF JobStage, Idle, AskStage
  <1>2. After(req[c], "resetDB") \in AskStage /\ After(req[c], "flags") \in AskStage
    BY AfterStage DEF AskStage
  <1>3. "importQueries" \notin AskStage \cup {"toggle", "failed", "killed"}
    BY DEF AskStage
  <1>4. ServerTypes
    BY DEF IndInv, TypeOK
  <1>5. CASE ResetDatabase(c)
    <2>1. PICK s \in {After(req[c], "resetDB"), "failed", "killed"} : pc' = [pc EXCEPT ![c] = s]
      BY <1>5 DEF ResetDatabase, Call, Unanswered, RequestFails, StoppedWaiting, OnError
    <2>2. ServerTypes' /\ jobs' = jobs
      BY <1>4, <1>5, ResetTypes, SameTypes DEF ResetDatabase, Call, server
    <2>3. /\ UNCHANGED <<job, req, alone, runs, expired, todo>>
          /\ failures' = failures \/ failures' = [failures EXCEPT ![c] = @ + 1]
          /\ faults' = faults \/ (faults < MaxFaults /\ faults' = faults + 1)
      BY <1>5 DEF ResetDatabase, Call, Unanswered, RequestFails, StoppedWaiting, NoReply
    <2> QED
      BY <2>1, <2>2, <2>3, <1>1, <1>2, <1>3, <1>5, CallStep DEF ResetDatabase
  <1>6. CASE ReadFlags(c)
    <2>1. PICK s \in AskStage \cup {"toggle", "failed", "killed"} : pc' = [pc EXCEPT ![c] = s]
      BY <1>6, <1>2 DEF ReadFlags, Call, Unanswered, RequestFails, StoppedWaiting, OnError
    <2>2. ServerTypes' /\ jobs' = jobs
      BY <1>4, <1>6, SameTypes DEF ReadFlags, Call, server
    <2>3. /\ UNCHANGED <<job, req, alone, runs, expired, todo>>
          /\ failures' = failures \/ failures' = [failures EXCEPT ![c] = @ + 1]
          /\ faults' = faults \/ (faults < MaxFaults /\ faults' = faults + 1)
      BY <1>6 DEF ReadFlags, Call, Unanswered, RequestFails, StoppedWaiting, NoReply
    <2> QED
      BY <2>1, <2>2, <2>3, <1>1, <1>3, <1>6, CallStep DEF ReadFlags
  <1>7. CASE Toggle(c)
    <2>1. PICK s \in AskStage \cup {"failed", "killed"} : pc' = [pc EXCEPT ![c] = s]
      BY <1>7, <1>2 DEF Toggle, Call, Unanswered, RequestFails, StoppedWaiting, OnError
    <2>2. ServerTypes' /\ jobs' = jobs
      BY <1>4, <1>7, SameTypes, ToggleTypes DEF Toggle, Call, server
    <2>3. /\ UNCHANGED <<job, req, alone, runs, expired, todo>>
          /\ failures' = failures \/ failures' = [failures EXCEPT ![c] = @ + 1]
          /\ faults' = faults \/ (faults < MaxFaults /\ faults' = faults + 1)
      BY <1>7 DEF Toggle, Call, Unanswered, RequestFails, StoppedWaiting, NoReply
    <2> QED
      BY <2>1, <2>2, <2>3, <1>1, <1>3, <1>7, CallStep DEF Toggle
  <1> QED
    BY <1>5, <1>6, <1>7

\* Listings and deletions.
LEMMA ListingActions ==
  ASSUME IndInv, NEW c \in Client, GetExtensions(c) \/ getQueries(c)
  PROVE  IndInv'
  <1>1. /\ {"listQueries", "putSchema", "checkQueries", "deleteExts", "deleteQueries", "done",
            "failed", "killed"} \subseteq Stage \ JobStage
        /\ {"listExts", "listQueries"} \subseteq Stage \ (Idle \cup JobStage)
    BY Stages DEF JobStage, Idle, AskStage
  <1>2. PICK s \in {"listQueries", "putSchema", "checkQueries", "deleteExts", "deleteQueries",
                    "done", "failed", "killed"} : pc' = [pc EXCEPT ![c] = s]
    BY DEF GetExtensions, getQueries, Call, Unanswered, RequestFails, StoppedWaiting, OnError, AfterExts, AfterQueries
  <1>3. /\ UNCHANGED <<job, req, alone, runs, expired, embedded, server>>
        /\ failures' = failures \/ failures' = [failures EXCEPT ![c] = @ + 1]
        /\ faults' = faults \/ (faults < MaxFaults /\ faults' = faults + 1)
    BY DEF GetExtensions, getQueries, Call, Unanswered, RequestFails, StoppedWaiting
  <1>4. PICK t : todo' = todo \/ todo' = [todo EXCEPT ![c] = t]
    BY DEF GetExtensions, getQueries, Call, Unanswered, RequestFails, StoppedWaiting
  <1>5. ServerTypes' /\ jobs' = jobs
    BY <1>3, SameTypes DEF server, IndInv, TypeOK
  <1>6. pc[c] \in Stage \ (Idle \cup JobStage)
    BY <1>1 DEF GetExtensions, getQueries
  <1> QED
    BY <1>1, <1>2, <1>3, <1>4, <1>5, <1>6, CallStep

\* One deletion.
LEMMA DeletionActions ==
  ASSUME IndInv, NEW c \in Client, DeleteExtension(c) \/ deleteQuery(c)
  PROVE  IndInv'
  <1>1. /\ {"listQueries", "putSchema", "checkQueries", "deleteExts", "deleteQueries", "done",
            "failed", "killed"} \subseteq Stage \ JobStage
        /\ {"deleteExts", "deleteQueries"} \subseteq Stage \ (Idle \cup JobStage)
    BY Stages DEF JobStage, Idle, AskStage
  <1>2. PICK s \in {"listQueries", "putSchema", "checkQueries", "deleteExts", "deleteQueries",
                    "done", "failed", "killed"} : pc' = [pc EXCEPT ![c] = s]
    BY DEF DeleteExtension, deleteQuery, TurnedDown, Call, Unanswered, RequestFails, StoppedWaiting, OnError, AfterExts,
           AfterQueries
  <1>3. /\ UNCHANGED <<job, req, alone, runs, expired, embedded, flag, graph, jobs, nextId>>
        /\ failures' = failures \/ failures' = [failures EXCEPT ![c] = @ + 1]
        /\ faults' = faults \/ (faults < MaxFaults /\ faults' = faults + 1)
        /\ exts' \subseteq exts /\ queries' \subseteq queries
    BY DEF DeleteExtension, deleteQuery, TurnedDown, Call, Unanswered, RequestFails, StoppedWaiting, server
  <1>4. PICK t : todo' = todo \/ todo' = [todo EXCEPT ![c] = t]
    BY DEF DeleteExtension, deleteQuery, TurnedDown, Call, Unanswered, RequestFails, StoppedWaiting
  <1>5. ServerTypes' /\ jobs' = jobs
    BY <1>3, DeleteTypes DEF IndInv, TypeOK
  <1>6. pc[c] \in Stage \ (Idle \cup JobStage)
    BY <1>1 DEF DeleteExtension, deleteQuery
  <1> QED
    BY <1>1, <1>2, <1>3, <1>4, <1>5, <1>6, CallStep

\* What the uploads of the schema and of a query add.
LEMMA AddExtensionTypes ==
  ASSUME ServerTypes, embedded' = embedded,
         NEW id \in {e.id : e \in {x \in exts : x.name = "kubernetes"}} \cup {nextId},
         exts' = {e \in exts : e.name # "kubernetes"} \cup
                   {[id |-> id, name |-> "kubernetes", content |-> "new"]},
         nextId' = (IF id = nextId THEN nextId + 1 ELSE nextId),
         UNCHANGED <<flag, queries, graph, jobs>>
  PROVE  ServerTypes'
  <1> DEFINE Name == {"builtin", "custom", "kubernetes"}
             Content == {"old", "new"}
  <1>1. nextId' \in Nat \ {0} /\ 1..nextId \subseteq 1..nextId'
    BY DEF ServerTypes
  <1>2. id \in 1..nextId'
    BY DEF ServerTypes
  <1>3. exts' \subseteq [id : 1..nextId', name : Name, content : Content]
    <2> SUFFICES ASSUME NEW e \in exts'
                 PROVE  e \in [id : 1..nextId', name : Name, content : Content]
      OBVIOUS
    <2>1. CASE e \in exts
      <3>1. e \in [id : 1..nextId, name : Name, content : Content]
        BY <2>1 DEF ServerTypes
      <3> QED
        BY <3>1, <1>1
    <2>2. CASE e = [id |-> id, name |-> "kubernetes", content |-> "new"]
      BY <2>2, <1>2
    <2> QED
      BY <2>1, <2>2
  <1>4. queries' \subseteq [id : 1..nextId', name : {"own"} \cup UserQueries \cup EmbeddedQueries]
    BY <1>1 DEF ServerTypes
  <1> QED
    BY <1>1, <1>3, <1>4 DEF ServerTypes

\* An uploaded query.
LEMMA AddQueryTypes ==
  ASSUME ServerTypes, embedded' = embedded, NEW name \in UserQueries \cup EmbeddedQueries,
         queries' = queries \cup {[id |-> nextId, name |-> name]}, nextId' = nextId + 1,
         UNCHANGED <<flag, exts, graph, jobs>>
  PROVE  ServerTypes'
  <1> DEFINE QueryName == {"own"} \cup UserQueries \cup EmbeddedQueries
  <1>1. nextId' \in Nat \ {0} /\ 1..nextId \subseteq 1..nextId' /\ nextId \in 1..nextId'
    BY DEF ServerTypes
  <1>2. queries' \subseteq [id : 1..nextId', name : QueryName]
    <2>1. queries \subseteq [id : 1..nextId, name : QueryName] /\ name \in QueryName
      BY DEF ServerTypes
    <2> HIDE DEF QueryName
    <2> QED
      BY <1>1, <2>1
  <1>3. exts' \subseteq [id : 1..nextId', name : {"builtin", "custom", "kubernetes"},
                          content : {"old", "new"}]
    BY <1>1 DEF ServerTypes
  <1> QED
    BY <1>1, <1>2, <1>3 DEF ServerTypes

\* Uploading the schema or a query.
LEMMA AddingActions ==
  ASSUME IndInv, NEW c \in Client, UploadExtension(c) \/ uploadQuery(c)
  PROVE  IndInv'
  <1>1. /\ {"importQueries", "failed", "killed"} \cup AskStage \subseteq Stage \ JobStage
        /\ {"putSchema", "importQueries"} \subseteq Stage \ (Idle \cup JobStage)
        /\ "importQueries" \notin AskStage \cup {"failed", "killed"}
    BY Stages DEF JobStage, Idle, AskStage
  <1>2. After(req[c], "loadSchema") \in AskStage /\ After(req[c], "loadQueries") \in AskStage
    BY AfterStage DEF AskStage
  <1>3. ServerTypes
    BY DEF IndInv, TypeOK
  <1>4. CASE UploadExtension(c)
    <2>1. PICK s \in AskStage \cup {"failed", "killed"} : pc' = [pc EXCEPT ![c] = s]
      BY <1>4, <1>2 DEF UploadExtension, Call, Unanswered, RequestFails, StoppedWaiting, OnError
    <2>2. ServerTypes' /\ jobs' = jobs
      <3>1. embedded' = embedded
        BY <1>4 DEF UploadExtension, Call
      <3>2. CASE UNCHANGED server
        BY <3>1, <3>2, <1>3, SameTypes DEF server
      <3>3. CASE ~UNCHANGED server
        <4>1. PICK id \in {e.id : e \in {x \in exts : x.name = "kubernetes"}} \cup {nextId} :
                /\ exts' = {e \in exts : e.name # "kubernetes"} \cup
                           {[id |-> id, name |-> "kubernetes", content |-> "new"]}
                /\ nextId' = IF id = nextId THEN nextId + 1 ELSE nextId
                /\ UNCHANGED <<flag, queries, graph, jobs>>
          BY <3>3, <1>4 DEF UploadExtension, Call
        <4> QED
          BY <4>1, <3>1, <1>3, AddExtensionTypes
      <3> QED
        BY <3>2, <3>3
    <2>3. /\ UNCHANGED <<job, req, alone, runs, expired, todo>>
          /\ failures' = failures \/ failures' = [failures EXCEPT ![c] = @ + 1]
          /\ faults' = faults \/ (faults < MaxFaults /\ faults' = faults + 1)
      BY <1>4 DEF UploadExtension, Call, Unanswered, RequestFails, StoppedWaiting, NoReply
    <2> QED
      BY <2>1, <2>2, <2>3, <1>1, <1>4, CallStep DEF UploadExtension
  <1>5. CASE uploadQuery(c)
    <2>1. PICK name \in todo[c] :
            Call(c, /\ queries' = queries \cup {[id |-> nextId, name |-> name]}
                    /\ nextId' = nextId + 1
                    /\ UNCHANGED <<flag, exts, graph, jobs>>,
                 todo' = [todo EXCEPT ![c] = @ \ {name}] /\ UNCHANGED job,
                 IF todo[c] = {name} THEN After(req[c], "loadQueries") ELSE "importQueries")
      BY <1>5 DEF uploadQuery
    <2>2. pc[c] = "importQueries" /\ todo[c] \subseteq UserQueries \cup EmbeddedQueries
      BY <1>5 DEF uploadQuery, IndInv, PastAndFuture
    <2>3. embedded' = embedded
      BY <2>1 DEF Call
    <2>4. ServerTypes' /\ jobs' = jobs
      <3>1. CASE UNCHANGED server
        BY <3>1, <2>3, <1>3, SameTypes DEF server
      <3>2. CASE ~UNCHANGED server
        <4>1. /\ queries' = queries \cup {[id |-> nextId, name |-> name]}
              /\ nextId' = nextId + 1
              /\ UNCHANGED <<flag, exts, graph, jobs>>
          BY <3>2, <2>1 DEF Call
        <4> QED
          BY <4>1, <2>2, <2>3, <1>3, AddQueryTypes
      <3> QED
        BY <3>1, <3>2
    <2>5. /\ UNCHANGED <<job, req, alone, runs, expired>>
          /\ failures' = failures \/ failures' = [failures EXCEPT ![c] = @ + 1]
          /\ faults' = faults \/ (faults < MaxFaults /\ faults' = faults + 1)
      BY <2>1 DEF Call, Unanswered, RequestFails, StoppedWaiting
    <2>6. CASE /\ \E s \in {OnError(c), "killed"} : pc' = [pc EXCEPT ![c] = s]
               /\ todo' = todo
      <3>1. PICK s \in {"failed", "killed"} : pc' = [pc EXCEPT ![c] = s]
        BY <2>6, <2>2 DEF OnError
      <3> QED
        BY <3>1, <2>2, <2>4, <2>5, <2>6, <1>1, CallStep
    <2>7. CASE todo' = [todo EXCEPT ![c] = todo[c] \ {name}]
               /\ pc' = [pc EXCEPT ![c] = IF todo[c] = {name} THEN After(req[c], "loadQueries")
                                          ELSE "importQueries"]
      <3>1. PICK s \in AskStage \cup {"importQueries"} : pc' = [pc EXCEPT ![c] = s]
        BY <2>7, <1>2
      <3>2. todo[c] \ {name} \subseteq UserQueries \cup EmbeddedQueries
        BY <2>2
      <3> QED
        BY <3>1, <3>2, <2>2, <2>4, <2>5, <2>7, <1>1, CallStep
    <2> QED
      BY <2>1, <2>6, <2>7 DEF Call, Unanswered, RequestFails, StoppedWaiting
  <1> QED
    BY <1>4, <1>5

-----------------------------------------------------------------------------
(* The upload job *)

\* The types of the variables that a request of the upload job leaves alone.
LEMMA JobRunTypes ==
  ASSUME IndInv, NEW c \in Client, NEW s \in Stage, pc' = [pc EXCEPT ![c] = s],
         UNCHANGED <<req, alone, runs, expired, todo>>, job' \in [Client -> Nat],
         failures' = failures \/ failures' = [failures EXCEPT ![c] = @ + 1],
         faults' = faults \/ (faults < MaxFaults /\ faults' = faults + 1)
  PROVE  RunTypes'
  <1>1. faults' \in 0..MaxFaults
    BY BoundAssumption DEF IndInv, TypeOK, RunTypes
  <1>2. failures' \in [Client -> Nat]
    BY DEF IndInv, TypeOK, RunTypes
  <1> QED
    BY <1>1, <1>2 DEF IndInv, TypeOK, RunTypes

\* A run that enters its upload job with a new job, or fails to.
LEMMA CreateJobStep ==
  ASSUME IndInv, NEW c \in Client, createUploadJob(c)
  PROVE  IndInv'
  <1> DEFINE Job == [state : {"open", "ended"}, files : {0, 1}]
             new == [state |-> "open", files |-> 0]
  <1>1. /\ {"sendFile", "failed", "killed"} \subseteq Stage
        /\ "failed" \notin JobStage /\ "killed" \notin JobStage
        /\ pc[c] = "startJob" /\ "startJob" \notin JobStage /\ Running(c)
    BY Stages DEF JobStage, Idle, createUploadJob, Running
  <1>2. jobs \in Seq(Job) /\ new \in Job
    BY DEF IndInv, TypeOK, ServerTypes
  <1>3. job \in [Client -> Nat] /\ pc \in [Client -> Stage] /\ job[c] = 0
    BY <1>1 DEF IndInv, TypeOK, RunTypes, JobKnown
  <1>4. /\ UNCHANGED <<embedded, flag, exts, queries, graph, nextId, req, alone, runs, expired, todo>>
        /\ failures' = failures \/ failures' = [failures EXCEPT ![c] = @ + 1]
        /\ faults' = faults \/ (faults < MaxFaults /\ faults' = faults + 1)
        /\ jobs' = jobs \/ jobs' = Append(jobs, new)
    BY DEF createUploadJob, Call, Unanswered, RequestFails, StoppedWaiting, server
  <1>5. \/ /\ \E s \in {"failed", "killed"} : pc' = [pc EXCEPT ![c] = s]
           /\ job' = job
        \/ /\ pc' = [pc EXCEPT ![c] = "sendFile"]
           /\ job' = [job EXCEPT ![c] = Len(jobs) + 1]
           /\ jobs' = Append(jobs, new)
    BY <1>1 DEF createUploadJob, Call, Unanswered, RequestFails, StoppedWaiting, OnError
  <1>6. /\ jobs' \in Seq(Job) /\ Len(jobs) \in Nat /\ Len(jobs') >= Len(jobs)
        /\ \A k \in 1..Len(jobs) : jobs'[k] = jobs[k]
    <2> HIDE DEF Job, new
    <2>1. CASE jobs' = jobs
      BY <2>1, <1>2
    <2>2. CASE jobs' = Append(jobs, new)
      BY <2>2, <1>2
    <2> QED
      BY <2>1, <2>2, <1>4
  <1>7. ServerTypes'
    BY <1>4, <1>6 DEF IndInv, TypeOK, ServerTypes
  <1>8. job' \in [Client -> Nat]
    BY <1>3, <1>5, <1>6
  <1>9. RunTypes'
    BY <1>1, <1>4, <1>5, <1>8, JobRunTypes
  <1>10. \A d \in Client \ {c} : pc'[d] = pc[d] /\ job'[d] = job[d]
    BY <1>3, <1>5
  <1>11. \A d \in Client : pc[d] \in JobStage => job[d] \in 1..Len(jobs)
    BY DEF IndInv, JobKnown
  <1>12. JobKnown' /\ PastAndFuture'
    <2>1. CASE /\ \E s \in {"failed", "killed"} : pc' = [pc EXCEPT ![c] = s]
               /\ job' = job
      <3>1. pc'[c] \in {"failed", "killed"}
        BY <2>1, <1>3
      <3>2. JobKnown'
        BY <3>1, <1>1, <1>6, <1>10, <1>11, <2>1 DEF IndInv, JobKnown, Running, Idle, JobStage
      <3>3. \A d \in Client \ {c} : failures'[d] = failures[d]
        BY <1>4 DEF IndInv, TypeOK, RunTypes
      <3>4. PastAndFuture'
        BY <3>1, <3>3, <1>4, <1>10 DEF IndInv, PastAndFuture
      <3> QED
        BY <3>2, <3>4
    <2>2. CASE /\ pc' = [pc EXCEPT ![c] = "sendFile"]
               /\ job' = [job EXCEPT ![c] = Len(jobs) + 1]
               /\ jobs' = Append(jobs, new)
      <3>1. pc'[c] = "sendFile" /\ job'[c] = Len(jobs) + 1 /\ Len(jobs') = Len(jobs) + 1
        BY <2>2, <1>2, <1>3
      <3>2. jobs'[Len(jobs) + 1] = new
        BY <2>2, <1>2
      <3>3. \A d \in Client : pc'[d] \in JobStage => job'[d] \in 1..Len(jobs')
        BY <3>1, <1>6, <1>10, <1>11
      <3>4. \A d \in Client \ {c} : pc'[d] \in JobStage => job'[d] # job'[c]
        BY <3>1, <1>6, <1>10, <1>11
      <3>5. JobKnown'
        BY <3>1, <3>2, <3>3, <3>4, <1>6, <1>10, <1>11 DEF IndInv, JobKnown, Running, Idle, JobStage
      <3>6. \A d \in Client \ {c} : failures'[d] = failures[d]
        BY <1>4 DEF IndInv, TypeOK, RunTypes
      <3>7. PastAndFuture'
        BY <3>1, <3>6, <1>4, <1>10 DEF IndInv, PastAndFuture
      <3> QED
        BY <3>5, <3>7
    <2> QED
      BY <1>5, <2>1, <2>2
  <1> QED
    BY <1>7, <1>9, <1>12 DEF IndInv, TypeOK

\* A run that changes its own job, if any.
LEMMA OwnJobStep ==
  ASSUME IndInv, NEW c \in Client, pc[c] \in JobStage,
         NEW s \in {"endJob", "deferredEnd", "failed", "killed", "done"}, pc' = [pc EXCEPT ![c] = s],
         UNCHANGED <<embedded, flag, exts, queries, nextId>>, graph' \subseteq {"old"} \cup Client,
         UNCHANGED <<job, req, alone, runs, expired, todo>>,
         failures' = failures \/ failures' = [failures EXCEPT ![c] = @ + 1],
         faults' = faults \/ (faults < MaxFaults /\ faults' = faults + 1),
         NEW j \in [state : {"open", "ended"}, files : {0, 1}],
         jobs' = jobs \/ jobs' = [jobs EXCEPT ![job[c]] = j],
         s = "endJob" => jobs' = [jobs EXCEPT ![job[c]] = j] /\ j.state = "open",
         s = "deferredEnd" => failures' = [failures EXCEPT ![c] = @ + 1]
  PROVE  IndInv'
  <1> DEFINE Job == [state : {"open", "ended"}, files : {0, 1}]
  <1>1. /\ jobs \in Seq(Job) /\ job \in [Client -> Nat] /\ pc \in [Client -> Stage]
        /\ failures \in [Client -> Nat] /\ job[c] \in 1..Len(jobs)
    BY DEF IndInv, TypeOK, ServerTypes, RunTypes, JobKnown
  <1>2. /\ jobs' \in Seq(Job) /\ Len(jobs') = Len(jobs) /\ Len(jobs) \in Nat
        /\ \A k \in 1..Len(jobs) : k # job[c] => jobs'[k] = jobs[k]
    <2>1. j \in Job
      OBVIOUS
    <2> HIDE DEF Job
    <2>2. CASE jobs' = jobs
      BY <2>2, <1>1
    <2>3. CASE jobs' = [jobs EXCEPT ![job[c]] = j]
      BY <2>1, <2>3, <1>1
    <2> QED
      BY <2>2, <2>3
  <1>3. ServerTypes'
    BY <1>2 DEF IndInv, TypeOK, ServerTypes
  <1>4. s \in Stage /\ RunTypes'
    BY <1>1, Stages, JobRunTypes DEF Idle
  <1>5. pc'[c] = s /\ \A d \in Client \ {c} : pc'[d] = pc[d] /\ failures'[d] = failures[d]
    BY <1>1
  <1>6. \A d \in Client \ {c} : pc[d] \in JobStage => job[d] \in 1..Len(jobs) /\ job[d] # job[c]
    BY DEF IndInv, JobKnown
  <1>7. JobKnown'
    <2>1. \A d \in Client : pc'[d] \in JobStage => job'[d] \in 1..Len(jobs')
      BY <1>1, <1>2, <1>5, <1>6
    <2>2. \A d, e \in Client : pc'[d] \in JobStage /\ pc'[e] \in JobStage /\ d # e
                                 => job'[d] # job'[e]
      BY <1>5 DEF IndInv, JobKnown
    <2>3. ASSUME NEW d \in Client, pc'[d] \in {"sendFile", "endJob"}
          PROVE  /\ jobs'[job'[d]].state = "open"
                 /\ pc'[d] = "sendFile" => jobs'[job'[d]].files = 0
      <3>1. CASE d = c
        BY <3>1, <2>3, <1>1, <1>5
      <3>2. CASE d # c
        <4>1. jobs'[job'[d]] = jobs[job[d]]
          BY <3>2, <2>3, <1>2, <1>5, <1>6 DEF JobStage
        <4> QED
          BY <3>2, <4>1, <2>3, <1>5 DEF IndInv, JobKnown
      <3> QED
        BY <3>1, <3>2
    <2>4. \A d \in Client : Running(d)' /\ pc'[d] \notin JobStage => job'[d] = 0
      BY <1>5 DEF IndInv, JobKnown, Running, Idle, JobStage
    <2> QED
      BY <2>1, <2>2, <2>3, <2>4 DEF JobKnown
  <1>8. PastAndFuture'
    BY <1>1, <1>5 DEF IndInv, PastAndFuture
  <1> QED
    BY <1>3, <1>4, <1>7, <1>8 DEF IndInv, TypeOK

\* The file is sent to the job.
LEMMA SendFileStep ==
  ASSUME IndInv, NEW c \in Client, uploadFileToJob(c)
  PROVE  IndInv'
  <1> DEFINE j == [state |-> "open", files |-> 1]
  <1>1. pc[c] = "sendFile" /\ pc[c] \in JobStage /\ graph \subseteq {"old"} \cup Client
    BY DEF uploadFileToJob, JobStage, IndInv, TypeOK, ServerTypes
  <1>2. [jobs EXCEPT ![job[c]].files = @ + 1] = [jobs EXCEPT ![job[c]] = j]
    <2> DEFINE Job == [state : {"open", "ended"}, files : {0, 1}]
    <2>1. /\ jobs \in Seq(Job) /\ job[c] \in 1..Len(jobs)
          /\ jobs[job[c]].files = 0 /\ jobs[job[c]].state = "open"
      BY <1>1 DEF IndInv, TypeOK, ServerTypes, JobKnown
    <2>2. jobs[job[c]] \in Job
      <3> HIDE DEF Job
      <3> QED
        BY <2>1
    <2>3. [jobs[job[c]] EXCEPT !.files = jobs[job[c]].files + 1] = j
      BY <2>1, <2>2
    <2> HIDE DEF Job, j
    <2> QED
      BY <2>3
  <1>3. /\ UNCHANGED <<embedded, flag, exts, queries, nextId, graph>>
        /\ UNCHANGED <<job, req, alone, runs, expired, todo>>
        /\ failures' = failures \/ failures' = [failures EXCEPT ![c] = @ + 1]
        /\ faults' = faults \/ (faults < MaxFaults /\ faults' = faults + 1)
        /\ jobs' = jobs \/ jobs' = [jobs EXCEPT ![job[c]] = j]
    BY <1>2 DEF uploadFileToJob, Call, Unanswered, RequestFails, StoppedWaiting, NoReply, server
  <1>4. \/ /\ pc' = [pc EXCEPT ![c] = "endJob"]
           /\ jobs' = [jobs EXCEPT ![job[c]] = j]
        \/ /\ \E s \in {"deferredEnd", "killed"} : pc' = [pc EXCEPT ![c] = s]
           /\ failures' = [failures EXCEPT ![c] = @ + 1]
    BY <1>1, <1>2 DEF uploadFileToJob, Call, Unanswered, RequestFails, StoppedWaiting, OnError
  <1>5. j \in [state : {"open", "ended"}, files : {0, 1}] /\ j.state = "open"
    OBVIOUS
  <1> HIDE DEF j
  <1>6. PICK s \in {"endJob", "deferredEnd", "killed"} :
          /\ pc' = [pc EXCEPT ![c] = s]
          /\ s = "endJob" => jobs' = [jobs EXCEPT ![job[c]] = j]
          /\ s = "deferredEnd" => failures' = [failures EXCEPT ![c] = @ + 1]
    BY <1>4
  <1> QED
    BY <1>1, <1>3, <1>5, <1>6, OwnJobStep

\* The job is ended, on the normal way or by the deferred call.
LEMMA EndJobStep ==
  ASSUME IndInv, NEW c \in Client, completeUploadJob(c) \/ DeferredEnd(c)
  PROVE  IndInv'
  <1> DEFINE j == [jobs[job[c]] EXCEPT !.state = "ended"]
  <1>1. /\ pc[c] \in {"endJob", "deferredEnd"} /\ pc[c] \in JobStage
        /\ graph \subseteq {"old"} \cup Client
    BY DEF completeUploadJob, DeferredEnd, JobStage, IndInv, TypeOK, ServerTypes
  <1>2. /\ j \in [state : {"open", "ended"}, files : {0, 1}]
        /\ [jobs EXCEPT ![job[c]].state = "ended"] = [jobs EXCEPT ![job[c]] = j]
    <2> DEFINE Job == [state : {"open", "ended"}, files : {0, 1}]
    <2>1. jobs \in Seq(Job) /\ job[c] \in 1..Len(jobs)
      BY <1>1 DEF IndInv, TypeOK, ServerTypes, JobKnown
    <2>2. jobs[job[c]] \in Job
      <3> HIDE DEF Job
      <3> QED
        BY <2>1
    <2>3. j \in [state : {"open", "ended"}, files : {0, 1}]
      BY <2>2
    <2> QED
      BY <2>1, <2>3
  <1>3. /\ UNCHANGED <<embedded, flag, exts, queries, nextId>>
        /\ UNCHANGED <<job, req, alone, runs, expired, todo>>
        /\ graph' \subseteq {"old"} \cup Client
        /\ failures' = failures \/ failures' = [failures EXCEPT ![c] = @ + 1]
        /\ faults' = faults \/ (faults < MaxFaults /\ faults' = faults + 1)
        /\ jobs' = jobs \/ jobs' = [jobs EXCEPT ![job[c]] = j]
    <2> HIDE DEF j
    <2>1. UNCHANGED server \/ EndEffect(c)
      BY DEF completeUploadJob, DeferredEnd, Call, TurnedDown
    <2>2. /\ UNCHANGED <<flag, exts, queries, nextId>>
          /\ graph' \subseteq {"old"} \cup Client
          /\ jobs' = jobs \/ jobs' = [jobs EXCEPT ![job[c]] = j]
      BY <2>1, <1>1, <1>2 DEF EndEffect, server
    <2>3. /\ UNCHANGED <<embedded, job, req, alone, runs, expired, todo>>
          /\ failures' = failures \/ failures' = [failures EXCEPT ![c] = @ + 1]
          /\ faults' = faults \/ (faults < MaxFaults /\ faults' = faults + 1)
      BY DEF completeUploadJob, DeferredEnd, Call, TurnedDown, Unanswered, RequestFails, StoppedWaiting, NoReply
    <2> QED
      BY <2>2, <2>3
  <1> HIDE DEF j
  <1>4. PICK s \in {"done", "failed", "killed", "deferredEnd"} :
          /\ pc' = [pc EXCEPT ![c] = s]
          /\ s = "deferredEnd" => failures' = [failures EXCEPT ![c] = @ + 1]
    BY DEF completeUploadJob, DeferredEnd, Call, TurnedDown, Unanswered, RequestFails, StoppedWaiting, OnError
  <1> QED
    BY <1>1, <1>2, <1>3, <1>4, OwnJobStep

-----------------------------------------------------------------------------
(* Starts, deadlines, kills *)

\* A run begins, or ends at once.
LEMMA StartStep ==
  ASSUME IndInv, NEW c \in Client, Start(c)
  PROVE  IndInv'
  <1>1. PICK s \in {"failed"} \cup AskStage : pc' = [pc EXCEPT ![c] = s]
    <2>1. FirstFrom(req[c], 1) \in AskStage
      BY FirstFromStage
    <2>2. pc' = [pc EXCEPT ![c] = IF Pointless(req[c]) THEN "failed" ELSE FirstFrom(req[c], 1)]
      BY DEF Start
    <2> QED
      BY <2>1, <2>2
  <1>2. s \in Stage \ JobStage /\ s # "importQueries" /\ s # "deferredEnd"
    BY Stages DEF Idle, AskStage, JobStage
  <1>3. ServerTypes'
    BY DEF IndInv, TypeOK, ServerTypes, Start, server
  <1>4. RunTypes'
    <2>1. alone' \in [Client -> BOOLEAN]
      BY DEF IndInv, TypeOK, RunTypes, Start, Running, Idle
    <2>2. runs' \in [Client -> 0..MaxRuns]
      BY BoundAssumption DEF IndInv, TypeOK, RunTypes, Start
    <2> QED
      BY <1>1, <1>2, <2>1, <2>2 DEF IndInv, TypeOK, RunTypes, Start
  <1>5. /\ pc'[c] = s /\ job'[c] = 0 /\ jobs' = jobs
        /\ \A d \in Client \ {c} : /\ pc'[d] = pc[d] /\ job'[d] = job[d]
                                   /\ failures'[d] = failures[d] /\ todo'[d] = todo[d]
    BY <1>1 DEF IndInv, TypeOK, RunTypes, Start, server
  <1>6. JobKnown'
    BY <1>2, <1>5 DEF IndInv, JobKnown, Running, Idle, JobStage
  <1>7. PastAndFuture'
    BY <1>2, <1>5 DEF IndInv, PastAndFuture
  <1> QED
    BY <1>3, <1>4, <1>6, <1>7 DEF IndInv, TypeOK

\* A deadline passes, a process is killed.
LEMMA EnvironmentStep ==
  ASSUME IndInv, NEW c \in Client, Expire(c) \/ Kill(c)
  PROVE  IndInv'
  <1>1. ServerTypes'
    BY DEF IndInv, TypeOK, ServerTypes, Expire, Kill, server
  <1>2. faults' \in 0..MaxFaults /\ "killed" \in Stage
    BY BoundAssumption, Stages DEF IndInv, TypeOK, RunTypes, Expire, Kill, Idle
  <1>3. RunTypes'
    BY <1>2 DEF IndInv, TypeOK, RunTypes, Expire, Kill
  <1>4. JobKnown' /\ PastAndFuture'
    <2>1. CASE Expire(c)
      BY <2>1 DEF IndInv, JobKnown, PastAndFuture, Expire, Running, server
    <2>2. CASE Kill(c)
      <3>1. /\ pc'[c] = "killed" /\ UNCHANGED <<job, jobs, failures, todo>>
            /\ \A d \in Client \ {c} : pc'[d] = pc[d]
        BY <2>2 DEF IndInv, TypeOK, RunTypes, Kill, server
      <3> QED
        BY <3>1 DEF IndInv, JobKnown, PastAndFuture, Running, Idle, JobStage
    <2> QED
      BY <2>1, <2>2
  <1> QED
    BY <1>1, <1>3, <1>4 DEF IndInv, TypeOK

\* Nothing happens.
LEMMA StutterStep == IndInv /\ UNCHANGED vars => IndInv'
  <1> SUFFICES ASSUME IndInv, UNCHANGED vars PROVE IndInv'
    OBVIOUS
  <1>1. ServerTypes' /\ RunTypes'
    BY DEF IndInv, TypeOK, ServerTypes, RunTypes, vars, server
  <1>2. JobKnown' /\ PastAndFuture'
    BY DEF IndInv, JobKnown, PastAndFuture, Running, vars, server
  <1> QED
    BY <1>1, <1>2 DEF IndInv, TypeOK

-----------------------------------------------------------------------------
\* Every step keeps the invariant.
LEMMA NextStep == IndInv /\ [Next]_vars => IndInv'
  <1> SUFFICES ASSUME IndInv, [Next]_vars PROVE IndInv'
    OBVIOUS
  <1>1. CASE UNCHANGED vars
    BY <1>1, StutterStep
  <1>2. ASSUME NEW c \in Client, Start(c) \/ Expire(c) \/ Kill(c)
        PROVE  IndInv'
    BY <1>2, StartStep, EnvironmentStep
  <1>3. ASSUME NEW c \in Client, Step(c)
        PROVE  IndInv'
    BY <1>3, LocalActions, CallActions, ListingActions, DeletionActions, AddingActions,
       CreateJobStep, SendFileStep, EndJobStep DEF Step
  <1> QED
    BY <1>1, <1>2, <1>3 DEF Next

\* The variables keep their types, and of two runs no one is within the other's
\* upload job (UploadOutput), for any number of operators, runs and faults.
THEOREM UploadInvariance == Spec => []IndInv
  BY InitInv, NextStep, PTL DEF Spec

\* A run that returns has ended the upload job whose number it was told, unless its
\* deadline has passed or a second request has failed (UploadOutput's deferred
\* completeUploadJob).
THEOREM JobsEndedAlways == Spec => JobsEnded
  <1> DEFINE Ended(c) ==
        Running(c) /\ pc'[c] \in {"done", "failed"} /\ job[c] # 0 =>
            \/ jobs'[job[c]].state = "ended"
            \/ expired[c]
            \/ failures'[c] >= 2
  <1>1. ASSUME IndInv, NEW c \in Client, [Next]_vars
        PROVE  Ended(c)
    <2> SUFFICES ASSUME Running(c), pc'[c] \in {"done", "failed"}, job[c] # 0
                 PROVE  \/ jobs'[job[c]].state = "ended"
                        \/ expired[c]
                        \/ failures'[c] >= 2
      OBVIOUS
    <2>1. /\ pc[c] \in JobStage /\ pc \in [Client -> Stage] /\ failures \in [Client -> Nat]
          /\ job[c] \in 1..Len(jobs)
          /\ pc[c] = "deferredEnd" => failures[c] >= 1
          /\ jobs \in Seq([state : {"open", "ended"}, files : {0, 1}])
      BY <1>1 DEF IndInv, TypeOK, RunTypes, ServerTypes, JobKnown, PastAndFuture
    <2>2. pc'[c] # pc[c] /\ pc'[c] # "killed"
      BY DEF Running, Idle
    <2>3. PICK d \in Client : Start(d) \/ Step(d) \/ Expire(d) \/ Kill(d)
      BY <1>1, <2>2 DEF Next, vars
    <2>4. d = c
      <3>1. \E s : pc' = [pc EXCEPT ![d] = s] \/ pc' = pc
        BY <2>3 DEF Start, Step, Expire, Kill, Local, Call, TurnedDown, Unanswered, RequestFails, StoppedWaiting,
           ResetDatabase, ReadFlags, Toggle, ResetAll, GetExtensions, DeleteExtension, getQueries,
           deleteQuery, LoadSchema, BadSchema, UploadExtension, LoadQueries, CheckQueries,
           uploadQuery, ReadFile, createUploadJob, uploadFileToJob, completeUploadJob, DeferredEnd
      <3> QED
        BY <3>1, <2>1, <2>2
    <2>5. uploadFileToJob(c) \/ completeUploadJob(c) \/ DeferredEnd(c)
      BY <2>1, <2>2, <2>3, <2>4 DEF JobStage, Start, Step, Expire, Kill, ResetDatabase, ReadFlags,
         Toggle, ResetAll, GetExtensions, DeleteExtension, getQueries, deleteQuery, LoadSchema,
         BadSchema, UploadExtension, LoadQueries, CheckQueries, uploadQuery, ReadFile,
         createUploadJob
    <2>6. CASE uploadFileToJob(c)
      BY <2>1, <2>2, <2>6 DEF uploadFileToJob, Call, Unanswered, RequestFails, StoppedWaiting, OnError
    <2>7. CASE completeUploadJob(c)
      <3>1. EndEffect(c)
        BY <2>1, <2>2, <2>7 DEF completeUploadJob, Call, Unanswered, RequestFails, StoppedWaiting, OnError
      <3> QED
        BY <3>1, <2>1 DEF EndEffect
    <2>8. CASE DeferredEnd(c)
      <3>1. \/ EndEffect(c)
            \/ failures' = [failures EXCEPT ![c] = @ + 1] /\ failures[c] >= 1
        BY <2>1, <2>8 DEF DeferredEnd, Call, TurnedDown, Unanswered, RequestFails, StoppedWaiting
      <3>2. CASE EndEffect(c)
        BY <3>2, <2>1 DEF EndEffect
      <3>3. CASE failures' = [failures EXCEPT ![c] = @ + 1] /\ failures[c] >= 1
        <4>1. failures[c] \in Nat /\ failures'[c] = failures[c] + 1
          BY <3>3, <2>1
        <4> QED
          BY <4>1, <3>3
      <3> QED
        BY <3>1, <3>2, <3>3
    <2> QED
      BY <2>5, <2>6, <2>7, <2>8
  <1>2. IndInv /\ [Next]_vars => [\A c \in Client : Ended(c)]_vars
    BY <1>1
  <1> QED
    BY <1>2, UploadInvariance, PTL DEF Spec, JobsEnded

\* The run whose toggle turns the feature flag off fails or was stopped, whoever else
\* toggled it (EnableOpenGraphExtensions looks at the answer).
THEOREM DisabledIsReportedAlways == Spec => DisabledIsReported
  <1> DEFINE Reported ==
        flag /\ ~flag' => \E c \in Client : Running(c) /\ pc'[c] \in {"failed", "killed"}
  <1>1. ASSUME IndInv, [Next]_vars
        PROVE  Reported
    <2> SUFFICES ASSUME flag, ~flag'
                 PROVE  \E c \in Client : Running(c) /\ pc'[c] \in {"failed", "killed"}
      OBVIOUS
    <2>1. PICK c \in Client : Start(c) \/ Step(c) \/ Expire(c) \/ Kill(c)
      BY <1>1 DEF Next, vars, server
    <2>2. Toggle(c)
      BY <2>1 DEF Start, Step, Expire, Kill, Local, Call, TurnedDown, EndEffect, server,
         ResetDatabase, ReadFlags, ResetAll, GetExtensions, DeleteExtension, getQueries,
         deleteQuery, LoadSchema, BadSchema, UploadExtension, LoadQueries, CheckQueries,
         uploadQuery, ReadFile, createUploadJob, uploadFileToJob, completeUploadJob, DeferredEnd
    <2>3. /\ pc[c] = "toggle"
          /\ \E s \in {"failed", "killed"} : pc' = [pc EXCEPT ![c] = s]
      BY <2>2 DEF Toggle, Call, Unanswered, RequestFails, StoppedWaiting, OnError
    <2> QED
      BY <1>1, <2>3 DEF IndInv, TypeOK, RunTypes, Running, Idle
  <1>2. IndInv /\ [Next]_vars => [Reported]_vars
    BY <1>1
  <1> QED
    BY <1>2, UploadInvariance, PTL DEF Spec, DisabledIsReported

-----------------------------------------------------------------------------
(* A bad file deletes nothing *)

\* Before the first run nothing is lost.
LEMMA FilesInit == Init => FilesFirst
  <1> SUFFICES ASSUME Init PROVE FilesFirst
    OBVIOUS
  <1>1. \A c \in Client : runs[c] = 0 /\ pc[c] = "idle"
    BY DEF Init
  <1>2. Custom # {} /\ queries # {}
    <2>1. [id |-> 2, name |-> "custom", content |-> "old"] \in exts
      BY DEF Init
    <2>2. [id |-> 2, name |-> "custom", content |-> "old"].name \notin Builtin
      BY DEF Builtin
    <2>3. queries # {}
      BY DEF Init
    <2> QED
      BY <2>1, <2>2, <2>3 DEF Custom
  <1> QED
    BY <1>1, <1>2 DEF FilesFirst, Intact, Emptied, NoQueries

\* What a step leaves of the run it belongs to, and of the others.
StepFrame(c) ==
  /\ UNCHANGED <<embedded, req, alone, runs, expired>>
  /\ \A d \in Client \ {c} : pc'[d] = pc[d] /\ failures'[d] = failures[d]
  /\ failures'[c] = failures[c] \/ (failures'[c] = failures[c] + 1 /\ pc'[c] \in {"failed", "killed", "deferredEnd"})

\* Every step has this frame.
LEMMA StepShape ==
  ASSUME IndInv, NEW c \in Client, Step(c)
  PROVE  StepFrame(c) /\ pc[c] \in Stage \ Idle
  <1>1. pc \in [Client -> Stage] /\ failures \in [Client -> Nat]
    BY DEF IndInv, TypeOK, RunTypes
  <1>2. \/ \E s : pc' = [pc EXCEPT ![c] = s] /\ failures' = failures
        \/ /\ \E s \in {OnError(c), "killed"} : pc' = [pc EXCEPT ![c] = s]
           /\ failures' = [failures EXCEPT ![c] = @ + 1]
    BY DEF Step, Local, Call, TurnedDown, Unanswered, RequestFails, StoppedWaiting,
       ResetDatabase, ReadFlags, Toggle, ResetAll, GetExtensions, DeleteExtension, getQueries,
       deleteQuery, LoadSchema, BadSchema, UploadExtension, LoadQueries, CheckQueries,
       uploadQuery, ReadFile, createUploadJob, uploadFileToJob, completeUploadJob, DeferredEnd
  <1>3. UNCHANGED <<embedded, req, alone, runs, expired>>
    BY DEF Step, Local, Call, TurnedDown, Unanswered, RequestFails, StoppedWaiting,
       ResetDatabase, ReadFlags, Toggle, ResetAll, GetExtensions, DeleteExtension, getQueries,
       deleteQuery, LoadSchema, BadSchema, UploadExtension, LoadQueries, CheckQueries,
       uploadQuery, ReadFile, createUploadJob, uploadFileToJob, completeUploadJob, DeferredEnd
  <1>4. pc[c] \notin Idle
    BY DEF Step, Idle,
       ResetDatabase, ReadFlags, Toggle, ResetAll, GetExtensions, DeleteExtension, getQueries,
       deleteQuery, LoadSchema, BadSchema, UploadExtension, LoadQueries, CheckQueries,
       uploadQuery, ReadFile, createUploadJob, uploadFileToJob, completeUploadJob, DeferredEnd
  <1>5. /\ \A d \in Client \ {c} : pc'[d] = pc[d] /\ failures'[d] = failures[d]
        /\ failures'[c] = failures[c] \/ (failures'[c] = failures[c] + 1 /\ pc'[c] \in {"failed", "killed", "deferredEnd"})
    BY <1>1, <1>2 DEF OnError
  <1> QED
    BY <1>1, <1>3, <1>4, <1>5 DEF StepFrame

\* A run comes to the reset alone only if it is all that is asked for.
LEMMA ResetAllStep ==
  ASSUME IndInv, NEW c \in Client, Step(c), pc'[c] = "resetAll"
  PROVE  ResetOnly(req[c])
  <1>1. pc \in [Client -> Stage]
    BY DEF IndInv, TypeOK, RunTypes
  <1>2. \E stage \in {"resetDB", "flags", "loadSchema", "loadQueries"} :
          pc'[c] = After(req[c], stage)
    BY <1>1 DEF Step, Local, Call, TurnedDown, Unanswered, RequestFails, StoppedWaiting, OnError, AfterExts, AfterQueries,
       ResetDatabase, ReadFlags, Toggle, ResetAll, GetExtensions, DeleteExtension, getQueries,
       deleteQuery, LoadSchema, BadSchema, UploadExtension, LoadQueries, CheckQueries,
       uploadQuery, ReadFile, createUploadJob, uploadFileToJob, completeUploadJob, DeferredEnd
  <1>3. PICK i \in 1..7 : FirstFrom(req[c], i) = "resetAll"
    BY <1>2, AfterPlace
  <1> QED
    BY <1>3, ResetAsked

\* A request that did not fail.
LEMMA NotFailed ==
  ASSUME IndInv, NEW c \in Client, failures'[c] = failures[c]
  PROVE  ~Unanswered(c) /\ ~RequestFails(c)
  BY DEF IndInv, TypeOK, RunTypes, Unanswered, RequestFails, StoppedWaiting

\* Most steps touch neither extensions nor queries.
LEMMA UntouchedStep ==
  ASSUME IndInv, NEW c \in Client, Intact(c), failures'[c] = failures[c],
         \/ ResetDatabase(c) \/ ReadFlags(c) \/ Toggle(c) \/ ReadFile(c)
         \/ createUploadJob(c) \/ uploadFileToJob(c) \/ completeUploadJob(c) \/ DeferredEnd(c)
  PROVE  Intact(c)'
  <1>1. pc \in [Client -> Stage] /\ ~Unanswered(c) /\ ~RequestFails(c)
    BY NotFailed DEF IndInv, TypeOK, RunTypes
  <1>2. UNCHANGED <<exts, queries>>
    BY <1>1 DEF ResetDatabase, ReadFlags, Toggle, ReadFile, createUploadJob, uploadFileToJob,
       completeUploadJob, DeferredEnd, Local, Call, TurnedDown, EndEffect, server
  <1>3. Custom # {} /\ queries # {}
    BY DEF Intact, Emptied, NoQueries, ResetDatabase, ReadFlags, Toggle, ReadFile,
       createUploadJob, uploadFileToJob, completeUploadJob, DeferredEnd
  <1>4. pc'[c] \in AskStage \cup {"toggle", "failed", "startJob", "sendFile", "endJob", "done"}
    <2>1. After(req[c], "resetDB") \in AskStage /\ After(req[c], "flags") \in AskStage
      BY AfterStage DEF AskStage
    <2> QED
      BY <1>1, <2>1 DEF ResetDatabase, ReadFlags, Toggle, ReadFile, createUploadJob,
         uploadFileToJob, completeUploadJob, DeferredEnd, Local, Call, TurnedDown
  <1>5. Custom' # {} /\ queries' # {}
    BY <1>2, <1>3 DEF Custom
  <1>6. pc'[c] \notin {"listExts", "deleteExts", "putSchema", "listQueries", "deleteQueries", "checkQueries"}
    BY <1>4 DEF AskStage
  <1> QED
    BY <1>5, <1>6 DEF Intact

\* The files are read before extensions go.
LEMMA ExtensionsStep ==
  ASSUME IndInv, NEW c \in Client, Intact(c), failures'[c] = failures[c], Careful(c),
         pc[c] = "resetAll" => ResetOnly(req[c]),
         \/ ResetAll(c) \/ GetExtensions(c) \/ DeleteExtension(c) \/ LoadSchema(c) \/ BadSchema(c)
  PROVE  Intact(c)'
  <1>1. /\ pc \in [Client -> Stage] /\ ~Unanswered(c) /\ ~RequestFails(c) /\ req' = req
        /\ ResetOnly(req[c]) => req[c].schema = "none" /\ req[c].queries = "none"
    BY NotFailed DEF IndInv, TypeOK, RunTypes, ResetOnly, ResetAll, GetExtensions,
       DeleteExtension, LoadSchema, BadSchema, Local, Call, TurnedDown
  <1>2. queries # {} /\ queries' = queries
    BY <1>1 DEF Intact, NoQueries, ResetAll, GetExtensions, DeleteExtension, LoadSchema, BadSchema,
       Local, Call, TurnedDown, server
  <1>3. CASE ResetAll(c)
    <2>1. pc'[c] = "listExts" /\ exts' = exts /\ Custom # {}
      BY <1>1, <1>3 DEF ResetAll, Local, server, Intact, Emptied
    <2>2. Custom' # {} /\ req[c].schema = "none"
      BY <1>1, <1>3, <2>1 DEF Custom, ResetAll
    <2> QED
      BY <1>1, <1>2, <2>1, <2>2 DEF Intact
  <1>4. CASE GetExtensions(c)
    <2>1. Custom # {} /\ pc[c] = "listExts"
      BY <1>4 DEF GetExtensions, Intact, Emptied
    <2>2. pc'[c] = "deleteExts"
      BY <1>1, <1>4, <2>1 DEF GetExtensions, Call
    <2> QED
      BY <1>1, <1>2, <2>1, <2>2 DEF Intact, Emptied
  <1>5. CASE DeleteExtension(c)
    <2>1. pc[c] = "deleteExts" /\ pc'[c] \in {"deleteExts", AfterExts(req[c])}
      BY <1>1, <1>5 DEF DeleteExtension, Call, TurnedDown
    <2>2. CASE ResetOnly(req[c])
      <3>1. pc'[c] \in {"deleteExts", "listQueries"}
        BY <2>1, <2>2 DEF AfterExts
      <3> QED
        BY <1>1, <1>2, <2>1, <2>2, <3>1 DEF Intact, Emptied
    <2>3. CASE ~ResetOnly(req[c])
      <3>1. pc'[c] \in {"deleteExts", "putSchema"}
        BY <2>1, <2>3 DEF AfterExts
      <3> QED
        BY <1>1, <1>2, <2>1, <3>1 DEF Intact, Emptied
    <2> QED
      BY <2>2, <2>3
  <1>6. CASE LoadSchema(c)
    <2>1. Custom # {} /\ exts' = exts
      BY <1>6 DEF LoadSchema, Intact, Emptied, Local, server
    <2>2. /\ pc'[c] \in {"failed", "listExts", "putSchema"}
          /\ pc'[c] # "failed" => ~LoadFails(req[c].schema)
      BY <1>1, <1>6 DEF LoadSchema, Local
    <2>3. pc'[c] # "failed" => req[c].schema # "malformed"
      BY <2>2 DEF LoadFails, Careful, FoundLate
    <2>4. Custom' # {}
      BY <2>1 DEF Custom
    <2> QED
      BY <1>1, <1>2, <2>2, <2>3, <2>4 DEF Intact
  <1>7. CASE BadSchema(c)
    BY <1>7 DEF BadSchema, Intact
  <1> QED
    BY <1>3, <1>4, <1>5, <1>6, <1>7

\* And before queries go.
LEMMA QueriesStep ==
  ASSUME IndInv, NEW c \in Client, Intact(c), failures'[c] = failures[c], Careful(c),
         getQueries(c) \/ deleteQuery(c) \/ LoadQueries(c) \/ CheckQueries(c)
  PROVE  Intact(c)'
  <1>1. /\ pc \in [Client -> Stage] /\ ~Unanswered(c) /\ ~RequestFails(c) /\ req' = req /\ exts' = exts
    BY NotFailed DEF IndInv, TypeOK, RunTypes, getQueries, deleteQuery, LoadQueries, CheckQueries,
       Local, Call, TurnedDown, server
  <1>2. Custom' = Custom
    BY <1>1 DEF Custom
  <1>3. CASE getQueries(c)
    <2>1. queries # {} /\ pc[c] = "listQueries"
      BY <1>3 DEF getQueries, Intact, NoQueries
    <2>2. pc'[c] = "deleteQueries"
      BY <1>1, <1>3, <2>1 DEF getQueries, Call
    <2> QED
      BY <1>1, <1>2, <2>1, <2>2 DEF Intact, Emptied, NoQueries
  <1>4. CASE deleteQuery(c)
    <2>1. pc[c] = "deleteQueries" /\ pc'[c] \in {"deleteQueries", AfterQueries(req[c])}
      BY <1>1, <1>4 DEF deleteQuery, Call, TurnedDown
    <2>2. CASE ResetOnly(req[c])
      <3>1. pc'[c] \in {"deleteQueries", "done"}
        BY <2>1, <2>2 DEF AfterQueries
      <3> QED
        BY <1>1, <1>2, <2>1, <2>2, <3>1 DEF Intact, Emptied, NoQueries
    <2>3. CASE ~ResetOnly(req[c])
      <3>1. pc'[c] \in {"deleteQueries", "checkQueries"}
        BY <2>1, <2>3 DEF AfterQueries
      <3> QED
        BY <1>1, <1>2, <2>1, <2>3, <3>1 DEF Intact, Emptied, NoQueries
    <2> QED
      BY <2>2, <2>3
  <1>5. CASE LoadQueries(c)
    <2>1. Custom # {} /\ queries # {} /\ queries' = queries
      BY <1>5 DEF LoadQueries, Intact, Emptied, NoQueries, Local, server
    <2>2. /\ pc'[c] \in {"failed", "listQueries", "checkQueries"}
          /\ pc'[c] # "failed" => ~LoadFails(req[c].queries)
      BY <1>1, <1>5 DEF LoadQueries, Local
    <2>3. pc'[c] # "failed" => req[c].queries # "malformed"
      BY <2>2 DEF LoadFails, Careful, FoundLate
    <2> QED
      BY <1>1, <1>2, <2>1, <2>2, <2>3 DEF Intact
  <1>6. CASE CheckQueries(c)
    <2>1. Wanted(req[c]) # {}
      BY QueriesAssumption DEF Wanted, Careful, FoundLate
    <2>2. pc[c] = "checkQueries" /\ req[c].queries \notin {"malformed", "badTemplate"}
      BY <1>6 DEF CheckQueries, Intact, Careful, FoundLate
    <2>3. pc'[c] = "importQueries" /\ Custom # {}
      BY <1>1, <1>6, <2>1, <2>2 DEF CheckQueries, Local, Intact, Emptied
    <2> QED
      BY <1>1, <1>2, <2>3 DEF Intact, NoQueries
  <1> QED
    BY <1>3, <1>4, <1>5, <1>6

\* What is uploaded takes the place of what went.
LEMMA ReplacingStep ==
  ASSUME IndInv, NEW c \in Client, Intact(c), failures'[c] = failures[c],
         UploadExtension(c) \/ uploadQuery(c)
  PROVE  Intact(c)'
  <1>1. pc \in [Client -> Stage] /\ ~Unanswered(c) /\ ~RequestFails(c)
    BY NotFailed DEF IndInv, TypeOK, RunTypes
  <1>2. CASE UploadExtension(c)
    <2>1. PICK id : exts' = {e \in exts : e.name # "kubernetes"} \cup
                            {[id |-> id, name |-> "kubernetes", content |-> "new"]}
      BY <1>1, <1>2 DEF UploadExtension, Call
    <2>2. Custom' # {}
      <3> DEFINE x == [id |-> id, name |-> "kubernetes", content |-> "new"]
      <3>1. x.name \notin Builtin
        BY DEF Builtin
      <3> HIDE DEF x
      <3>2. x \in exts'
        BY <2>1 DEF x
      <3> QED
        BY <3>1, <3>2 DEF Custom
    <2>3. pc'[c] \in AskStage /\ queries' = queries /\ queries # {}
      <3>1. After(req[c], "loadSchema") \in AskStage
        BY AfterStage DEF AskStage
      <3> QED
        BY <1>1, <1>2, <3>1 DEF UploadExtension, Call, Intact, NoQueries
    <2> QED
      BY <2>2, <2>3 DEF Intact, AskStage
  <1>3. CASE uploadQuery(c)
    <2>1. queries' # {} /\ exts' = exts /\ Custom # {}
      BY <1>1, <1>3 DEF uploadQuery, Call, Intact, Emptied
    <2>2. pc'[c] \in AskStage \cup {"importQueries"}
      <3>1. After(req[c], "loadQueries") \in AskStage
        BY AfterStage DEF AskStage
      <3> QED
        BY <1>1, <1>3, <3>1 DEF uploadQuery, Call
    <2>3. Custom' # {}
      BY <2>1 DEF Custom
    <2> QED
      BY <2>1, <2>2, <2>3 DEF Intact, AskStage
  <1> QED
    BY <1>2, <1>3

\* A careful run loses nothing at any of its steps.
LEMMA IntactStep ==
  ASSUME IndInv, FilesFirst, NEW c \in Client, Step(c), Careful(c)'
  PROVE  Intact(c)'
  <1>1. StepFrame(c) /\ failures \in [Client -> Nat]
    BY StepShape DEF IndInv, TypeOK, RunTypes
  <1>2. failures'[c] = 0 /\ failures'[c] = failures[c]
    <2>1. failures'[c] = 0
      BY DEF Careful
    <2> QED
      BY <1>1, <2>1 DEF StepFrame
  <1>3. Careful(c)
    <2>1. UNCHANGED <<embedded, req, alone, runs, expired>>
      BY <1>1 DEF StepFrame
    <2> QED
      BY <1>2, <2>1 DEF Careful, First, FoundLate
  <1>4. Intact(c) /\ (pc[c] = "resetAll" => ResetOnly(req[c]))
    BY <1>3 DEF FilesFirst
  <1> QED
    BY <1>2, <1>3, <1>4, UntouchedStep, ExtensionsStep, QueriesStep, ReplacingStep DEF Step

\* Nor does anything else happen beside a careful run.
LEMMA FilesStep ==
  ASSUME IndInv, FilesFirst, [Next]_vars
  PROVE  FilesFirst'
  <1>0. pc \in [Client -> Stage] /\ runs \in [Client -> 0..MaxRuns]
    BY DEF IndInv, TypeOK, RunTypes
  <1>1. CASE UNCHANGED vars
    BY <1>1 DEF FilesFirst, Careful, First, FoundLate, Intact, Emptied, Custom, vars, server
  <1>2. ASSUME NEW c \in Client, Start(c)
        PROVE  FilesFirst'
    <2>1. runs'[c] = runs[c] + 1 /\ \A d \in Client \ {c} : runs'[d] = runs[d] /\ pc'[d] = pc[d]
      BY <1>0, <1>2 DEF Start
    <2>2. runs'[c] # 0 /\ UNCHANGED <<exts, queries, req>>
      BY <1>0, <1>2, <2>1 DEF Start, server
    <2>3. pc'[c] \in AskStage \cup {"failed"} /\ (pc'[c] = "resetAll" => ResetOnly(req[c]))
      <3>1. pc'[c] \in {FirstFrom(req[c], 1), "failed"}
        BY <1>0, <1>2 DEF Start
      <3>2. FirstFrom(req[c], 1) \in AskStage
        BY FirstFromStage
      <3>3. FirstFrom(req[c], 1) = "resetAll" => ResetOnly(req[c])
        BY ResetAsked
      <3> QED
        BY <3>1, <3>2, <3>3
    <2>4. ASSUME NEW d \in Client, Careful(d)'
          PROVE  Intact(d)'
      <3>1. \A e \in Client : runs'[e] = IF e = d THEN 1 ELSE 0
        BY <2>4 DEF Careful, First
      <3>2. d = c /\ \A e \in Client : runs[e] = 0
        BY <1>0, <2>1, <2>2, <3>1
      <3>3. Custom' # {} /\ queries' # {}
        BY <2>2, <3>2 DEF FilesFirst, Custom
      <3> QED
        BY <2>3, <3>2, <3>3 DEF Intact, AskStage
    <2>5. \A d \in Client : pc'[d] = "resetAll" => ResetOnly(req'[d])
      BY <2>1, <2>2, <2>3 DEF FilesFirst
    <2>6. \A d \in Client : runs'[d] = 0 => pc'[d] = "idle"
      BY <2>1, <2>2 DEF FilesFirst
    <2> QED
      BY <2>2, <2>4, <2>5, <2>6 DEF FilesFirst
  <1>3. ASSUME NEW c \in Client, Expire(c) \/ Kill(c)
        PROVE  FilesFirst'
    <2>1. /\ UNCHANGED <<embedded, exts, queries, req, alone, runs, failures>>
          /\ \A d \in Client \ {c} : pc'[d] = pc[d] /\ expired'[d] = expired[d]
          /\ pc'[c] = "killed" \/ (pc'[c] = pc[c] /\ expired'[c])
          /\ pc[c] # "idle"
      BY <1>0, <1>3 DEF Expire, Kill, server, Running, Idle, IndInv, TypeOK, RunTypes
    <2>2. runs[c] # 0 /\ Custom' = Custom
      BY <2>1 DEF FilesFirst, Custom
    <2>3. ASSUME NEW d \in Client, Careful(d)'
          PROVE  Intact(d)'
      <3>1. CASE d = c
        <4>1. pc'[c] = "killed"
          BY <2>1, <2>3, <3>1 DEF Careful
        <4> QED
          BY <3>1, <4>1 DEF Intact, Emptied, NoQueries
      <3>2. CASE d # c
        <4>1. runs'[c] = 0
          BY <2>3, <3>2 DEF Careful, First
        <4> QED
          BY <2>1, <2>2, <4>1
      <3> QED
        BY <3>1, <3>2
    <2> QED
      BY <2>1, <2>2, <2>3 DEF FilesFirst
  <1>4. ASSUME NEW c \in Client, Step(c)
        PROVE  FilesFirst'
    <2>1. StepFrame(c) /\ pc[c] \notin Idle
      BY <1>4, StepShape
    <2>2. runs' = runs /\ req' = req /\ runs[c] # 0 /\ \A d \in Client \ {c} : pc'[d] = pc[d]
      BY <2>1 DEF StepFrame, FilesFirst, Idle
    <2>3. ASSUME NEW d \in Client, Careful(d)'
          PROVE  Intact(d)'
      <3>1. d = c
        BY <2>2, <2>3 DEF Careful, First
      <3> QED
        BY <1>4, <2>3, <3>1, IntactStep
    <2>4. \A d \in Client : pc'[d] = "resetAll" => ResetOnly(req'[d])
      BY <1>4, <2>2, ResetAllStep DEF FilesFirst
    <2> QED
      BY <2>2, <2>3, <2>4 DEF FilesFirst
  <1> QED
    BY <1>1, <1>2, <1>3, <1>4 DEF Next

\* Files are read and merged before the reset (UploadService.Run): in a first run whose
\* requests all succeed, a file that is found bad leaves extensions and queries on the
\* server, in every build, save for the bad files that are only found after the reset
\* (FoundLate).
THEOREM BadFileDeletesNothingAlways == Spec => []BadFileDeletesNothing
  <1>1. FilesFirst => BadFileDeletesNothing
    <2> SUFFICES ASSUME FilesFirst, NEW c \in Client, pc[c] = "failed", Careful(c)
                 PROVE  (\E e \in exts : e.name \notin Builtin) /\ queries # {}
      BY DEF BadFileDeletesNothing, Careful
    <2>1. Custom # {} /\ queries # {}
      BY DEF FilesFirst, Intact, Emptied, NoQueries
    <2> QED
      BY <2>1 DEF Custom
  <1>2. IndInv /\ FilesFirst /\ [Next]_vars => FilesFirst'
    BY FilesStep
  <1> QED
    BY <1>1, <1>2, FilesInit, UploadInvariance, PTL DEF Spec

-----------------------------------------------------------------------------
(* Success is complete: the stages of a run on its own *)

\* The place of each stage.
LEMMA PlacePosition ==
  ASSUME NEW r, NEW m \in 1..7
  PROVE  Position(r, OrderOrDone(m)) = m /\ OrderOrDone(m) \in AskStage
  <1>1. m = 1 \/ m = 2 \/ m = 3 \/ m = 4 \/ m = 5 \/ m = 6 \/ m = 7
    OBVIOUS
  <1> QED
    BY <1>1, Places DEF Position, OrderOrDone, AskStage

\* The place of a stage.
LEMMA StagePosition ==
  ASSUME NEW r
  PROVE  /\ Position(r, "resetDB") = 1
         /\ \A s \in {"flags", "toggle"} : Position(r, s) = 2
         /\ Position(r, "resetAll") = 3
         /\ \A s \in {"loadSchema", "putSchema"} : Position(r, s) = 4
         /\ \A s \in {"loadQueries", "checkQueries", "importQueries"} : Position(r, s) = 5
         /\ \A s \in {"readFile", "startJob", "sendFile", "endJob"} : Position(r, s) = 6
         /\ Position(r, "done") = 7
         /\ \A s \in {"listExts", "deleteExts"} : Position(r, s) = IF ResetOnly(r) THEN 3 ELSE 4
         /\ \A s \in {"listQueries", "deleteQueries"} : Position(r, s) = IF ResetOnly(r) THEN 3 ELSE 5
  BY DEF Position

\* What is asked for, by place.
LEMMA PlaceAsks ==
  ASSUME NEW r
  PROVE  /\ Asks(r, Order[1]) = r.resetDB
         /\ Asks(r, Order[2]) = r.enable
         /\ Asks(r, Order[3]) = ResetOnly(r)
         /\ Asks(r, Order[4]) = (~ResetOnly(r) /\ r.schema # "none")
         /\ Asks(r, Order[5]) = (~ResetOnly(r) /\ r.queries # "none")
         /\ Asks(r, Order[6]) = (~ResetOnly(r) /\ r.upload # "none")
  BY Places DEF Asks

\* An effect lasts as long as the part of the server it is about.
LEMMA EffectKept ==
  ASSUME NEW c \in Client, req' = req, embedded' = embedded
  PROVE  /\ graph' = graph => Effect(c, 1)' = Effect(c, 1) /\ Effect(c, 6)' = Effect(c, 6)
         /\ flag' = flag => Effect(c, 2)' = Effect(c, 2)
         /\ exts' = exts /\ queries' = queries => Effect(c, 3)' = Effect(c, 3)
         /\ exts' = exts => Effect(c, 4)' = Effect(c, 4)
         /\ queries' = queries => Effect(c, 5)' = Effect(c, 5)
  <1>1. exts' = exts => Custom' = Custom /\ Kubernetes' = Kubernetes
    BY DEF Custom, Kubernetes
  <1>2. queries' = queries => Imported(req[c], Wanted(req[c]))' = Imported(req[c], Wanted(req[c]))
    <2> SUFFICES ASSUME queries' = queries
                 PROVE  Imported(req[c], Wanted(req[c]))' = Imported(req[c], Wanted(req[c]))
      OBVIOUS
    <2> QED
      BY DEF Imported, Named, Wanted
  <1> QED
    BY <1>1, <1>2 DEF Effect

\* What a run did before its i-th flag lasts through a step.
Kept(c, i) ==
  /\ req' = req
  /\ \A k \in 1..(i - 1) : Asks(req[c], Order[k]) => Effect(c, k)'

\* A run that goes on with the next flag it has.
LEMMA Onward ==
  ASSUME NEW c \in Client, NEW i \in 1..7, pc'[c] = FirstFrom(req[c], i), Kept(c, i)
  PROVE  Progress(c)'
  <1>1. PICK m \in i..7 : /\ pc'[c] = OrderOrDone(m)
                          /\ m < 7 => Asks(req[c], Order[m])
                          /\ \A k \in i..(m - 1) : ~Asks(req[c], Order[k])
    BY FirstFromPlace
  <1>2. Position(req[c], pc'[c]) = m /\ pc'[c] \in AskStage /\ req' = req
    BY <1>1, PlacePosition DEF Kept
  <1>3. \A k \in 1..(m - 1) : Asks(req[c], Order[k]) => Effect(c, k)'
    <2> SUFFICES ASSUME NEW k \in 1..(m - 1), Asks(req[c], Order[k]) PROVE Effect(c, k)'
      OBVIOUS
    <2>1. k \in 1..(i - 1) \/ k \in i..(m - 1)
      OBVIOUS
    <2> QED
      BY <1>1, <2>1 DEF Kept
  <1>4. Midway(c)'
    BY <1>2 DEF Midway, AskStage
  <1> QED
    BY <1>1, <1>2, <1>3, <1>4 DEF Progress

\* A run that stays with its flag.
LEMMA Onwards ==
  ASSUME NEW c \in Client, NEW p \in 1..6, Position(req[c], pc'[c]) = p,
         Asks(req[c], Order[p]), Kept(c, p), Midway(c)'
  PROVE  Progress(c)'
  BY DEF Progress, Kept

\* The effects so far.
LEMMA SoFar ==
  ASSUME NEW c \in Client, Progress(c), NEW p \in 1..6, Position(req[c], pc[c]) = p
  PROVE  /\ Asks(req[c], Order[p])
         /\ \A k \in 1..(p - 1) : Asks(req[c], Order[k]) => Effect(c, k)
         /\ Midway(c)
  BY DEF Progress

\* Within a flag only its own part of the server changes.
LEMMA KeptSoFar ==
  ASSUME NEW c \in Client, Progress(c), NEW p \in 1..6, Position(req[c], pc[c]) = p,
         UNCHANGED <<embedded, req>>,
         p = 1 \/ graph' = graph \/ (graph' = graph \cup {c} /\ p = 6),
         p <= 2 \/ flag' = flag,
         p <= 4 \/ exts' = exts,
         p <= 5 \/ queries' = queries
  PROVE  Kept(c, p)
  <1>1. /\ Asks(req[c], Order[p])
        /\ \A k \in 1..(p - 1) : Asks(req[c], Order[k]) => Effect(c, k)
    BY SoFar
  <1>2. SUFFICES ASSUME NEW k \in 1..(p - 1), Asks(req[c], Order[k]), Effect(c, k)
                 PROVE  Effect(c, k)'
    BY <1>1 DEF Kept
  <1>3. k \in 1..5 /\ k < p /\ p <= 6 /\ p > 1
    OBVIOUS
  <1>4. k = 1 \/ k = 2 \/ k = 3 \/ k = 4 \/ k = 5
    BY <1>3
  <1>5. CASE k = 1
    <2>1. "old" \notin graph
      BY <1>2, <1>5 DEF Effect
    <2>2. graph' = graph \/ graph' = graph \cup {c}
      BY <1>3
    <2>3. "old" \notin graph'
      BY <2>1, <2>2, ClientAssumption
    <2> QED
      BY <1>5, <2>3 DEF Effect
  <1>6. CASE k = 2
    BY <1>2, <1>3, <1>6, EffectKept
  <1>7. CASE k = 3
    <2>1. ResetOnly(req[c])
      BY <1>2, <1>7, PlaceAsks
    <2>2. p \notin {4, 5, 6}
      BY <1>1, <2>1, PlaceAsks
    <2> QED
      BY <1>3, <1>7, <2>2
  <1>8. CASE k = 4
    <2>1. exts' = exts
      BY <1>3, <1>8
    <2> QED
      BY <1>2, <1>8, <2>1, EffectKept
  <1>9. CASE k = 5
    <2>1. queries' = queries
      BY <1>3, <1>9
    <2> QED
      BY <1>2, <1>9, <2>1, EffectKept
  <1> QED
    BY <1>4, <1>5, <1>6, <1>7, <1>8, <1>9

\* One effect more.
LEMMA KeptNext ==
  ASSUME NEW c \in Client, NEW p \in 1..6, Kept(c, p), Asks(req[c], Order[p]) => Effect(c, p)'
  PROVE  Kept(c, p + 1)
  <1> SUFFICES ASSUME NEW k \in 1..(p + 1 - 1), Asks(req[c], Order[k])
               PROVE  Effect(c, k)'
    BY DEF Kept
  <1>1. k = p \/ k \in 1..(p - 1)
    OBVIOUS
  <1> QED
    BY <1>1 DEF Kept

-----------------------------------------------------------------------------
(* What each step adds *)

\* A step leaves its run with what it did, or ends it.
Goes(c) == pc'[c] \in {"failed", "killed", "deferredEnd"} \/ Progress(c)'

\* What failed requests have in common.
LEMMA FailedGoes ==
  ASSUME IndInv, NEW c \in Client, Unanswered(c)
  PROVE  Goes(c)
  <1>1. pc'[c] \in {OnError(c), "killed"}
    BY DEF IndInv, TypeOK, RunTypes, Unanswered, RequestFails, StoppedWaiting
  <1> QED
    BY <1>1 DEF OnError, Goes

\* The old data goes.
LEMMA DatabaseGoes ==
  ASSUME IndInv, NEW c \in Client, Progress(c), ResetDatabase(c)
  PROVE  Goes(c)
  <1> SUFFICES ASSUME ~Unanswered(c), ~RequestFails(c) PROVE Goes(c)
    BY FailedGoes DEF Unanswered
  <1>1. /\ pc'[c] = FirstFrom(req[c], 2) /\ graph' = {} /\ pc[c] = "resetDB"
        /\ UNCHANGED <<embedded, req, flag, exts, queries>>
    BY AfterPlace DEF IndInv, TypeOK, RunTypes, ResetDatabase, Call
  <1>2. Kept(c, 1)
    BY <1>1 DEF Kept
  <1>3. Effect(c, 1)'
    BY <1>1 DEF Effect
  <1>4. Kept(c, 2)
    <2>1. Kept(c, 1 + 1)
      BY <1>2, <1>3, KeptNext
    <2> QED
      BY <2>1
  <1> QED
    BY <1>1, <1>4, Onward DEF Goes

\* The flag is on when its stages end.
LEMMA FlagGoes ==
  ASSUME IndInv, NEW c \in Client, Progress(c), ReadFlags(c) \/ Toggle(c)
  PROVE  Goes(c)
  <1> SUFFICES ASSUME ~Unanswered(c), ~RequestFails(c) PROVE Goes(c)
    BY FailedGoes DEF Unanswered
  <1>1. /\ UNCHANGED <<embedded, req, graph, exts, queries>> /\ Position(req[c], pc[c]) = 2
        /\ pc \in [Client -> Stage]
    BY StagePosition DEF IndInv, TypeOK, RunTypes, ReadFlags, Toggle, Call, server
  <1>2. Kept(c, 2) /\ Asks(req[c], Order[2])
    BY <1>1, KeptSoFar, SoFar
  <1>3. CASE ReadFlags(c) /\ ~flag
    <2>1. pc'[c] = "toggle"
      BY <1>1, <1>3 DEF ReadFlags, Call
    <2>2. Position(req[c], pc'[c]) = 2 /\ Midway(c)'
      BY <2>1, StagePosition DEF Midway
    <2> QED
      BY <1>2, <2>2, Onwards DEF Goes
  <1>4. CASE (ReadFlags(c) /\ flag) \/ (Toggle(c) /\ ~flag)
    <2>1. pc'[c] = FirstFrom(req[c], 3) /\ flag'
      <3>1. CASE ReadFlags(c) /\ flag
        BY <1>1, <3>1, AfterPlace DEF ReadFlags, Call, server
      <3>2. CASE Toggle(c) /\ ~flag
        BY <1>1, <3>2, AfterPlace DEF Toggle, Call
      <3> QED
        BY <1>4, <3>1, <3>2
    <2>2. Effect(c, 2)'
      BY <2>1 DEF Effect
    <2>3. Kept(c, 3)
      <3>1. Kept(c, 2 + 1)
        BY <1>2, <2>2, KeptNext
      <3> QED
        BY <3>1
    <2> QED
      BY <2>1, <2>3, Onward DEF Goes
  <1>5. CASE Toggle(c) /\ flag
    BY <1>1, <1>5 DEF Toggle, Call, Goes
  <1> QED
    BY <1>3, <1>4, <1>5

\* The stages of a reset.
LEMMA ResetAllGoes ==
  ASSUME IndInv, NEW c \in Client, Progress(c), ResetAll(c)
  PROVE  Goes(c)
  <1>1. /\ UNCHANGED <<embedded, req, server>> /\ pc[c] = "resetAll" /\ pc'[c] = "listExts"
        /\ UNCHANGED <<flag, graph, exts, queries>>
    BY DEF IndInv, TypeOK, RunTypes, ResetAll, Local, server
  <1>2. Position(req[c], pc[c]) = 3
    BY <1>1, StagePosition
  <1>3. Kept(c, 3) /\ Asks(req[c], Order[3])
    BY <1>1, <1>2, KeptSoFar, SoFar
  <1>4. ResetOnly(req[c])
    BY <1>3, PlaceAsks
  <1>5. Position(req[c], pc'[c]) = 3 /\ Midway(c)'
    BY <1>1, <1>4, StagePosition DEF Midway
  <1> QED
    BY <1>3, <1>5, Onwards DEF Goes

\* Extensions go one by one.
LEMMA ExtensionsGo ==
  ASSUME IndInv, NEW c \in Client, Progress(c), GetExtensions(c) \/ DeleteExtension(c)
  PROVE  Goes(c)
  <1> SUFFICES ASSUME ~Unanswered(c), ~RequestFails(c) PROVE Goes(c)
    BY FailedGoes DEF Unanswered
  <1> DEFINE p == IF ResetOnly(req[c]) THEN 3 ELSE 4
  <1>1. /\ UNCHANGED <<embedded, req, flag, graph, queries>> /\ pc[c] \in {"listExts", "deleteExts"}
        /\ pc \in [Client -> Stage] /\ todo = [d \in Client |-> todo[d]]
    BY DEF IndInv, TypeOK, RunTypes, GetExtensions, DeleteExtension, Call, TurnedDown, server
  <1>2. p \in 1..6 /\ p <= 4 /\ Position(req[c], pc[c]) = p
    BY <1>1, StagePosition
  <1>3. Midway(c) /\ Asks(req[c], Order[p])
    <2> HIDE DEF p
    <2> QED
      BY <1>2, SoFar
  <1>4. Kept(c, p)
    <2> HIDE DEF p
    <2>1. p <= 4 \/ exts' = exts
      BY <1>2
    <2>2. p <= 5 \/ queries' = queries
      BY <1>1
    <2> QED
      BY <1>1, <1>2, <2>1, <2>2, KeptSoFar
  <1>5. \/ pc'[c] = "deleteExts" /\ {e.id : e \in Custom'} = todo'[c]
        \/ pc'[c] = AfterExts(req[c]) /\ Custom' = {}
    <2>1. CASE GetExtensions(c)
      <3>1. exts' = exts /\ todo'[c] = {e.id : e \in Custom}
            /\ pc'[c] = IF Custom = {} THEN AfterExts(req[c]) ELSE "deleteExts"
        BY <1>1, <2>1 DEF GetExtensions, Call, server
      <3>2. Custom' = Custom
        BY <3>1 DEF Custom
      <3> QED
        BY <3>1, <3>2
    <2>2. CASE DeleteExtension(c)
      <3>1. PICK id \in todo[c] :
              /\ exts' = {e \in exts : e.id # id}
              /\ todo'[c] = todo[c] \ {id}
              /\ pc'[c] = IF todo[c] = {id} THEN AfterExts(req[c]) ELSE "deleteExts"
        BY <1>1, <2>2 DEF DeleteExtension, Call, TurnedDown
      <3>2. {e.id : e \in Custom} = todo[c]
        BY <1>3, <2>2 DEF Midway, DeleteExtension
      <3>3. Custom' = {e \in Custom : e.id # id}
        BY <3>1 DEF Custom
      <3>4. {e.id : e \in Custom'} = todo'[c]
        BY <3>1, <3>2, <3>3
      <3>5. todo[c] = {id} => Custom' = {}
        BY <3>2, <3>3
      <3> QED
        BY <3>1, <3>4, <3>5
    <2> QED
      BY <2>1, <2>2
  <1>6. Position(req[c], pc'[c]) = p /\ Midway(c)'
    <2>1. CASE pc'[c] = "deleteExts" /\ {e.id : e \in Custom'} = todo'[c]
      BY <2>1, StagePosition DEF Midway
    <2>2. CASE pc'[c] = AfterExts(req[c]) /\ Custom' = {}
      <3>1. CASE ResetOnly(req[c])
        BY <2>2, <3>1, StagePosition DEF Midway, AfterExts
      <3>2. CASE ~ResetOnly(req[c])
        BY <2>2, <3>2, StagePosition DEF Midway, AfterExts
      <3> QED
        BY <3>1, <3>2
    <2> QED
      BY <1>5, <2>1, <2>2
  <1> HIDE DEF p
  <1> QED
    BY <1>2, <1>3, <1>4, <1>6, Onwards DEF Goes

\* And so do queries, which ends a reset alone.
LEMMA QueriesGo ==
  ASSUME IndInv, NEW c \in Client, Progress(c), getQueries(c) \/ deleteQuery(c)
  PROVE  Goes(c)
  <1> SUFFICES ASSUME ~Unanswered(c), ~RequestFails(c) PROVE Goes(c)
    BY FailedGoes DEF Unanswered
  <1> DEFINE p == IF ResetOnly(req[c]) THEN 3 ELSE 5
  <1>1. /\ UNCHANGED <<embedded, req, flag, graph, exts>> /\ pc[c] \in {"listQueries", "deleteQueries"}
        /\ pc \in [Client -> Stage] /\ todo = [d \in Client |-> todo[d]]
    BY DEF IndInv, TypeOK, RunTypes, getQueries, deleteQuery, Call, TurnedDown, server
  <1>2. p \in 1..6 /\ p <= 5 /\ Position(req[c], pc[c]) = p
    BY <1>1, StagePosition
  <1>3. Midway(c) /\ Asks(req[c], Order[p])
    <2> HIDE DEF p
    <2> QED
      BY <1>2, SoFar
  <1>4. Kept(c, p)
    <2> HIDE DEF p
    <2>1. p <= 5 \/ queries' = queries
      BY <1>2
    <2> QED
      BY <1>1, <1>2, <2>1, KeptSoFar
  <1>5. \/ pc'[c] = "deleteQueries" /\ {q.id : q \in queries'} = todo'[c]
        \/ pc'[c] = AfterQueries(req[c]) /\ queries' = {}
    <2>1. CASE getQueries(c)
      BY <1>1, <2>1 DEF getQueries, Call, server
    <2>2. CASE deleteQuery(c)
      <3>1. PICK id \in todo[c] :
              /\ queries' = {q \in queries : q.id # id}
              /\ todo'[c] = todo[c] \ {id}
              /\ pc'[c] = IF todo[c] = {id} THEN AfterQueries(req[c]) ELSE "deleteQueries"
        BY <1>1, <2>2 DEF deleteQuery, Call, TurnedDown
      <3>2. {q.id : q \in queries} = todo[c]
        BY <1>3, <2>2 DEF Midway, deleteQuery
      <3>3. {q.id : q \in queries'} = todo'[c]
        BY <3>1, <3>2
      <3>4. todo[c] = {id} => queries' = {}
        BY <3>1, <3>2
      <3> QED
        BY <3>1, <3>3, <3>4
    <2> QED
      BY <2>1, <2>2
  <1>6. ResetOnly(req[c]) => Custom' = {}
    BY <1>1, <1>3 DEF Midway, Custom
  <1>7. CASE pc'[c] = "deleteQueries" /\ {q.id : q \in queries'} = todo'[c]
    <2>1. Position(req[c], pc'[c]) = p
      BY <1>7, StagePosition
    <2>2. Midway(c)'
      BY <1>1, <1>6, <1>7 DEF Midway
    <2> HIDE DEF p
    <2> QED
      BY <1>2, <1>3, <1>4, <2>1, <2>2, Onwards DEF Goes
  <1>8. CASE pc'[c] = AfterQueries(req[c]) /\ queries' = {}
    <2>1. CASE ResetOnly(req[c])
      <3>1. pc'[c] = "done" /\ Kept(c, 3) /\ req' = req
        BY <1>1, <1>4, <1>8, <2>1 DEF AfterQueries
      <3>2. Effect(c, 3)'
        BY <1>6, <1>8, <2>1 DEF Effect
      <3>3. Position(req[c], "done") = 7 /\ Midway(c)'
        BY <1>1, <1>6, <3>1, StagePosition DEF Midway
      <3>4. \A k \in 1..6 : Asks(req[c], Order[k]) => Effect(c, k)'
        <4> SUFFICES ASSUME NEW k \in 1..6, Asks(req[c], Order[k]) PROVE Effect(c, k)'
          OBVIOUS
        <4>1. k \in 1..2 \/ k = 3 \/ k = 4 \/ k = 5 \/ k = 6
          OBVIOUS
        <4>2. k \notin {4, 5, 6}
          BY <2>1, PlaceAsks
        <4> QED
          BY <3>1, <3>2, <4>1, <4>2 DEF Kept
      <3> QED
        BY <3>1, <3>3, <3>4 DEF Progress, Goes
    <2>2. CASE ~ResetOnly(req[c])
      <3>1. pc'[c] = "checkQueries" /\ p = 5
        BY <1>8, <2>2 DEF AfterQueries
      <3>2. Position(req[c], pc'[c]) = p /\ Midway(c)'
        BY <1>8, <3>1, StagePosition DEF Midway
      <3> HIDE DEF p
      <3> QED
        BY <1>2, <1>3, <1>4, <3>2, Onwards DEF Goes
    <2> QED
      BY <2>1, <2>2
  <1> QED
    BY <1>5, <1>7, <1>8

\* The schema.
LEMMA SchemaGoes ==
  ASSUME IndInv, NEW c \in Client, Progress(c),
         LoadSchema(c) \/ BadSchema(c) \/ UploadExtension(c)
  PROVE  Goes(c)
  <1> SUFFICES ASSUME ~Unanswered(c), ~RequestFails(c) PROVE Goes(c)
    BY FailedGoes DEF Unanswered
  <1>1. /\ UNCHANGED <<embedded, req, flag, graph, queries>> /\ pc[c] \in {"loadSchema", "putSchema"}
        /\ pc \in [Client -> Stage]
    BY DEF IndInv, TypeOK, RunTypes, LoadSchema, BadSchema, UploadExtension, Local, Call, server
  <1>2. Position(req[c], pc[c]) = 4
    BY <1>1, StagePosition
  <1>3. Kept(c, 4) /\ Asks(req[c], Order[4]) /\ Midway(c)
    BY <1>1, <1>2, KeptSoFar, SoFar
  <1>4. ~ResetOnly(req[c])
    BY <1>3, PlaceAsks
  <1>5. CASE LoadSchema(c)
    <2>1. pc'[c] \in {"failed", "listExts"} \/ (pc'[c] = "putSchema" /\ ~req[c].reset)
      BY <1>1, <1>5 DEF LoadSchema, Local
    <2>2. pc'[c] # "failed" => Position(req[c], pc'[c]) = 4 /\ Midway(c)'
      BY <1>1, <1>4, <2>1, StagePosition DEF Midway
    <2> QED
      BY <1>3, <2>2, Onwards DEF Goes
  <1>6. CASE BadSchema(c)
    BY <1>1, <1>6 DEF BadSchema, Local, Goes
  <1>7. CASE UploadExtension(c)
    <2>1. PICK id : /\ exts' = {e \in exts : e.name # "kubernetes"} \cup
                               {[id |-> id, name |-> "kubernetes", content |-> "new"]}
                    /\ pc'[c] = After(req[c], "loadSchema")
      BY <1>1, <1>7 DEF UploadExtension, Call
    <2> DEFINE x == [id |-> id, name |-> "kubernetes", content |-> "new"]
    <2>2. x.name = "kubernetes" /\ x.content = "new" /\ x.name \notin Builtin
      BY DEF Builtin
    <2>3. exts' = {e \in exts : e.name # "kubernetes"} \cup {x}
      BY <2>1
    <2> HIDE DEF x
    <2>4. Kubernetes' = {x}
      BY <2>2, <2>3 DEF Kubernetes
    <2>5. req[c].reset => Custom' = {x}
      <3> SUFFICES ASSUME req[c].reset PROVE Custom' = {x}
        OBVIOUS
      <3>1. Custom = {}
        BY <1>3, <1>7 DEF Midway, UploadExtension
      <3>2. \A e \in exts : e.name \in Builtin
        BY <3>1 DEF Custom
      <3> QED
        BY <2>2, <2>3, <3>2 DEF Custom
    <2>6. Effect(c, 4)'
      BY <1>1, <2>4, <2>5 DEF Effect
    <2>7. Kept(c, 5)
      <3>1. Kept(c, 4 + 1)
        BY <1>3, <2>6, KeptNext
      <3> QED
        BY <3>1
    <2> QED
      BY <2>1, <2>7, AfterPlace, Onward DEF Goes
  <1> QED
    BY <1>5, <1>6, <1>7

\* The queries of the file.
LEMMA ImportGoes ==
  ASSUME IndInv, NEW c \in Client, Progress(c),
         LoadQueries(c) \/ CheckQueries(c) \/ uploadQuery(c)
  PROVE  Goes(c)
  <1> SUFFICES ASSUME ~Unanswered(c), ~RequestFails(c) PROVE Goes(c)
    BY FailedGoes DEF Unanswered
  <1>1. /\ UNCHANGED <<embedded, req, flag, graph, exts>>
        /\ pc[c] \in {"loadQueries", "checkQueries", "importQueries"}
        /\ pc \in [Client -> Stage] /\ todo = [d \in Client |-> todo[d]]
    BY DEF IndInv, TypeOK, RunTypes, LoadQueries, CheckQueries, uploadQuery, Local, Call, server
  <1>2. Position(req[c], pc[c]) = 5
    BY <1>1, StagePosition
  <1>3. Kept(c, 5) /\ Asks(req[c], Order[5]) /\ Midway(c)
    BY <1>1, <1>2, KeptSoFar, SoFar
  <1>4. ~ResetOnly(req[c])
    BY <1>3, PlaceAsks
  <1>5. CASE LoadQueries(c)
    <2>1. pc'[c] \in {"failed", "listQueries"} \/ (pc'[c] = "checkQueries" /\ ~req[c].reset)
      BY <1>1, <1>5 DEF LoadQueries, Local
    <2>2. pc'[c] # "failed" => Position(req[c], pc'[c]) = 5 /\ Midway(c)'
      BY <1>1, <1>4, <2>1, StagePosition DEF Midway
    <2> QED
      BY <1>3, <2>2, Onwards DEF Goes
  <1>6. CASE CheckQueries(c)
    <2>1. pc'[c] = "failed" \/ (pc'[c] = "importQueries" /\ todo'[c] = Wanted(req[c]))
      BY <1>1, <1>6 DEF CheckQueries, Local
    <2>2. queries' = queries /\ (req[c].reset => queries = {})
      BY <1>3, <1>6 DEF CheckQueries, Local, server, Midway
    <2>3. CASE pc'[c] = "importQueries" /\ todo'[c] = Wanted(req[c])
      <3>1. Wanted(req[c])' = Wanted(req[c])
        BY <1>1 DEF Wanted
      <3>2. Imported(req[c], Wanted(req[c]) \ todo[c])'
        BY <1>1, <2>2, <2>3, <3>1 DEF Imported, Named
      <3>3. Midway(c)'
        BY <1>1, <2>3, <3>1, <3>2 DEF Midway
      <3> QED
        BY <1>3, <2>3, <3>3, StagePosition, Onwards DEF Goes
    <2> QED
      BY <2>1, <2>3 DEF Goes
  <1>7. CASE uploadQuery(c)
    <2>1. PICK name \in todo[c] :
            /\ queries' = queries \cup {[id |-> nextId, name |-> name]}
            /\ todo'[c] = todo[c] \ {name}
            /\ pc'[c] = IF todo[c] = {name} THEN After(req[c], "loadQueries") ELSE "importQueries"
      BY <1>1, <1>7 DEF uploadQuery, Call
    <2> DEFINE x == [id |-> nextId, name |-> name]
    <2>2. x.name = name /\ queries' = queries \cup {x}
      BY <2>1
    <2> HIDE DEF x
    <2> DEFINE W == Wanted(req[c])
               done == W \ todo[c]
    <2>3. todo[c] \subseteq W /\ Imported(req[c], done)
      BY <1>3, <1>7 DEF Midway, uploadQuery
    <2>4. name \notin done /\ W \ todo'[c] = done \cup {name} /\ todo'[c] \subseteq W
      BY <2>1, <2>3
    <2>5. Wanted(req[c])' = W /\ req'[c] = req[c]
      BY <1>1 DEF Wanted
    <2> HIDE DEF W, done
    <2>6. /\ \A n \in done \cup {name} : Named(n)' # {}
          /\ req[c].reset => /\ \A q \in queries' : q.name \in done \cup {name}
                             /\ \A p, q \in queries' : p.name = q.name => p = q
      <3>1. \A n \in done : Named(n)' # {}
        BY <2>2, <2>3 DEF Imported, Named
      <3>2. x \in Named(name)'
        BY <2>2 DEF Named
      <3>3. ASSUME req[c].reset
            PROVE  /\ \A q \in queries' : q.name \in done \cup {name}
                   /\ \A p, q \in queries' : p.name = q.name => p = q
        <4>1. \A q \in queries : q.name \in done
          BY <2>3, <3>3 DEF Imported
        <4>2. \A p, q \in queries : p.name = q.name => p = q
          BY <2>3, <3>3 DEF Imported
        <4> QED
          BY <2>2, <2>4, <4>1, <4>2
      <3> QED
        BY <3>1, <3>2, <3>3
    <2>7. CASE todo[c] = {name}
      <3>1. W = done \cup {name}
        BY <2>1, <2>3, <2>7 DEF done
      <3>2. Effect(c, 5)'
        BY <2>5, <2>6, <3>1 DEF Effect, Imported
      <3>3. Kept(c, 6)
        <4>1. Kept(c, 5 + 1)
          BY <1>3, <3>2, KeptNext
        <4> QED
          BY <4>1
      <3> QED
        BY <2>1, <2>7, <3>3, AfterPlace, Onward DEF Goes
    <2>8. CASE todo[c] # {name}
      <3>1. pc'[c] = "importQueries"
        BY <2>1, <2>8
      <3>2. Imported(req[c], Wanted(req[c]) \ todo[c])'
        BY <2>4, <2>5, <2>6 DEF Imported
      <3>3. Midway(c)'
        BY <2>4, <2>5, <3>1, <3>2 DEF Midway
      <3> QED
        BY <1>3, <3>1, <3>3, StagePosition, Onwards DEF Goes
    <2> QED
      BY <2>7, <2>8
  <1> QED
    BY <1>5, <1>6, <1>7

\* The upload job.
LEMMA JobGoes ==
  ASSUME IndInv, NEW c \in Client, Progress(c),
         ReadFile(c) \/ createUploadJob(c) \/ uploadFileToJob(c) \/ completeUploadJob(c)
  PROVE  Goes(c)
  <1> SUFFICES ASSUME ~Unanswered(c), ~RequestFails(c) PROVE Goes(c)
    BY FailedGoes DEF Unanswered
  <1>1. /\ UNCHANGED <<embedded, req, flag, exts, queries>>
        /\ pc[c] \in {"readFile", "startJob", "sendFile", "endJob"}
        /\ pc \in [Client -> Stage]
        /\ graph' = graph \/ graph' = graph \cup {c}
    BY DEF IndInv, TypeOK, RunTypes, ReadFile, createUploadJob, uploadFileToJob, completeUploadJob,
       Local, Call, EndEffect, server
  <1>2. Position(req[c], pc[c]) = 6
    BY <1>1, StagePosition
  <1>3. Kept(c, 6) /\ Asks(req[c], Order[6]) /\ Midway(c)
    BY <1>1, <1>2, KeptSoFar, SoFar
  <1>4. CASE ReadFile(c) \/ createUploadJob(c)
    <2>1. pc'[c] \in {"failed", "startJob", "sendFile"}
      BY <1>1, <1>4 DEF ReadFile, createUploadJob, Local, Call
    <2>2. pc'[c] # "failed" => Position(req[c], pc'[c]) = 6 /\ Midway(c)'
      BY <2>1, StagePosition DEF Midway
    <2> QED
      BY <1>3, <2>2, Onwards DEF Goes
  <1>5. CASE uploadFileToJob(c)
    <2> DEFINE Job == [state : {"open", "ended"}, files : {0, 1}]
    <2>1. jobs \in Seq(Job) /\ job[c] \in 1..Len(jobs) /\ jobs[job[c]].files = 0
      BY <1>5 DEF IndInv, TypeOK, ServerTypes, JobKnown, JobStage, uploadFileToJob
    <2>2. pc'[c] = "endJob" /\ job' = job /\ jobs' = [jobs EXCEPT ![job[c]].files = @ + 1]
      BY <1>1, <1>5 DEF uploadFileToJob, Call, NoReply
    <2>3. jobs[job[c]] \in Job
      <3> HIDE DEF Job
      <3> QED
        BY <2>1
    <2>4. jobs'[job[c]] = [jobs[job[c]] EXCEPT !.files = @ + 1]
      <3> HIDE DEF Job
      <3> QED
        BY <2>1, <2>2
    <2>5. jobs'[job'[c]].files > 0
      BY <2>1, <2>2, <2>3, <2>4
    <2>6. Midway(c)'
      BY <2>2, <2>5 DEF Midway
    <2> QED
      BY <1>3, <2>2, <2>6, StagePosition, Onwards DEF Goes
  <1>6. CASE completeUploadJob(c)
    <2>1. pc'[c] = "done" /\ EndEffect(c)
      BY <1>1, <1>6 DEF completeUploadJob, Call
    <2>2. c \in graph'
      BY <1>3, <1>6, <2>1 DEF EndEffect, Midway, completeUploadJob
    <2>3. Effect(c, 6)'
      BY <2>2 DEF Effect
    <2>4. Kept(c, 7)
      <3>1. Kept(c, 6 + 1)
        BY <1>3, <2>3, KeptNext
      <3> QED
        BY <3>1
    <2>5. Position(req[c], "done") = 7 /\ Midway(c)'
      BY <2>1, StagePosition DEF Midway
    <2> QED
      BY <2>1, <2>4, <2>5 DEF Progress, Kept, Goes
  <1> QED
    BY <1>4, <1>5, <1>6

\* Every step of a run on its own adds to what it did.
LEMMA StepGoes ==
  ASSUME IndInv, NEW c \in Client, Step(c), pc[c] = "deferredEnd" \/ Progress(c)
  PROVE  Goes(c)
  <1>1. CASE pc[c] = "deferredEnd"
    <2>1. DeferredEnd(c)
      BY <1>1 DEF Step, ResetDatabase, ReadFlags, Toggle, ResetAll, GetExtensions, DeleteExtension,
         getQueries, deleteQuery, LoadSchema, BadSchema, UploadExtension, LoadQueries, CheckQueries,
         uploadQuery, ReadFile, createUploadJob, uploadFileToJob, completeUploadJob
    <2>2. pc'[c] \in {"failed", "killed"}
      BY <1>1, <2>1 DEF DeferredEnd, Call, TurnedDown, Unanswered, RequestFails, StoppedWaiting, OnError, IndInv, TypeOK, RunTypes
    <2> QED
      BY <2>2 DEF Goes
  <1>2. CASE pc[c] # "deferredEnd"
    BY <1>2, DatabaseGoes, FlagGoes, ResetAllGoes, ExtensionsGo, QueriesGo, SchemaGoes, ImportGoes,
       JobGoes DEF Step, DeferredEnd
  <1> QED
    BY <1>1, <1>2

-----------------------------------------------------------------------------
(* The whole run *)

\* No run has begun.
LEMMA SoloInit == Init => StepByStep
  BY DEF Init, StepByStep, Running, Idle

\* What a run did is there as long as the server, its stage and its list are.
LEMMA ProgressKept ==
  ASSUME NEW d \in Client, UNCHANGED <<embedded, req, flag, graph, exts, queries, jobs>>,
         pc'[d] = pc[d], todo'[d] = todo[d], job'[d] = job[d]
  PROVE  Progress(d)' = Progress(d)
  <1>2. Midway(d)' = Midway(d)
    <2>1. /\ Custom' = Custom /\ Wanted(req[d])' = Wanted(req[d])
          /\ \A name : Named(name)' = Named(name)
      BY DEF Custom, Wanted, Named
    <2> QED
      BY <2>1 DEF Midway, Imported
  <1>3. \A k \in 1..6 : Effect(d, k)' = Effect(d, k)
    <2>1. \A k \in 1..6 : k = 1 \/ k = 2 \/ k = 3 \/ k = 4 \/ k = 5 \/ k = 6
      OBVIOUS
    <2> QED
      BY <2>1, EffectKept
  <1>4. Position(req[d], pc[d]) \in 1..7
    BY DEF Position
  <1> QED
    BY <1>2, <1>3, <1>4 DEF Progress

\* Nothing of this changes with deadlines.
LEMMA SoloFrame ==
  ASSUME StepByStep,
         UNCHANGED <<embedded, req, flag, graph, exts, queries, jobs, pc, todo, job, alone>>
  PROVE  StepByStep'
  <1>1. \A d \in Client : Progress(d)' = Progress(d)
    BY ProgressKept
  <1> QED
    BY <1>1 DEF StepByStep, Running

\* A run begins on its own, or the others are no longer.
LEMMA SoloStart ==
  ASSUME IndInv, StepByStep, NEW c \in Client, Start(c)
  PROVE  StepByStep'
  <1>1. /\ pc \in [Client -> Stage] /\ job = [d \in Client |-> job[d]]
        /\ todo = [d \in Client |-> todo[d]]
    BY DEF IndInv, TypeOK, RunTypes
  <1>2. /\ UNCHANGED <<embedded, req, flag, graph, exts, queries, jobs>>
        /\ \A d \in Client \ {c} : pc'[d] = pc[d] /\ todo'[d] = todo[d] /\ job'[d] = job[d]
        /\ pc'[c] = IF Pointless(req[c]) THEN "failed" ELSE FirstFrom(req[c], 1)
        /\ pc[c] \in {"idle", "failed", "killed"}
    BY <1>1 DEF Start, server
  <1>3. \A d \in Client \ {c} : Running(d)' = Running(d)
    BY <1>2 DEF Running
  <1>4. ASSUME NEW d \in Client, Running(d)', alone'[d]
        PROVE  /\ \A e \in Client \ {d} : ~Running(e)'
               /\ pc'[d] = "deferredEnd" \/ Progress(d)'
    <2>1. CASE d = c
      <3>1. \A e \in Client \ {c} : ~Running(e)
        BY <1>4, <2>1 DEF Start
      <3>2. pc'[c] = FirstFrom(req[c], 1)
        BY <1>2, <1>4, <2>1 DEF Running, Idle
      <3>3. Kept(c, 1)
        BY <1>2 DEF Kept
      <3>4. Progress(c)'
        BY <3>2, <3>3, Onward
      <3> QED
        BY <1>3, <2>1, <3>1, <3>4
    <2>2. CASE d # c
      <3>1. Running(d) /\ alone[d] /\ Pointless(req[c])
        BY <1>3, <1>4, <2>2 DEF Start
      <3>2. ~Running(c)'
        BY <1>2, <3>1 DEF Running, Idle
      <3>3. \A e \in Client \ {d} : ~Running(e)
        BY <3>1 DEF StepByStep
      <3>4. \A e \in Client \ {d} : ~Running(e)'
        BY <1>3, <3>2, <3>3
      <3>5. pc[d] = "deferredEnd" \/ Progress(d)
        BY <3>1 DEF StepByStep
      <3>6. Progress(d)' = Progress(d)
        <4>1. pc'[d] = pc[d] /\ todo'[d] = todo[d] /\ job'[d] = job[d]
          BY <1>2, <2>2
        <4> QED
          BY <1>2, <4>1, ProgressKept
      <3> QED
        BY <1>2, <2>2, <3>4, <3>5, <3>6
    <2> QED
      BY <2>1, <2>2
  <1> QED
    BY <1>4 DEF StepByStep

\* A killed run did nothing that counts.
LEMMA SoloEnvironment ==
  ASSUME IndInv, StepByStep, NEW c \in Client, Expire(c) \/ Kill(c)
  PROVE  StepByStep'
  <1>1. CASE Expire(c)
    <2>1. UNCHANGED <<embedded, req, flag, graph, exts, queries, jobs, pc, todo, job, alone>>
      BY <1>1 DEF Expire, server
    <2> QED
      BY <2>1, SoloFrame
  <1>2. CASE Kill(c)
    <2>1. pc'[c] = "killed" /\ alone' = alone /\ \A d \in Client \ {c} : pc'[d] = pc[d]
      BY <1>2 DEF Kill, IndInv, TypeOK, RunTypes
    <2>2. ASSUME NEW d \in Client, Running(d)', alone'[d] PROVE FALSE
      <3>1. d # c
        BY <2>1, <2>2 DEF Running, Idle
      <3>2. Running(d) /\ alone[d] /\ Running(c)
        BY <1>2, <2>1, <2>2, <3>1 DEF Running, Kill
      <3> QED
        BY <3>1, <3>2 DEF StepByStep
    <2> QED
      BY <2>2 DEF StepByStep
  <1> QED
    BY <1>1, <1>2

\* Only a run on its own takes steps while one is on its own.
LEMMA SoloStep ==
  ASSUME IndInv, StepByStep, NEW c \in Client, Step(c)
  PROVE  StepByStep'
  <1>1. StepFrame(c) /\ Running(c)
    BY StepShape DEF Running
  <1>2. ASSUME NEW d \in Client, Running(d)', alone'[d]
        PROVE  /\ \A e \in Client \ {d} : ~Running(e)'
               /\ pc'[d] = "deferredEnd" \/ Progress(d)'
    <2>1. d = c
      <3>1. d # c => Running(d) /\ alone[d]
        BY <1>1, <1>2 DEF StepFrame, Running
      <3> QED
        BY <1>1, <3>1 DEF StepByStep
    <2>2. alone[c] /\ \A e \in Client \ {c} : pc'[e] = pc[e]
      BY <1>1, <1>2, <2>1 DEF StepFrame
    <2>3. (pc[c] = "deferredEnd" \/ Progress(c)) /\ \A e \in Client \ {c} : ~Running(e)
      BY <1>1, <2>2 DEF StepByStep
    <2>4. Goes(c)
      BY <2>3, StepGoes
    <2>5. pc'[c] \notin {"failed", "killed"}
      BY <1>2, <2>1 DEF Running, Idle
    <2> QED
      BY <2>1, <2>2, <2>3, <2>4, <2>5 DEF Goes, Running
  <1> QED
    BY <1>2 DEF StepByStep

\* Nothing happens.
LEMMA SoloStutter == StepByStep /\ UNCHANGED vars => StepByStep'
  BY SoloFrame DEF vars, server

\* The end of a run, when all it did has lasted.
AllDone == \A c \in Client : pc[c] = "done" /\ Progress(c) => Fulfilled(c)

\* All effects together are what was asked for.
LEMMA DoneFulfilled == AllDone
  <1> SUFFICES ASSUME NEW c \in Client, pc[c] = "done", Progress(c)
               PROVE  Fulfilled(c)
    BY DEF AllDone
  <1> DEFINE r == req[c]
  <1>1. \A k \in 1..6 : Asks(r, Order[k]) => Effect(c, k)
    BY StagePosition DEF Progress
  <1>2. /\ r.resetDB => Effect(c, 1)
        /\ r.enable => Effect(c, 2)
        /\ ResetOnly(r) => Effect(c, 3)
        /\ ~ResetOnly(r) /\ r.schema # "none" => Effect(c, 4)
        /\ ~ResetOnly(r) /\ r.queries # "none" => Effect(c, 5)
        /\ ~ResetOnly(r) /\ r.upload # "none" => Effect(c, 6)
    <2>1. /\ Asks(r, Order[1]) => Effect(c, 1)
          /\ Asks(r, Order[2]) => Effect(c, 2)
          /\ Asks(r, Order[3]) => Effect(c, 3)
          /\ Asks(r, Order[4]) => Effect(c, 4)
          /\ Asks(r, Order[5]) => Effect(c, 5)
          /\ Asks(r, Order[6]) => Effect(c, 6)
      BY <1>1
    <2>2. /\ Asks(r, Order[1]) = r.resetDB
          /\ Asks(r, Order[2]) = r.enable
          /\ Asks(r, Order[3]) = ResetOnly(r)
          /\ Asks(r, Order[4]) = (~ResetOnly(r) /\ r.schema # "none")
          /\ Asks(r, Order[5]) = (~ResetOnly(r) /\ r.queries # "none")
          /\ Asks(r, Order[6]) = (~ResetOnly(r) /\ r.upload # "none")
      BY PlaceAsks
    <2> QED
      BY <2>1, <2>2
  <1>3. ResetOnly(r) => r.schema = "none" /\ r.queries = "none" /\ r.upload = "none"
    BY DEF ResetOnly
  <1>4. /\ r.enable => flag
        /\ r.resetDB => "old" \notin graph
        /\ r.upload # "none" => c \in graph
        /\ ResetOnly(r) => Custom = {} /\ queries = {}
    BY <1>2, <1>3 DEF Effect
  <1>5. r.schema # "none" => Kubernetes # {} /\ (r.reset => Custom = Kubernetes)
    BY <1>2, <1>3 DEF Effect
  <1>6. r.queries # "none" => Imported(r, Wanted(r))
    BY <1>2, <1>3 DEF Effect
  <1>7. ASSUME r.queries # "none"
        PROVE  /\ \A name \in Wanted(r) : Named(name) # {}
               /\ r.reset => /\ \A name \in Wanted(r) : Cardinality(Named(name)) = 1
                             /\ {q.name : q \in queries} = Wanted(r)
    <2>1. /\ \A name \in Wanted(r) : Named(name) # {}
          /\ r.reset => /\ \A q \in queries : q.name \in Wanted(r)
                        /\ \A p, q \in queries : p.name = q.name => p = q
      BY <1>6, <1>7 DEF Imported
    <2>2. ASSUME r.reset, NEW name \in Wanted(r) PROVE Cardinality(Named(name)) = 1
      <3>1. PICK q : q \in Named(name)
        BY <2>1
      <3>2. Named(name) = {q}
        BY <2>1, <2>2, <3>1 DEF Named
      <3> QED
        BY <3>2, FS_Singleton
    <2>3. r.reset => {q.name : q \in queries} = Wanted(r)
      <3> SUFFICES ASSUME r.reset PROVE {q.name : q \in queries} = Wanted(r)
        OBVIOUS
      <3> DEFINE W == Wanted(r)
      <3>1. \A name \in W : \E q \in queries : q.name = name
        BY <2>1 DEF Named
      <3>2. \A q \in queries : q.name \in W
        BY <2>1
      <3> HIDE DEF W
      <3>3. {q.name : q \in queries} = W
        BY <3>1, <3>2
      <3> QED
        BY <3>3 DEF W
    <2> QED
      BY <2>1, <2>2, <2>3
  <1>8. /\ \A name : Named(name) = {q \in queries : q.name = name}
        /\ Kubernetes = {e \in exts : e.name = "kubernetes" /\ e.content = "new"}
    BY DEF Named, Kubernetes
  <1> DEFINE onlyWanted == /\ {q.name : q \in queries} = Wanted(r)
                           /\ \A name \in Wanted(r) : Cardinality(Named(name)) = 1
  <1>9. r.reset =>
          \/ ResetIgnored(r)
          \/ r.schema # "none" /\ r.queries # "none" /\ Custom = Kubernetes /\ onlyWanted
          \/ r.schema # "none" /\ r.queries = "none" /\ Custom = Kubernetes
          \/ r.schema = "none" /\ r.queries # "none" /\ onlyWanted
          \/ ResetOnly(r) /\ Custom = {} /\ queries = {}
    <2> SUFFICES ASSUME r.reset
                 PROVE  \/ ResetIgnored(r)
                        \/ r.schema # "none" /\ r.queries # "none" /\ Custom = Kubernetes /\ onlyWanted
                        \/ r.schema # "none" /\ r.queries = "none" /\ Custom = Kubernetes
                        \/ r.schema = "none" /\ r.queries # "none" /\ onlyWanted
                        \/ ResetOnly(r) /\ Custom = {} /\ queries = {}
      OBVIOUS
    <2>1. r.schema # "none" => Custom = Kubernetes
      BY <1>5
    <2>2. r.queries # "none" => onlyWanted
      BY <1>7
    <2>3. r.schema = "none" /\ r.queries = "none" => ResetIgnored(r) \/ ResetOnly(r)
      BY DEF ResetIgnored
    <2>4. ResetOnly(r) => Custom = {} /\ queries = {}
      BY <1>4
    <2> HIDE DEF r, onlyWanted
    <2> QED
      BY <2>1, <2>2, <2>3, <2>4
  <1>10. r.schema # "none" => Kubernetes # {}
    BY <1>5
  <1>11. r.queries # "none" => \A name \in Wanted(r) : Named(name) # {}
    BY <1>7
  <1> QED
    BY <1>4, <1>8, <1>9, <1>10, <1>11 DEF Fulfilled

\* A run that reports success while no other overlapped with it has done what it was
\* asked for (UploadService.Run), whatever earlier runs left behind: each stage finds
\* the effects of the ones before it in place.  The exception is a reset that comes
\* only with --upload-file or --reset-db (ResetIgnored), of which nothing is said
\* because Run does nothing.
THEOREM SuccessIsCompleteAlways == Spec => SuccessIsComplete
  <1> DEFINE Complete == \A c \in Client : Running(c) /\ pc'[c] = "done" /\ alone[c] => Fulfilled(c)'
  <1>1. IndInv /\ StepByStep /\ [Next]_vars => StepByStep'
    BY SoloStart, SoloEnvironment, SoloStep, SoloStutter DEF Next
  <1>2. ASSUME IndInv, StepByStep, AllDone', [Next]_vars
        PROVE  Complete
    <2> SUFFICES ASSUME NEW c \in Client, Running(c), pc'[c] = "done", alone[c]
                 PROVE  Fulfilled(c)'
      OBVIOUS
    <2>1. pc'[c] # pc[c] /\ pc \in [Client -> Stage]
      BY <1>2 DEF Running, Idle, IndInv, TypeOK, RunTypes
    <2>2. PICK d \in Client : Start(d) \/ Step(d) \/ Expire(d) \/ Kill(d)
      BY <1>2, <2>1 DEF Next, vars
    <2>3. Step(c)
      <3>1. d = c
        <4>1. Start(d) \/ Expire(d) \/ Kill(d) => \A e \in Client \ {d} : pc'[e] = pc[e]
          BY <2>1 DEF Start, Expire, Kill
        <4>2. Step(d) => \A e \in Client \ {d} : pc'[e] = pc[e]
          BY <1>2, StepShape DEF StepFrame
        <4> QED
          BY <2>1, <2>2, <4>1, <4>2
      <3> QED
        BY <2>1, <2>2, <3>1 DEF Start, Expire, Kill, Running, Idle
    <2>4. pc[c] = "deferredEnd" \/ Progress(c)
      BY <1>2 DEF StepByStep
    <2>5. Progress(c)'
      BY <1>2, <2>3, <2>4, StepGoes DEF Goes
    <2> QED
      BY <1>2, <2>5 DEF AllDone
  <1>3. IndInv /\ StepByStep /\ AllDone' /\ [Next]_vars => [Complete]_vars
    BY <1>2
  <1> QED
    BY <1>1, <1>3, SoloInit, DoneFulfilled, UploadInvariance, PTL DEF Spec, SuccessIsComplete

=============================================================================
