-------------------------- MODULE CollectionProofs --------------------------
(***************************************************************************)
(* Proofs about Collection for any plan, any number of workers and any     *)
(* bounds.  The inductive invariant of CollectionInv is established in     *)
(* three layers, each kept by every step given the layers before it:       *)
(* types and control, who holds which job, and what disk and memory know.  *)
(* Last, Collection implements CollectionPromise when the checkpoint is    *)
(* retained.                                                               *)
(***************************************************************************)
EXTENDS CollectionInv, CollectionRefinement, TLAPS, FiniteSetTheorems, SequenceTheorems

WorkerState == [state : {"idle", "listing", "sending", "gone"},
                job : Job \cup {NoJob}, count : Nat, ok : BOOLEAN]
Result == [job : Job, count : Nat, ok : BOOLEAN]

-----------------------------------------------------------------------------
(* Values. *)

\* The batch of a job is a sequence of its lines, one per listed resource.
LEMMA BatchType ==
  ASSUME NEW j \in Job, NEW n \in Nat
  PROVE  /\ Batch(j, n) \in Seq(Line \cup {Torn})
         /\ Len(Batch(j, n)) = n
         /\ \A k \in 1..n : Batch(j, n)[k] = [job |-> j, item |-> k]
<1>1. \A k \in 1..n : [job |-> j, item |-> k] \in Line
  BY DEF Line
<1>2. Batch(j, n) \in [1..n -> Line \cup {Torn}]
  BY <1>1 DEF Batch
<1> QED
  BY <1>2 DEF Batch

\* Lines written at the end leave the earlier ones where they were.
LEMMA Extended ==
  ASSUME NEW S, NEW s \in Seq(S), NEW t \in Seq(S)
  PROVE  /\ s \o t \in Seq(S)
         /\ Len(s) \in Nat /\ Len(t) \in Nat
         /\ Len(s \o t) = Len(s) + Len(t)
         /\ \A p \in 1..Len(s) : (s \o t)[p] = s[p]
         /\ \A p \in 1..Len(t) : (s \o t)[Len(s) + p] = t[p]
<1>1. Len(s) \in Nat /\ Len(t) \in Nat
  BY LenProperties
<1>2. /\ s \o t \in Seq(S)
      /\ Len(s \o t) = Len(s) + Len(t)
      /\ \A i \in 1..Len(s) + Len(t) :
           (s \o t)[i] = IF i <= Len(s) THEN s[i] ELSE t[i - Len(s)]
  BY ConcatProperties
<1>3. \A p \in 1..Len(t) : (s \o t)[Len(s) + p] = t[p]
  BY <1>1, <1>2
<1> QED
  BY <1>1, <1>2, <1>3

\* A prefix of the output is an output.
LEMMA PrefixType ==
  ASSUME NEW S, NEW s \in Seq(S), NEW n \in 0..Len(s)
  PROVE  /\ SubSeq(s, 1, n) \in Seq(S)
         /\ Len(SubSeq(s, 1, n)) = n
         /\ \A i \in 1..n : SubSeq(s, 1, n)[i] = s[i]
<1>1. \A i \in 1..n : s[i] \in S
  BY ElementOfSeq
<1> QED
  BY <1>1, SubSeqProperties

\* The empty checkpoints are checkpoints.
LEMMA EmptyCheckpoints ==
  Total \in Nat /\ Absent \in Checkpoint /\ NewCheckpoint \in Checkpoint
<1>1. Total \in Nat
  BY JobAssumption, FS_CardinalityType DEF Total
<1>2. <<>> \in Seq(CompletedJob)
  BY EmptySeq
<1> QED
  BY <1>1, <1>2 DEF Absent, NewCheckpoint, Checkpoint

-----------------------------------------------------------------------------
(* Layer 1: types and control. *)

\* Before the first start everything has its type.
LEMMA TypeInit == Init => TypeInv
<1> SUFFICES ASSUME Init PROVE TypeInv
  OBVIOUS
<1>1. /\ out \in Seq(Line \cup {Torn}) /\ Len(out) = 0
      /\ results \in Seq(Result)
  BY EmptySeq DEF Init
<1>2. worker \in [Worker -> WorkerState]
  BY DEF Init, Gone, WorkerState
<1>3. ckpt \in Checkpoint /\ mem \in Checkpoint
  BY EmptyCheckpoints DEF Init
<1>4. Control
  BY DEF Init, Control, Gone, NoResult
<1>5. 0 \in 0..MaxFaults /\ 0 \in 0..Len(out)
  BY <1>1, BoundAssumption
<1>6. ckpt \in ckptDisk /\ ckptDisk \subseteq Checkpoint
  BY <1>3 DEF Init
<1>7. TypeOK
  BY <1>1, <1>2, <1>3, <1>5, <1>6
  DEF TypeOK, Init, NoResult, Result, WorkerState
<1> QED
  BY <1>4, <1>7 DEF TypeInv

\* A process that ends leaves no goroutine and no job in anyone's hands.
LEMMA ProcessEndsType ==
  ASSUME ProcessEnds
  PROVE  /\ pc' = "off" /\ mem' \in Checkpoint /\ queue' = {}
         /\ worker' \in [Worker -> WorkerState]
         /\ results' \in Seq(Result)
         /\ current' \in [job : Job \cup {NoJob}, count : Nat, ok : BOOLEAN]
         /\ errored' \in BOOLEAN /\ commitFailed' \in BOOLEAN
         /\ cancelled' \in BOOLEAN
         /\ Control'
<1>1. results' \in Seq(Result)
  BY EmptySeq DEF ProcessEnds
<1>2. worker' \in [Worker -> WorkerState]
  BY DEF ProcessEnds, Gone, WorkerState
<1>3. Control'
  BY DEF ProcessEnds, Control, Gone, NoResult
<1> QED
  BY <1>1, <1>2, <1>3, EmptyCheckpoints DEF ProcessEnds, NoResult

\* Saving a checkpoint, or failing to, keeps the disk's type.
LEMMA SaveType ==
  ASSUME TypeOK, NEW c \in Checkpoint, SaveSucceeds(c) \/ SaveFails(c)
  PROVE  ckpt' \in Checkpoint /\ ckptDisk' \subseteq Checkpoint
         /\ ckpt' \in ckptDisk'
BY DEF TypeOK, SaveSucceeds, SaveFails

\* A fault is counted within the bound on faults.
LEMMA FaultType == ASSUME TypeOK, Fault PROVE faults' \in 0..MaxFaults
BY BoundAssumption DEF TypeOK, Fault

\* A batch that could not be written completely only makes the output longer.
LEMMA FailedBatchType ==
  ASSUME TypeOK, NEW j \in Job, NEW n \in Nat, NEW torn \in {<<>>, <<Torn>>},
         out' = out \o Batch(j, n) \o torn
  PROVE  /\ out' \in Seq(Line \cup {Torn})
         /\ Len(out') >= Len(out) /\ Len(out') \in Nat /\ Len(out) \in Nat
         /\ \A p \in 1..Len(out) : out'[p] = out[p]
<1> DEFINE b == Batch(j, n)
           ob == out \o b
<1>1. out \in Seq(Line \cup {Torn}) /\ Len(out) \in Nat
  BY LenProperties DEF TypeOK
<1>2. b \in Seq(Line \cup {Torn}) /\ Len(b) = n
  BY BatchType
<1>3. torn \in Seq(Line \cup {Torn}) /\ Len(torn) \in Nat
  <2>1. <<Torn>> \in Seq(Line \cup {Torn}) /\ Len(<<Torn>>) = 1
    OBVIOUS
  <2>2. <<>> \in Seq(Line \cup {Torn}) /\ Len(<<>>) = 0
    BY EmptySeq
  <2> QED
    BY <2>1, <2>2
<1> HIDE DEF b
<1>4. /\ ob \in Seq(Line \cup {Torn})
      /\ Len(ob) = Len(out) + n
      /\ \A p \in 1..Len(out) : ob[p] = out[p]
  BY <1>1, <1>2, Extended
<1>5. out' = ob \o torn
  BY DEF b
<1> HIDE DEF ob
<1>6. /\ ob \o torn \in Seq(Line \cup {Torn})
      /\ Len(ob \o torn) = Len(out) + n + Len(torn)
      /\ \A p \in 1..Len(ob) : (ob \o torn)[p] = ob[p]
  BY <1>1, <1>3, <1>4, Extended
<1> QED
  BY <1>1, <1>3, <1>4, <1>5, <1>6

\* A power loss keeps the synced lines and all lines it keeps but one torn.
LEMMA PowerLossOutput ==
  ASSUME TypeOK, PowerLoss
  PROVE  /\ out' \in Seq(Line \cup {Torn})
         /\ synced' = Len(out') /\ synced' \in 0..Len(out')
         /\ synced \in Nat /\ Len(out) \in Nat
         /\ synced <= Len(out') /\ Len(out') <= Len(out)
         /\ \A p \in 1..synced : out'[p] = out[p]
<1>1. out \in Seq(Line \cup {Torn}) /\ Len(out) \in Nat
      /\ synced \in 0..Len(out)
  BY LenProperties DEF TypeOK
<1>2. PICK k \in synced..Len(out), t \in 0..1 :
        /\ k + t <= Len(out)
        /\ out' = SubSeq(out, 1, k) \o [i \in 1..t |-> Torn]
        /\ synced' = k + t
  BY DEF PowerLoss
<1> DEFINE a == SubSeq(out, 1, k)
           b == [i \in 1..t |-> Torn]
<1>3. a \in Seq(Line \cup {Torn}) /\ Len(a) = k
      /\ \A p \in 1..k : a[p] = out[p]
  BY <1>1, PrefixType
<1>4. b \in Seq(Line \cup {Torn}) /\ Len(b) = t
  OBVIOUS
<1> HIDE DEF a, b
<1>5. /\ a \o b \in Seq(Line \cup {Torn})
      /\ Len(a \o b) = k + t
      /\ \A p \in 1..k : (a \o b)[p] = a[p]
  BY <1>3, <1>4, ConcatProperties
<1>6. out' = a \o b
  BY <1>2 DEF a, b
<1> QED
  BY <1>1, <1>2, <1>3, <1>5, <1>6

\* What CommitOutput records: one more entry, the countdown and the position.
LEMMA CommitRecords ==
  ASSUME TypeInv, CommitOutput
  PROVE  /\ current.job \in Job /\ current.count \in Nat /\ Len(out) \in Nat
         /\ Len(mem.completed) \in Nat /\ mem.remaining \in Nat
         /\ mem' \in Checkpoint
         /\ mem'.phase = mem.phase
         /\ mem'.offset = Len(out)
         /\ mem'.remaining = IF mem.remaining > 0 THEN mem.remaining - 1 ELSE 0
         /\ Len(mem'.completed) = Len(mem.completed) + 1
         /\ \A i \in 1..Len(mem.completed) : mem'.completed[i] = mem.completed[i]
         /\ mem'.completed[Len(mem.completed) + 1] =
              [job |-> current.job, count |-> current.count]
<1> DEFINE e == [job |-> current.job, count |-> current.count]
           q == Append(mem.completed, e)
           r == IF mem.remaining > 0 THEN mem.remaining - 1 ELSE 0
<1>1. current.job \in Job /\ current.count \in Nat /\ Len(out) \in Nat
  BY LenProperties DEF CommitOutput, TypeInv, Control, TypeOK
<1>2. /\ mem \in Checkpoint /\ mem.completed \in Seq(CompletedJob)
      /\ mem.remaining \in Nat
  BY DEF TypeInv, TypeOK, Checkpoint
<1>3. e \in CompletedJob
  BY <1>1 DEF CompletedJob
<1>4. mem' = [[mem EXCEPT !.completed = q, !.remaining = r]
                  EXCEPT !.offset = Len(out)]
  BY DEF CommitOutput, AddCompletedJob
<1>5. r \in Nat
  BY <1>2
<1> HIDE DEF e
<1>6. /\ q \in Seq(CompletedJob)
      /\ Len(q) = Len(mem.completed) + 1
      /\ \A i \in 1..Len(mem.completed) : q[i] = mem.completed[i]
      /\ q[Len(mem.completed) + 1] = e
  BY <1>2, <1>3, AppendProperties
<1> HIDE DEF q, r
<1>7. q \in Seq(CompletedJob)
  BY <1>6
<1>8. mem' \in Checkpoint
  BY <1>1, <1>2, <1>4, <1>5, <1>7 DEF Checkpoint
<1>9. /\ mem'.completed = q /\ mem'.remaining = r /\ mem'.offset = Len(out)
      /\ mem'.phase = mem.phase
  BY <1>2, <1>4 DEF Checkpoint
<1>10. Len(mem.completed) \in Nat
  BY <1>2, LenProperties
<1> QED
  BY <1>1, <1>2, <1>6, <1>8, <1>9, <1>10 DEF e, r

\* Every step keeps the types and the control consistent.
LEMMA TypeStep == TypeInv /\ [Next]_vars => TypeInv'
<1> SUFFICES ASSUME TypeInv, [Next]_vars PROVE TypeInv'
  OBVIOUS
<1> USE DEF TypeInv
<1>1. CASE StartNew
  <2>1. <<>> \in Seq(Line \cup {Torn}) /\ Len(<<>>) = 0
    BY EmptySeq
  <2>2. TypeOK'
    BY <1>1, <2>1, EmptyCheckpoints DEF StartNew, TypeOK, pool
  <2>3. Control'
    BY <1>1 DEF StartNew, TypeOK, Control, pool
  <2> QED
    BY <2>2, <2>3
<1>2. CASE StartNewFails
  <2>1. <<>> \in Seq(Line \cup {Torn}) /\ Len(<<>>) = 0
    BY EmptySeq
  <2>2. TypeOK'
    BY <1>2, <2>1, FaultType DEF StartNewFails, TypeOK, pool, loop
  <2> QED
    BY <1>2, <2>2 DEF StartNewFails, Control, pool, loop
<1>3. CASE Resume
  <2>1. ckpt.offset \in 0..Len(out)
    BY <1>3 DEF Resume, CanResume, TypeOK, Checkpoint
  <2>2. out' \in Seq(Line \cup {Torn}) /\ Len(out') = ckpt.offset
    BY <1>3, <2>1, PrefixType DEF Resume, TypeOK
  <2>3. TypeOK'
    BY <1>3, <2>1, <2>2 DEF Resume, TypeOK, pool
  <2>4. Control'
    BY <1>3 DEF Resume, TypeOK, Control, pool
  <2> QED
    BY <2>3, <2>4
<1>4. CASE ResumeFails
  <2>1. ckpt.offset \in 0..Len(out)
    BY <1>4 DEF ResumeFails, CanResume, TypeOK, Checkpoint
  <2>2. out' \in Seq(Line \cup {Torn}) /\ Len(out') = ckpt.offset
    BY <1>4, <2>1, PrefixType DEF ResumeFails, TypeOK
  <2>3. synced' \in 0..Len(out')
    BY <1>4, <2>1, <2>2 DEF ResumeFails, TypeOK
  <2>4. TypeOK'
    BY <1>4, <2>2, <2>3, FaultType DEF ResumeFails, TypeOK, pool, loop
  <2> QED
    BY <1>4, <2>4 DEF ResumeFails, Control, pool, loop
<1>5. CASE SavePlan
  <2>1. ckpt' \in Checkpoint /\ ckptDisk' \subseteq Checkpoint
        /\ ckpt' \in ckptDisk'
    BY <1>5, SaveType DEF SavePlan, TypeOK
  <2>2. Pending(mem) \subseteq Job /\ Cardinality(Pending(mem)) \in Nat
    BY JobAssumption, FS_Subset, FS_CardinalityType DEF Pending
  <2>3. mem' \in Checkpoint /\ queue' \subseteq Job
    BY <1>5, <2>2 DEF SavePlan, TypeOK, Checkpoint
  <2>4. worker' \in [Worker -> WorkerState]
    <3>1. Idle \in WorkerState
      BY DEF Idle, Gone, WorkerState
    <3>2. worker' = worker \/ worker' = [w \in Worker |-> Idle]
      BY <1>5 DEF SavePlan
    <3> QED
      BY <3>1, <3>2 DEF TypeOK, WorkerState
  <2>5. TypeOK'
    BY <1>5, <2>1, <2>3, <2>4 DEF SavePlan, TypeOK, WorkerState
  <2>6. Control'
    BY <1>5, JobAssumption DEF SavePlan, TypeOK, Control, Idle, Gone
  <2> QED
    BY <2>5, <2>6
<1>6. CASE SavePlanCancelled
  BY <1>6, SaveType, ProcessEndsType
  DEF SavePlanCancelled, TypeOK, Result, WorkerState
<1>7. CASE SavePlanFails
  BY <1>7, SaveType, ProcessEndsType, FaultType
  DEF SavePlanFails, TypeOK, Result, WorkerState
<1>8. CASE \E w \in Worker : WorkerStep(w)
  <2> PICK w \in Worker : WorkerStep(w)
    BY <1>8
  <2>0. worker \in [Worker -> WorkerState] /\ worker[w] \in WorkerState
    BY DEF TypeOK, WorkerState
  <2>1. CASE TakeJob(w)
    <3>1. PICK j \in Job :
            /\ queue' = queue \ {j}
            /\ worker' = [worker EXCEPT ![w] =
                 [state |-> "listing", job |-> j, count |-> 0, ok |-> TRUE]]
      BY <2>1 DEF TakeJob, TypeOK
    <3>2. worker' \in [Worker -> WorkerState]
      BY <2>0, <3>1 DEF WorkerState
    <3>3. TypeOK'
      BY <2>1, <3>1, <3>2 DEF TakeJob, TypeOK, WorkerState, disk, loop
    <3>4. Control'
      BY <2>0, <2>1, <3>1, JobAssumption DEF TakeJob, Control, disk, loop
    <3> QED
      BY <3>3, <3>4
  <2>2. CASE WorkerReturns(w) \/ DropResult(w)
    <3>1. worker' = [worker EXCEPT ![w] = Gone] /\ queue' \subseteq queue
      BY <2>2 DEF WorkerReturns, DropResult
    <3>2. worker' \in [Worker -> WorkerState]
      BY <2>0, <3>1 DEF WorkerState, Gone
    <3>3. TypeOK'
      BY <2>2, <3>1, <3>2
      DEF WorkerReturns, DropResult, TypeOK, WorkerState, disk, loop
    <3>4. Control'
      BY <2>0, <2>2, <3>1
      DEF WorkerReturns, DropResult, Control, Gone, disk, loop
    <3> QED
      BY <3>3, <3>4
  <2>3. CASE ListPage(w)
    <3>1. PICK n \in 0..MaxItems, last \in BOOLEAN :
            worker' = [worker EXCEPT ![w].count = @ + n,
                         ![w].state = IF last THEN "sending" ELSE @]
      BY <2>3 DEF ListPage
    <3>2. worker' \in [Worker -> WorkerState]
      <4>1. worker[w].count + n \in Nat
        BY <2>0, BoundAssumption DEF WorkerState
      <4>2. (IF last THEN "sending" ELSE worker[w].state)
               \in {"idle", "listing", "sending", "gone"}
        BY <2>0 DEF WorkerState
      <4> QED
        BY <2>0, <3>1, <4>1, <4>2 DEF WorkerState
    <3>3. TypeOK'
      BY <2>3, <3>2 DEF ListPage, TypeOK, WorkerState, disk, loop
    <3>4. Control'
      BY <2>0, <2>3, <3>1 DEF ListPage, Control, disk, loop, WorkerState
    <3> QED
      BY <3>3, <3>4
  <2>4. CASE PageFails(w)
    <3>1. worker' \in [Worker -> WorkerState]
      BY <2>0, <2>4 DEF WorkerState, PageFails
    <3>2. TypeOK'
      BY <2>4, <3>1, FaultType DEF PageFails, TypeOK, WorkerState, disk, loop
    <3>3. Control'
      BY <2>0, <2>4 DEF PageFails, Control, disk, loop, WorkerState
    <3> QED
      BY <3>2, <3>3
  <2>5. CASE SendResult(w)
    <3>1. worker' = [worker EXCEPT ![w] = Idle]
      BY <2>5 DEF SendResult
    <3>2. worker' \in [Worker -> WorkerState]
      BY <2>0, <3>1 DEF WorkerState, Idle, Gone
    <3>3. [job |-> worker[w].job, count |-> worker[w].count,
           ok |-> worker[w].ok] \in Result
      BY <2>0, <2>5 DEF SendResult, Control, Result, WorkerState
    <3>4. results' \in Seq(Result)
      BY <2>5, <3>3, AppendProperties DEF SendResult, TypeOK, Result
    <3>5. TypeOK'
      BY <2>5, <3>2, <3>4 DEF SendResult, TypeOK, WorkerState, Result, disk, loop
    <3>6. pc \notin {"off", "opened", "finishing", "removing"}
      BY <2>5 DEF SendResult, Control
    <3>7. Control'
      BY <2>0, <2>5, <3>1, <3>6 DEF SendResult, Control, Idle, Gone, disk, loop
    <3> QED
      BY <3>5, <3>7
  <2> QED
    BY <2>1, <2>2, <2>3, <2>4, <2>5 DEF WorkerStep
<1>9. CASE Drain
  <2>1. results' \in Seq(Result)
    BY <1>9, HeadTailProperties DEF Drain, TypeOK, Result
  <2>2. TypeOK'
    BY <1>9, <2>1 DEF Drain, TypeOK, Result, disk, loop
  <2> QED
    BY <1>9, <2>2 DEF Drain, Control, disk, loop
<1>10. CASE ReceiveFailed
  <2>1. results' \in Seq(Result)
    BY <1>10, HeadTailProperties DEF ReceiveFailed, TypeOK, Result
  <2>2. TypeOK'
    BY <1>10, <2>1 DEF ReceiveFailed, TypeOK, Result, disk
  <2> QED
    BY <1>10, <2>2 DEF ReceiveFailed, Control, disk
<1>11. CASE ReceiveBatch
  <2>1. results' \in Seq(Result) /\ Head(results) \in Result
    BY <1>11, HeadTailProperties DEF ReceiveBatch, TypeOK, Result
  <2> DEFINE b == Batch(Head(results).job, Head(results).count)
  <2>2. b \in Seq(Line \cup {Torn}) /\ Len(b) \in Nat
    BY <2>1, BatchType DEF Result
  <2>3. out' = out \o b
    BY <1>11 DEF ReceiveBatch
  <2> HIDE DEF b
  <2>4. out' \in Seq(Line \cup {Torn}) /\ Len(out') = Len(out) + Len(b)
        /\ Len(out) \in Nat
    BY <2>2, <2>3, ConcatProperties, LenProperties DEF TypeOK
  <2>5. synced' \in 0..Len(out')
    BY <1>11, <2>2, <2>4 DEF ReceiveBatch, TypeOK
  <2>6. TypeOK'
    BY <1>11, <2>1, <2>4, <2>5 DEF ReceiveBatch, TypeOK, Result
  <2>7. Control'
    BY <1>11, <2>1 DEF ReceiveBatch, Control, Result
  <2> QED
    BY <2>6, <2>7
<1>12. CASE ReceiveBatchFails
  <2>1. results' \in Seq(Result) /\ Head(results) \in Result
    BY <1>12, HeadTailProperties DEF ReceiveBatchFails, TypeOK, Result
  <2>2. PICK n \in 0..Head(results).count, torn \in {<<>>, <<Torn>>} :
          out' = out \o Batch(Head(results).job, n) \o torn
    BY <1>12 DEF ReceiveBatchFails
  <2>3. out' \in Seq(Line \cup {Torn}) /\ Len(out') >= Len(out)
        /\ Len(out') \in Nat /\ Len(out) \in Nat
    <3>1. Head(results).job \in Job /\ n \in Nat
      BY <2>1 DEF Result
    <3> QED
      BY <2>2, <3>1, FailedBatchType, Zenon
  <2>4. synced' \in 0..Len(out')
    BY <1>12, <2>3 DEF ReceiveBatchFails, TypeOK
  <2>5. TypeOK'
    BY <1>12, <2>1, <2>3, <2>4, FaultType
    DEF ReceiveBatchFails, StopCommitting, NoResult, TypeOK, Result
  <2>6. Control'
    BY <1>12 DEF ReceiveBatchFails, StopCommitting, NoResult, Control
  <2> QED
    BY <2>5, <2>6
<1>13. CASE CommitOutput
  <2>1. Len(out) \in Nat /\ mem' \in Checkpoint
    BY <1>13, CommitRecords
  <2>3. TypeOK'
    BY <1>13, <2>1 DEF CommitOutput, TypeOK, NoResult, pool
  <2>4. Control'
    BY <1>13 DEF CommitOutput, Control, NoResult, pool
  <2> QED
    BY <2>3, <2>4
<1>14. CASE CommitOutputFails
  <2>1. TypeOK'
    BY <1>14, FaultType
    DEF CommitOutputFails, StopCommitting, NoResult, TypeOK, disk, pool
  <2> QED
    BY <1>14, <2>1
    DEF CommitOutputFails, StopCommitting, NoResult, Control, disk, pool
<1>15. CASE SaveProgress
  <2>1. TypeOK'
    BY <1>15, SaveType DEF SaveProgress, TypeOK, pool
  <2> QED
    BY <1>15, <2>1 DEF SaveProgress, Control, pool
<1>16. CASE SaveProgressFails
  <2>1. TypeOK'
    BY <1>16, SaveType, FaultType
    DEF SaveProgressFails, StopCommitting, NoResult, TypeOK, pool
  <2> QED
    BY <1>16, <2>1 DEF SaveProgressFails, StopCommitting, NoResult, Control, pool
<1>17. CASE EndLoop
  <2>1. CASE CollectionComplete /\ mem' = [mem EXCEPT !.phase = "collected"]
             /\ pc' = "finishing"
             /\ UNCHANGED <<pool, current, errored, commitFailed, cancelled>>
    <3>1. mem' \in Checkpoint
      BY <2>1 DEF TypeOK, Checkpoint
    <3>2. TypeOK'
      BY <1>17, <2>1, <3>1 DEF EndLoop, TypeOK, disk, pool
    <3>3. Control'
      BY <1>17, <2>1
      DEF EndLoop, LoopOver, CollectionComplete, Control, disk, pool
    <3> QED
      BY <3>2, <3>3
  <2>2. CASE ProcessEnds
    BY <1>17, <2>2, ProcessEndsType DEF EndLoop, TypeOK, disk, Result, WorkerState
  <2> QED
    BY <1>17, <2>1, <2>2 DEF EndLoop
<1>18. CASE SaveCollected
  <2>1. CASE ProcessEnds
    BY <1>18, <2>1, SaveType, ProcessEndsType
    DEF SaveCollected, TypeOK, Result, WorkerState
  <2>2. CASE ~Retain /\ pc' = "removing"
             /\ UNCHANGED <<pool, mem, current, errored, commitFailed, cancelled>>
    <3>1. TypeOK'
      BY <1>18, <2>2, SaveType DEF SaveCollected, TypeOK, pool
    <3> QED
      BY <1>18, <2>2, <3>1 DEF SaveCollected, Control, pool
  <2> QED
    BY <1>18, <2>1, <2>2 DEF SaveCollected
<1>19. CASE SaveCollectedFails
  BY <1>19, SaveType, ProcessEndsType, FaultType
  DEF SaveCollectedFails, TypeOK, Result, WorkerState
<1>20. CASE RemoveCheckpoint
  BY <1>20, ProcessEndsType, EmptyCheckpoints
  DEF RemoveCheckpoint, TypeOK, Result, WorkerState
<1>21. CASE RemoveCheckpointFails
  BY <1>21, ProcessEndsType, FaultType
  DEF RemoveCheckpointFails, TypeOK, disk, Result, WorkerState
<1>22. CASE Cancel
  <2>1. TypeOK'
    BY <1>22, FaultType DEF Cancel, TypeOK, disk, pool
  <2> QED
    BY <1>22, <2>1 DEF Cancel, Control, disk, pool
<1>23. CASE Kill
  BY <1>23, ProcessEndsType, FaultType DEF Kill, TypeOK, disk, Result, WorkerState
<1>24. CASE PowerLoss
  <2>1. out' \in Seq(Line \cup {Torn}) /\ synced' \in 0..Len(out')
    BY <1>24, PowerLossOutput DEF PowerLoss
  <2>2. ckpt' \in Checkpoint /\ ckptDisk' \subseteq Checkpoint
        /\ ckpt' \in ckptDisk'
    BY <1>24 DEF PowerLoss, TypeOK
  <2> QED
    BY <1>24, <2>1, <2>2, ProcessEndsType, FaultType
    DEF PowerLoss, TypeOK, Result, WorkerState
<1>25. CASE UNCHANGED vars
  BY <1>25 DEF vars, disk, pool, loop, TypeOK, Control
<1> QED
  BY <1>1, <1>2, <1>3, <1>4, <1>5, <1>6, <1>7, <1>8, <1>9, <1>10, <1>11, <1>12,
     <1>13, <1>14, <1>15, <1>16, <1>17, <1>18, <1>19, <1>20, <1>21, <1>22,
     <1>23, <1>24, <1>25 DEF Next, Start, LoopStep

\* Every reachable state has its type (and its control is consistent).
THEOREM TypeCorrect == Spec => []TypeInv
BY TypeInit, TypeStep, PTL DEF Spec

\* Type correctness of the collection, for every plan and every bound.
THEOREM TypeSafe == Spec => []TypeOK
BY TypeCorrect, PTL DEF TypeInv

-----------------------------------------------------------------------------
(* Layer 2: a job is in one pair of hands at a time. *)

\* There are n numbers from 1 to n.
LEMMA IntervalSize ==
  ASSUME NEW n \in Nat
  PROVE  IsFiniteSet(1..n) /\ Cardinality(1..n) = n
<1> DEFINE low == 1
<1>1. low \in Int /\ n \in Int
  OBVIOUS
<1>2. IsFiniteSet(low..n) /\ Cardinality(low..n) = n
  <2>1. ~(low > n) => n - low + 1 = n
    OBVIOUS
  <2>2. low > n => n = 0
    OBVIOUS
  <2> HIDE DEF low
  <2>3. IsFiniteSet(low..n) /\ Cardinality(low..n) = IF low > n THEN 0 ELSE n - low + 1
    BY <1>1, FS_Interval
  <2> QED
    BY <2>1, <2>2, <2>3
<1> QED
  BY <1>2

\* A checkpoint that repeats no job has completed as many jobs as it has entries.
LEMMA DoneCardinality ==
  ASSUME NEW c \in Checkpoint, NoRepeat(c)
  PROVE  /\ Done(c) \subseteq Job /\ IsFiniteSet(Done(c))
         /\ Cardinality(Done(c)) = Len(c.completed)
         /\ Len(c.completed) \in Nat
<1> DEFINE n == Len(c.completed)
           f == [i \in 1..n |-> c.completed[i].job]
<1>1. c.completed \in Seq(CompletedJob) /\ n \in Nat
  BY LenProperties DEF Checkpoint
<1>2. \A i \in 1..n : c.completed[i].job \in Job
  <2>1. \A i \in 1..n : c.completed[i] \in CompletedJob
    BY <1>1, ElementOfSeq
  <2> QED
    BY <2>1 DEF CompletedJob
<1>3. Done(c) \subseteq Job
  BY <1>2 DEF Done
<1>4. f \in Surjection(1..n, Done(c))
  BY DEF Done, Surjection
<1>5. f \in Injection(1..n, Done(c))
  <2>1. f \in [1..n -> Done(c)]
    BY DEF Done
  <2>2. \A i, k \in 1..n : f[i] = f[k] => i = k
    BY DEF NoRepeat
  <2> QED
    BY <2>1, <2>2 DEF Injection, IsInjective
<1> HIDE DEF n
<1>6. IsFiniteSet(1..n) /\ Cardinality(1..n) = n
  BY <1>1, IntervalSize, Zenon
<1>7. /\ IsFiniteSet(Done(c))
      /\ Cardinality(Done(c)) = Cardinality(1..n)
  BY <1>4, <1>5, <1>6, FS_Surjection
<1> QED
  BY <1>1, <1>3, <1>6, <1>7 DEF n

\* Nothing is pending exactly when every job of the plan has its entry.
LEMMA PendingCardinality ==
  ASSUME NEW c \in Checkpoint, NoRepeat(c)
  PROVE  /\ Cardinality(Pending(c)) = Total - Len(c.completed)
         /\ Len(c.completed) <= Total
         /\ Len(c.completed) = Total <=> Done(c) = Job
         /\ Pending(c) = {} <=> Done(c) = Job
<1>1. /\ Done(c) \in SUBSET Job /\ IsFiniteSet(Done(c))
      /\ Cardinality(Done(c)) = Len(c.completed)
      /\ Len(c.completed) \in Nat
  BY DoneCardinality
<1>2. IsFiniteSet(Job) /\ Total = Cardinality(Job) /\ Total \in Nat
  BY JobAssumption, EmptyCheckpoints DEF Total
<1>3. Len(c.completed) <= Total /\ (Len(c.completed) = Total => Done(c) = Job)
  BY <1>1, <1>2, FS_Subset
<1>4. Done(c) = Job => Len(c.completed) = Total
  BY <1>1, <1>2
<1>5. Pending(c) \cup Done(c) = Job /\ Pending(c) \cap Done(c) = {}
  BY <1>1 DEF Pending
<1>6. Pending(c) \in SUBSET Job
  BY DEF Pending
<1>7. IsFiniteSet(Pending(c)) /\ Cardinality(Pending(c)) \in Nat
  BY <1>2, <1>6, FS_Subset, FS_CardinalityType
<1>8. Cardinality(Job) = Cardinality(Pending(c)) + Cardinality(Done(c))
  <2>1. Cardinality(Pending(c) \cup Done(c)) =
          Cardinality(Pending(c)) + Cardinality(Done(c))
            - Cardinality(Pending(c) \cap Done(c))
    BY <1>1, <1>7, FS_Union
  <2>2. Cardinality(Pending(c) \cap Done(c)) = 0
    BY <1>5, FS_EmptySet
  <2>3. Cardinality(Job) = Cardinality(Pending(c) \cup Done(c))
    BY <1>5
  <2>4. Cardinality(Done(c)) \in Nat
    BY <1>1
  <2> QED
    BY <1>7, <2>1, <2>2, <2>3, <2>4
<1>9. Cardinality(Pending(c)) = Total - Len(c.completed)
  BY <1>1, <1>2, <1>7, <1>8
<1> QED
  BY <1>3, <1>4, <1>5, <1>9

\* ValidateResume accepts a checkpoint exactly when its progress is good.
LEMMA ValidIsGood ==
  ASSUME NEW c \in Checkpoint
  PROVE  ValidResume(c) <=> GoodProgress(c)
<1>1. NoRepeat(c) =>
        /\ Done(c) \subseteq Job
        /\ Total - Cardinality(Done(c)) = Total - Len(c.completed)
        /\ Total \in Nat /\ Len(c.completed) \in Nat
  BY DoneCardinality, EmptyCheckpoints
<1>2. c.remaining \in Nat
  BY DEF Checkpoint
<1> QED
  BY <1>1, <1>2 DEF ValidResume, GoodProgress, NoRepeat

\* Only the phase of a checkpoint changes.
LEMMA WithPhase ==
  ASSUME NEW c \in Checkpoint, NEW d, d = [c EXCEPT !.phase = "collected"]
  PROVE  d \in Checkpoint /\ d.phase = "collected" /\ d.completed = c.completed
         /\ d.remaining = c.remaining /\ d.offset = c.offset /\ Done(d) = Done(c)
BY DEF Checkpoint, Done

\* Without goroutines, queue and commit in progress nobody holds a job.
LEMMA NobodyHolds ==
  ASSUME NEW S, S = Job,
         \A w \in Worker : worker'[w].job = NoJob,
         results' = <<>>, queue' = {}, current'.job = NoJob,
         Done(mem)' \subseteq Job
  PROVE  Disjoint'
BY JobAssumption, EmptySeq DEF Disjoint

\* The end of a process ends its goroutines, so that nobody holds a job twice.
LEMMA ProcessEndsHolders == ASSUME ProcessEnds PROVE Holders'
<1>1. Done(mem)' = {}
  BY EmptySeq DEF ProcessEnds, Done, Absent
<1>2. Disjoint'
  BY <1>1, NobodyHolds DEF ProcessEnds, Gone, NoResult
<1> QED
  BY <1>2 DEF ProcessEnds, Holders

\* Before the first start nobody holds a job.
LEMMA HoldersInit == Init => Holders
<1> SUFFICES ASSUME Init PROVE Holders
  OBVIOUS
<1>1. Done(mem) = {} /\ Len(results) = 0
  BY EmptySeq DEF Init, Done, Absent
<1>2. Disjoint
  BY <1>1, JobAssumption DEF Init, Disjoint, Gone, NoResult
<1> QED
  BY <1>2 DEF Init, Holders

\* Recording a job that is not done yet keeps the progress good.
LEMMA CommitProgress ==
  ASSUME TypeInv, CommitOutput, GoodProgress(mem), current.job \notin Done(mem)
  PROVE  GoodProgress(mem') /\ Done(mem') = Done(mem) \cup {current.job}
<1> DEFINE n == Len(mem.completed)
<1>1. /\ current.job \in Job /\ n \in Nat /\ mem.remaining \in Nat
      /\ mem \in Checkpoint
  BY CommitRecords DEF TypeInv, TypeOK
<1>2. /\ mem'.phase = mem.phase
      /\ mem'.remaining = IF mem.remaining > 0 THEN mem.remaining - 1 ELSE 0
      /\ Len(mem'.completed) = n + 1
  BY CommitRecords
<1>3. /\ \A i \in 1..n : mem'.completed[i].job = mem.completed[i].job
      /\ mem'.completed[n + 1].job = current.job
  BY CommitRecords
<1>4. /\ NoRepeat(mem) /\ mem.remaining = Total - n /\ mem.phase # "absent"
      /\ mem.phase = "collected" => n = Total
  BY DEF GoodProgress
<1>5. n < Total /\ Total \in Nat
  BY <1>1, <1>4, PendingCardinality, EmptyCheckpoints
<1>6. \A i \in 1..n : mem.completed[i].job # current.job
  BY DEF Done
<1>7. \A i, k \in 1..n : mem.completed[i].job = mem.completed[k].job => i = k
  BY <1>4 DEF NoRepeat
<1> HIDE DEF n
<1>8. NoRepeat(mem')
  <2> SUFFICES ASSUME NEW i \in 1..(n + 1), NEW k \in 1..(n + 1),
                      mem'.completed[i].job = mem'.completed[k].job
               PROVE  i = k
    BY <1>2 DEF NoRepeat
  <2>1. CASE i \in 1..n /\ k \in 1..n
    BY <1>3, <1>7, <2>1
  <2>2. CASE i = n + 1 /\ k \in 1..n
    BY <1>3, <1>6, <2>2
  <2>3. CASE i \in 1..n /\ k = n + 1
    BY <1>3, <1>6, <2>3
  <2> QED
    BY <1>1, <2>1, <2>2, <2>3
<1>9. GoodProgress(mem')
  <2>1. mem'.remaining = Total - (n + 1)
    BY <1>1, <1>2, <1>4, <1>5
  <2>2. mem'.phase \notin {"absent", "collected"}
    BY <1>2, <1>4, <1>5
  <2> QED
    BY <1>2, <1>8, <2>1, <2>2 DEF GoodProgress
<1>10. Done(mem') = Done(mem) \cup {current.job}
  <2>1. Done(mem') = {mem'.completed[i].job : i \in 1..(n + 1)}
    BY <1>2 DEF Done
  <2>2. Done(mem) = {mem.completed[i].job : i \in 1..n}
    BY DEF Done, n
  <2> QED
    BY <1>1, <1>3, <2>1, <2>2
<1> QED
  BY <1>9, <1>10

\* Every step leaves each unfinished job in at most one pair of hands.
LEMMA HoldersStep == TypeInv /\ TypeInv' /\ Holders /\ [Next]_vars => Holders'
<1> SUFFICES ASSUME TypeInv, TypeInv', Holders, [Next]_vars PROVE Holders'
  OBVIOUS
<1>0. /\ worker \in [Worker -> WorkerState]
      /\ results \in Seq(Result) /\ Len(results) \in Nat
      /\ mem \in Checkpoint /\ mem' \in Checkpoint /\ ckpt \in Checkpoint
      /\ queue \subseteq Job
      /\ \A i \in 1..Len(results) : results[i].job \in Job
  <2>1. results \in Seq(Result)
    BY DEF TypeInv, TypeOK, Result
  <2>2. \A i \in 1..Len(results) : results[i] \in Result
    BY <2>1, ElementOfSeq
  <2> QED
    BY <2>1, <2>2, LenProperties DEF TypeInv, TypeOK, WorkerState, Result
<1>1. CASE StartNew \/ Resume
  <2>1. GoodProgress(mem')
    <3>1. CASE StartNew
      <4>1. Len(<<>>) = 0 /\ Total \in Nat
        BY EmptySeq, EmptyCheckpoints
      <4> QED
        BY <3>1, <4>1 DEF StartNew, NewCheckpoint, GoodProgress, NoRepeat
    <3>2. CASE Resume
      BY <1>0, <3>2, ValidIsGood DEF Resume, CanResume
    <3> QED
      BY <1>1, <3>1, <3>2
  <2>2. /\ pc = "off" /\ pc' = "opened" /\ queue' = {} /\ results' = <<>>
        /\ \A w \in Worker : worker'[w].job = NoJob
        /\ current'.job = NoJob
    BY <1>1 DEF StartNew, Resume, pool, Holders, TypeInv, Control
  <2>3. Done(mem)' \subseteq Job
    BY <1>0, <2>1, DoneCardinality DEF GoodProgress, Done
  <2>4. Disjoint'
    BY <2>2, <2>3, NobodyHolds
  <2> QED
    BY <2>1, <2>2, <2>4 DEF Holders
<1>2. CASE StartNewFails \/ ResumeFails \/ Cancel
  BY <1>2 DEF StartNewFails, ResumeFails, Cancel, pool, loop, Holders, Disjoint,
              Done, GoodProgress, NoRepeat
<1>3. CASE SavePlan
  <2>1. GoodProgress(mem) /\ pc = "opened" /\ Disjoint
    BY <1>3 DEF SavePlan, Holders
  <2>2. /\ Cardinality(Pending(mem)) = Total - Len(mem.completed)
        /\ Pending(mem) = {} <=> Len(mem.completed) = Total
    BY <1>0, <2>1, PendingCardinality DEF GoodProgress
  <2>3. results' = <<>> /\ current'.job = NoJob
        /\ \A w \in Worker : worker[w].job = NoJob
    BY <1>3, <2>1 DEF SavePlan, TypeInv, Control
  <2>4. CASE /\ Pending(mem) # {}
             /\ mem' = [mem EXCEPT !.remaining = Cardinality(Pending(mem))]
             /\ queue' = Pending(mem)
             /\ worker' = [w \in Worker |-> Idle]
             /\ pc' = "collecting"
    <3>1. /\ mem'.completed = mem.completed /\ mem'.phase = mem.phase
          /\ mem'.remaining = Total - Len(mem.completed)
      BY <1>0, <2>2, <2>4 DEF Checkpoint
    <3>2. GoodProgress(mem')
      BY <2>1, <3>1 DEF GoodProgress, NoRepeat
    <3>3. Done(mem') = Done(mem)
      BY <3>1 DEF Done
    <3>4. \A w \in Worker : worker'[w].job = NoJob
      BY <2>4 DEF Idle, Gone
    <3>5. Len(results') = 0
      BY <2>3, EmptySeq
    <3>6. Done(mem) \subseteq Job
      BY <1>0, <2>1, DoneCardinality DEF GoodProgress
    <3>7. Done(mem)' = Done(mem)
      BY <3>3 DEF Done
    <3>8. Disjoint'
      BY <2>3, <2>4, <3>4, <3>5, <3>6, <3>7, JobAssumption DEF Disjoint, Pending
    <3> QED
      BY <2>4, <3>2, <3>8 DEF Holders
  <2>5. CASE /\ Pending(mem) = {}
             /\ mem' = [mem EXCEPT !.phase = "collected"]
             /\ pc' = "finishing"
             /\ UNCHANGED <<queue, worker>>
    <3>1. /\ mem'.completed = mem.completed /\ mem'.phase = "collected"
          /\ mem'.remaining = mem.remaining /\ Done(mem)' = Done(mem)
      BY <1>0, <2>5, WithPhase DEF Done
    <3>2. GoodProgress(mem')
      BY <2>1, <2>2, <2>5, <3>1 DEF GoodProgress, NoRepeat
    <3>3. queue' = {} /\ \A w \in Worker : worker'[w].job = NoJob
      BY <2>1, <2>3, <2>5 DEF Holders
    <3>4. Done(mem) \subseteq Job
      BY <1>0, <2>1, DoneCardinality DEF GoodProgress
    <3>5. Disjoint'
      BY <2>3, <3>1, <3>3, <3>4, NobodyHolds
    <3> QED
      BY <2>5, <3>2, <3>3, <3>5 DEF Holders
  <2> QED
    BY <1>3, <2>4, <2>5 DEF SavePlan
<1>4. CASE ProcessEnds
  BY <1>4, ProcessEndsHolders
<1>5. CASE \E w \in Worker : WorkerStep(w)
  <2> PICK w \in Worker : WorkerStep(w)
    BY <1>5
  <2>1. CASE TakeJob(w)
    <3>1. PICK j \in queue :
            /\ queue' = queue \ {j}
            /\ worker' = [worker EXCEPT ![w] =
                 [state |-> "listing", job |-> j, count |-> 0, ok |-> TRUE]]
      BY <2>1 DEF TakeJob
    <3>2. Disjoint'
      BY <1>0, <2>1, <3>1 DEF TakeJob, Holders, Disjoint, Done, disk, loop, Result
    <3>3. pc' = pc /\ mem' = mem
      BY <2>1 DEF TakeJob, loop
    <3> QED
      BY <3>1, <3>2, <3>3 DEF Holders, GoodProgress, NoRepeat
  <2>2. CASE WorkerReturns(w) \/ DropResult(w)
    <3>1. worker' = [worker EXCEPT ![w] = Gone] /\ queue' \subseteq queue
          /\ UNCHANGED <<results, loop>>
      BY <2>2 DEF WorkerReturns, DropResult
    <3>2. \A v \in Worker : worker'[v].job = IF v = w THEN NoJob ELSE worker[v].job
      BY <1>0, <3>1 DEF Gone
    <3>3. Done(mem)' = Done(mem) /\ current' = current /\ results' = results
      BY <3>1 DEF loop, Done
    <3>4. Disjoint'
      BY <1>0, <3>1, <3>2, <3>3, JobAssumption DEF Holders, Disjoint
    <3> QED
      BY <3>1, <3>4 DEF Holders, GoodProgress, NoRepeat, loop
  <2>3. CASE ListPage(w) \/ PageFails(w)
    <3>1. \A v \in Worker : worker'[v].job = worker[v].job
      <4>1. CASE ListPage(w)
        <5>1. PICK n \in 0..MaxItems, last \in BOOLEAN :
                worker' = [worker EXCEPT ![w].count = @ + n,
                             ![w].state = IF last THEN "sending" ELSE @]
          BY <4>1 DEF ListPage
        <5>2. \A v \in Worker : v # w => worker'[v] = worker[v]
          BY <1>0, <5>1
        <5>3. worker'[w].job = worker[w].job
          BY <1>0, <5>1 DEF WorkerState
        <5> QED
          BY <5>2, <5>3
      <4>2. CASE PageFails(w)
        BY <1>0, <4>2 DEF PageFails, WorkerState
      <4> QED
        BY <2>3, <4>1, <4>2
    <3>2. UNCHANGED <<queue, results, loop>>
      BY <2>3 DEF ListPage, PageFails
    <3>3. Disjoint'
      BY <3>1, <3>2 DEF Holders, Disjoint, Done, loop
    <3> QED
      BY <3>2, <3>3 DEF Holders, GoodProgress, NoRepeat, loop
  <2>4. CASE SendResult(w)
    <3> DEFINE r == [job |-> worker[w].job, count |-> worker[w].count,
                     ok |-> worker[w].ok]
    <3>1. /\ worker' = [worker EXCEPT ![w] = Idle]
          /\ results' = Append(results, r)
          /\ UNCHANGED <<queue, loop>>
      BY <2>4 DEF SendResult
    <3>2. worker[w].job \in Job
      BY <1>0, <2>4 DEF SendResult, TypeInv, Control, WorkerState
    <3>3. r \in Result
      BY <1>0, <3>2 DEF Result, WorkerState
    <3>4. /\ Len(results') = Len(results) + 1
          /\ \A i \in 1..Len(results) : results'[i] = results[i]
          /\ results'[Len(results) + 1].job = worker[w].job
      BY <1>0, <3>1, <3>3, AppendProperties
    <3>5. \A v \in Worker : worker'[v].job = IF v = w THEN NoJob ELSE worker[v].job
      BY <1>0, <3>1 DEF Idle, Gone
    <3>6. Done(mem)' = Done(mem) /\ current' = current /\ queue' = queue
      BY <3>1 DEF loop, Done
    <3>7. Disjoint'
      BY <1>0, <3>2, <3>4, <3>5, <3>6, JobAssumption DEF Holders, Disjoint
    <3> QED
      BY <3>1, <3>7 DEF Holders, GoodProgress, NoRepeat, loop
  <2> QED
    BY <2>1, <2>2, <2>3, <2>4 DEF WorkerStep
<1>6. CASE Drain \/ ReceiveFailed \/ ReceiveBatchFails
  <2>1. results # <<>> /\ results' = Tail(results)
        /\ UNCHANGED <<queue, worker, mem>>
    BY <1>6 DEF Drain, ReceiveFailed, ReceiveBatchFails, loop
  <2>2. pc = "collecting" /\ pc' \in {"collecting", "saving"}
        /\ current.job = NoJob /\ current'.job = NoJob
    BY <1>6 DEF Drain, ReceiveFailed, ReceiveBatchFails, StopCommitting,
                NoResult, loop, TypeInv, Control
  <2>3. /\ Len(results') = Len(results) - 1
        /\ \A i \in 1..Len(results') : results'[i] = results[i + 1]
    BY <1>0, <2>1, HeadTailProperties
  <2>4. Disjoint'
    BY <1>0, <2>1, <2>2, <2>3 DEF Holders, Disjoint, Done
  <2> QED
    BY <2>1, <2>2, <2>4 DEF Holders, GoodProgress, NoRepeat
<1>7. CASE ReceiveBatch
  <2>1. /\ results # <<>> /\ results' = Tail(results)
        /\ UNCHANGED <<queue, worker, mem>>
        /\ pc = "collecting" /\ pc' = "written"
        /\ current' = Head(results)
    BY <1>7 DEF ReceiveBatch
  <2>2. /\ Len(results') = Len(results) - 1
        /\ Head(results) = results[1] /\ 1 \in 1..Len(results)
        /\ \A i \in 1..Len(results') : results'[i] = results[i + 1]
    BY <1>0, <2>1, HeadTailProperties, EmptySeq
  <2>3. /\ \A i \in 1..Len(results') : results'[i].job = results[i + 1].job
        /\ current'.job = results[1].job
        /\ Done(mem)' = Done(mem) /\ queue' = queue /\ worker' = worker
    BY <2>1, <2>2 DEF Done
  <2>4. Len(results') \in Nat
    BY <1>0, <2>2
  <2>5. Disjoint'
    BY <1>0, <2>2, <2>3, <2>4 DEF Holders, Disjoint
  <2> QED
    BY <2>1, <2>5 DEF Holders, GoodProgress, NoRepeat
<1>8. CASE CommitOutput
  <2>1. /\ pc = "written" /\ pc' = "saving" /\ current'.job = NoJob
        /\ UNCHANGED pool /\ current.job \in Job
    BY <1>8 DEF CommitOutput, NoResult, TypeInv, Control
  <2>2. GoodProgress(mem) /\ Disjoint
    BY <2>1 DEF Holders
  <2>3. current.job \notin Done(mem)
    BY <2>2 DEF Disjoint
  <2>4. GoodProgress(mem') /\ Done(mem') = Done(mem) \cup {current.job}
    BY <1>8, <2>2, <2>3, CommitProgress
  <2>5. Done(mem)' = Done(mem) \cup {current.job}
    BY <2>4 DEF Done
  <2>6. Done(mem) \subseteq Job
    BY <1>0, <2>2, DoneCardinality DEF GoodProgress
  <2>7. Disjoint'
    BY <1>0, <2>1, <2>2, <2>5, <2>6, JobAssumption DEF Disjoint, pool
  <2> QED
    BY <2>1, <2>4, <2>7 DEF Holders
<1>9. CASE CommitOutputFails \/ SaveProgressFails
  <2>1. UNCHANGED <<pool, mem>> /\ pc' = "collecting" /\ current'.job = NoJob
        /\ pc \in {"written", "saving"}
    BY <1>9 DEF CommitOutputFails, SaveProgressFails, StopCommitting, NoResult
  <2>2. Done(mem) \subseteq Job /\ Done(mem)' = Done(mem)
    BY <1>0, <2>1, DoneCardinality DEF Holders, GoodProgress, Done
  <2>3. Disjoint'
    BY <1>0, <2>1, <2>2, JobAssumption DEF Holders, Disjoint, pool
  <2> QED
    BY <2>1, <2>3 DEF Holders, GoodProgress, NoRepeat
<1>10. CASE SaveProgress
  <2>1. UNCHANGED <<pool, mem, current>> /\ pc' = "collecting" /\ pc = "saving"
    BY <1>10 DEF SaveProgress
  <2>2. Disjoint'
    BY <2>1 DEF Holders, Disjoint, pool, Done
  <2> QED
    BY <2>1, <2>2 DEF Holders, GoodProgress, NoRepeat
<1>11. CASE EndLoop /\ ~ProcessEnds
  <2>1. /\ pc = "collecting" /\ pc' = "finishing"
        /\ Len(mem.completed) = Total
        /\ mem' = [mem EXCEPT !.phase = "collected"]
        /\ UNCHANGED <<pool, current>>
    BY <1>11 DEF EndLoop, LoopOver, CollectionComplete
  <2>2. GoodProgress(mem) /\ Disjoint
    BY <2>1 DEF Holders
  <2>3. Done(mem) = Job
    BY <1>0, <2>1, <2>2, PendingCardinality DEF GoodProgress
  <2>4. queue' = {}
    BY <1>0, <2>1, <2>2, <2>3 DEF Disjoint, pool
  <2>5. /\ mem'.completed = mem.completed /\ mem'.phase = "collected"
        /\ mem'.remaining = mem.remaining /\ Done(mem)' = Done(mem)
    BY <1>0, <2>1, WithPhase DEF Done
  <2>6. GoodProgress(mem')
    BY <2>1, <2>2, <2>5 DEF GoodProgress, NoRepeat
  <2>7. Disjoint'
    BY <2>1, <2>2, <2>5 DEF Disjoint, pool
  <2> QED
    BY <2>1, <2>4, <2>6, <2>7 DEF Holders
<1>12. CASE SaveCollected /\ ~ProcessEnds
  <2>1. UNCHANGED <<pool, mem, current>> /\ pc' = "removing" /\ pc = "finishing"
    BY <1>12 DEF SaveCollected
  <2>2. Disjoint'
    BY <2>1 DEF Holders, Disjoint, pool, Done
  <2> QED
    BY <2>1, <2>2 DEF Holders, GoodProgress, NoRepeat, pool
<1>13. CASE UNCHANGED vars
  BY <1>13 DEF vars, pool, loop, Holders, Disjoint, Done, GoodProgress, NoRepeat
<1> QED
  BY <1>1, <1>2, <1>3, <1>4, <1>5, <1>6, <1>7, <1>8, <1>9, <1>10, <1>11, <1>12,
     <1>13
  DEF Next, Start, LoopStep, SavePlanCancelled, SavePlanFails, EndLoop,
      SaveCollected, SaveCollectedFails, RemoveCheckpoint,
      RemoveCheckpointFails, Kill, PowerLoss

-----------------------------------------------------------------------------
(* Layer 3: what disk and memory know. *)

\* Exactness only looks at the lines before the checkpointed position.
LEMMA ExactKept ==
  ASSUME NEW c, ExactUpTo(c), \A p \in 1..c.offset : out'[p] = out[p]
  PROVE  ExactUpTo(c)'
BY DEF ExactUpTo

\* Writing behind the checkpointed position keeps the checkpoint in memory exact.
LEMMA ExactMemKept ==
  ASSUME ExactUpTo(mem), mem'.offset = mem.offset,
         mem'.completed = mem.completed,
         \A p \in 1..mem.offset : out'[p] = out[p]
  PROVE  ExactUpTo(mem)'
BY DEF ExactUpTo

\* The lines before the position Restore truncates to are the ones the checkpoint covers.
LEMMA ExactResumed ==
  ASSUME ExactUpTo(ckpt), mem' = ckpt,
         \A p \in 1..ckpt.offset : out'[p] = out[p]
  PROVE  ExactUpTo(mem)'
<1>1. mem'.offset = ckpt.offset /\ mem'.completed = ckpt.completed
  OBVIOUS
<1> QED
  BY <1>1 DEF ExactUpTo

\* A checkpoint without entries is exact at the start of the output.
LEMMA ExactAbsent == Absent.offset = 0 /\ ExactUpTo(Absent) /\ Done(Absent) = {}
BY EmptySeq DEF ExactUpTo, Absent, Done

\* The position in a checkpoint is a natural number.
LEMMA OffsetType == ASSUME NEW c \in Checkpoint PROVE c.offset \in Nat
BY DEF Checkpoint

\* What leaves the disk alone keeps what the disk promises.
LEMMA DiskKept == ASSUME DiskInv, UNCHANGED disk PROVE DiskInv'
BY DEF DiskInv, disk, ExactUpTo, GoodProgress, NoRepeat

\* What leaves the output, the phase and the checkpoint in memory alone keeps what memory knows.
LEMMA MemKept ==
  ASSUME MemInv, UNCHANGED disk, UNCHANGED <<pc, mem, current, commitFailed>>
  PROVE  MemInv'
BY DEF MemInv, Settled, disk, ExactUpTo, SafelyDone, Done

\* A program that is not running knows nothing.
LEMMA MemOff == ASSUME pc' = "off" PROVE MemInv'
BY DEF MemInv, Settled

\* The candidates stay, the synced lines stay, and no candidate that could not
\* be resumed can be resumed now.
LEMMA DiskShortened ==
  ASSUME TypeInv, TypeInv', DiskInv,
         ckptDisk' \subseteq ckptDisk,
         Len(out') <= Len(out),
         \A c \in ckptDisk' : c.offset <= synced /\ c.offset <= Len(out') =>
            /\ c.offset <= synced'
            /\ \A p \in 1..c.offset : out'[p] = out[p],
         Retain => \A c \in ckptDisk' : c.offset <= Len(out'),
         Retain /\ ckpt'.phase = "absent" => ckptDisk' = {Absent},
         ckpt'.phase # "absent" => \A c \in ckptDisk' :
            c.offset <= Len(out') => c.offset <= ckpt'.offset
  PROVE  DiskInv'
<1>1. ASSUME NEW c \in ckptDisk', c.offset <= Len(out')
      PROVE  c.offset <= synced' /\ ExactUpTo(c)'
  <2>1. c \in ckptDisk /\ c.offset \in Nat
    BY OffsetType DEF TypeInv, TypeOK
  <2>2. Len(out) \in Nat /\ Len(out') \in Nat
    BY LenProperties DEF TypeInv, TypeOK
  <2>3. c.offset <= synced /\ ExactUpTo(c)
    BY <1>1, <2>1, <2>2 DEF DiskInv
  <2> QED
    BY <1>1, <2>3, ExactKept
<1>2. \A c \in ckptDisk' : c = Absent \/ GoodProgress(c)
  BY DEF DiskInv
<1> QED
  BY <1>1, <1>2 DEF DiskInv, GoodProgress, NoRepeat

\* Saving the checkpoint in memory, or failing to, when the output ends with
\* what it records.
LEMMA DiskSaved ==
  ASSUME TypeInv, DiskInv, GoodProgress(mem), UNCHANGED <<out, synced>>,
         mem.offset = Len(out), synced = Len(out), ExactUpTo(mem),
         SaveSucceeds(mem) \/ SaveFails(mem)
  PROVE  DiskInv'
<1>1. CASE UNCHANGED <<ckpt, ckptDisk>>
  BY <1>1, DiskKept DEF disk
<1>2. CASE ckpt' = mem /\ ckptDisk' \subseteq ckptDisk \cup {mem}
  <2>1. Len(out) \in Nat
    BY LenProperties DEF TypeInv, TypeOK
  <2>2. ASSUME NEW c \in ckptDisk', c.offset <= Len(out')
        PROVE  c.offset <= synced' /\ c.offset <= ckpt'.offset /\ ExactUpTo(c)'
    <3>1. CASE c \in ckptDisk
      BY <1>2, <2>2, <3>1, ExactKept DEF DiskInv
    <3>2. CASE c = mem
      BY <1>2, <2>1, <3>2 DEF ExactUpTo
    <3> QED
      BY <1>2, <3>1, <3>2
  <2>3. \A c \in ckptDisk' : c = Absent \/ GoodProgress(c)
    BY <1>2 DEF DiskInv
  <2>4. Retain => \A c \in ckptDisk' : c.offset <= Len(out')
    BY <1>2, <2>1 DEF DiskInv
  <2>5. ckpt'.phase # "absent"
    BY <1>2 DEF GoodProgress
  <2> QED
    BY <2>2, <2>3, <2>4, <2>5 DEF DiskInv, GoodProgress, NoRepeat
<1> QED
  BY <1>1, <1>2 DEF SaveSucceeds, SaveFails

\* Committing a batch that ends the output makes the new checkpoint exact: its
\* lines are new because its job was not done.
LEMMA CommitExact ==
  ASSUME TypeInv, Holders, MemInv, CommitOutput
  PROVE  ExactUpTo(mem)'
<1> DEFINE n == Len(mem.completed)
           o == mem.offset
<1>1. /\ current.job \in Job /\ current.count \in Nat /\ Len(out) \in Nat
      /\ n \in Nat /\ mem'.offset = Len(out)
      /\ Len(mem'.completed) = n + 1
      /\ \A i \in 1..n : mem'.completed[i] = mem.completed[i]
      /\ mem'.completed[n + 1] = [job |-> current.job, count |-> current.count]
  BY CommitRecords
<1>2. o \in Nat
  BY OffsetType DEF TypeInv, TypeOK
<1>3. /\ Len(out) = o + current.count
      /\ \A k \in 1..current.count :
           out[o + k] = [job |-> current.job, item |-> k]
      /\ ExactUpTo(mem)
  BY DEF CommitOutput, MemInv
<1>4. \A i \in 1..n : mem.completed[i].job # current.job
  BY DEF CommitOutput, Holders, Disjoint, Done
<1>5. /\ \A p, q \in 1..o : out[p] = out[q] => p = q
      /\ \A p \in 1..o : \E i \in 1..n :
           /\ out[p].job = mem.completed[i].job
           /\ out[p].item \in 1..mem.completed[i].count
      /\ \A i \in 1..n : \A k \in 1..mem.completed[i].count :
           \E p \in 1..o : out[p] = [job |-> mem.completed[i].job, item |-> k]
  BY <1>3 DEF ExactUpTo
<1>6. out' = out
  BY DEF CommitOutput
<1> HIDE DEF n, o
<1>7. ASSUME NEW p \in 1..Len(out), p \notin 1..o
      PROVE  /\ p - o \in 1..current.count
             /\ out[p].job = current.job /\ out[p].item = p - o
  <2>1. p - o \in 1..current.count /\ p = o + (p - o)
    BY <1>1, <1>2, <1>3, <1>7
  <2>2. out[o + (p - o)] = [job |-> current.job, item |-> p - o]
    BY <1>3, <2>1
  <2>3. out[p] = [job |-> current.job, item |-> p - o]
    BY <2>1, <2>2
  <2> QED
    BY <2>1, <2>3
<1>8. \A p \in 1..o : out[p].job # current.job
  BY <1>4, <1>5
<1>9. ASSUME NEW p \in 1..Len(out), NEW q \in 1..Len(out), out[p] = out[q]
      PROVE  p = q
  <2>1. CASE p \in 1..o /\ q \in 1..o
    BY <1>5, <1>9, <2>1
  <2>2. CASE p \in 1..o /\ q \notin 1..o
    <3>1. out[q].job = current.job
      BY <1>7, <2>2
    <3> QED
      BY <1>8, <1>9, <2>2, <3>1
  <2>3. CASE p \notin 1..o /\ q \in 1..o
    <3>1. out[p].job = current.job
      BY <1>7, <2>3
    <3> QED
      BY <1>8, <1>9, <2>3, <3>1
  <2>4. CASE p \notin 1..o /\ q \notin 1..o
    <3>1. out[p].item = p - o /\ out[q].item = q - o
      BY <1>7, <2>4
    <3> QED
      BY <1>1, <1>2, <1>9, <3>1
  <2> QED
    BY <2>1, <2>2, <2>3, <2>4
<1>10. ASSUME NEW p \in 1..Len(out)
       PROVE  \E i \in 1..(n + 1) :
                /\ out[p].job = mem'.completed[i].job
                /\ out[p].item \in 1..mem'.completed[i].count
  <2>1. CASE p \in 1..o
    <3>1. PICK i \in 1..n : /\ out[p].job = mem.completed[i].job
                            /\ out[p].item \in 1..mem.completed[i].count
      BY <1>5, <2>1
    <3> QED
      BY <1>1, <3>1
  <2>2. CASE p \notin 1..o
    <3>1. out[p].job = current.job /\ out[p].item \in 1..current.count
      BY <1>7, <2>2
    <3>2. /\ mem'.completed[n + 1].job = current.job
          /\ mem'.completed[n + 1].count = current.count
      BY <1>1
    <3>3. n + 1 \in 1..(n + 1)
      BY <1>1
    <3> QED
      BY <3>1, <3>2, <3>3
  <2> QED
    BY <2>1, <2>2
<1>11. ASSUME NEW i \in 1..(n + 1), NEW k \in 1..mem'.completed[i].count
       PROVE  \E p \in 1..Len(out) :
                out[p] = [job |-> mem'.completed[i].job, item |-> k]
  <2>1. CASE i \in 1..n
    <3>1. mem'.completed[i] = mem.completed[i]
      BY <1>1, <2>1
    <3>2. PICK p \in 1..o : out[p] = [job |-> mem.completed[i].job, item |-> k]
      BY <1>5, <1>11, <2>1, <3>1
    <3> QED
      BY <1>1, <1>2, <1>3, <3>1, <3>2
  <2>2. CASE i = n + 1
    <3>1. /\ mem'.completed[i].job = current.job
          /\ mem'.completed[i].count = current.count
      BY <1>1, <2>2
    <3>2. out[o + k] = [job |-> current.job, item |-> k]
      BY <1>3, <1>11, <3>1
    <3>3. o + k \in 1..Len(out)
      BY <1>1, <1>2, <1>3, <1>11, <3>1
    <3> QED
      BY <3>1, <3>2, <3>3
  <2> QED
    BY <1>1, <2>1, <2>2
<1> QED
  BY <1>1, <1>6, <1>9, <1>10, <1>11 DEF ExactUpTo

\* A received batch is the end of the output.
LEMMA ReceivedBatch ==
  ASSUME TypeInv, ReceiveBatch
  PROVE  /\ current' \in Result /\ Len(out) \in Nat
         /\ Len(out') = Len(out) + current'.count
         /\ Len(out') >= Len(out)
         /\ \A p \in 1..Len(out) : out'[p] = out[p]
         /\ \A k \in 1..current'.count :
              out'[Len(out) + k] = [job |-> current'.job, item |-> k]
<1>1. current' \in Result /\ current' = Head(results)
  BY HeadTailProperties DEF TypeInv, TypeOK, Result, ReceiveBatch
<1> DEFINE b == Batch(Head(results).job, Head(results).count)
<1>2. /\ b \in Seq(Line \cup {Torn}) /\ Len(b) = Head(results).count
      /\ \A k \in 1..Head(results).count :
           b[k] = [job |-> Head(results).job, item |-> k]
  BY <1>1, BatchType DEF Result
<1>3. out' = out \o b /\ out \in Seq(Line \cup {Torn})
  BY DEF ReceiveBatch, TypeInv, TypeOK
<1> HIDE DEF b
<1>4. /\ Len(out) \in Nat /\ Len(b) \in Nat
      /\ Len(out') = Len(out) + Len(b)
      /\ \A p \in 1..Len(out) : out'[p] = out[p]
      /\ \A k \in 1..Len(b) : out'[Len(out) + k] = b[k]
  <2>1. b \in Seq(Line \cup {Torn})
    BY <1>2
  <2> QED
    BY <1>3, <2>1, Extended
<1> QED
  BY <1>1, <1>2, <1>4

\* What the loop receives is written behind what is there.
LEMMA OutputGrows ==
  ASSUME TypeInv, ReceiveBatch \/ ReceiveBatchFails
  PROVE  Len(out') >= Len(out) /\ \A p \in 1..Len(out) : out'[p] = out[p]
<1>1. Head(results) \in Result
  BY HeadTailProperties
  DEF TypeInv, TypeOK, Result, ReceiveBatch, ReceiveBatchFails
<1>2. CASE ReceiveBatch
  BY <1>1, <1>2, ReceivedBatch
<1>3. CASE ReceiveBatchFails
  <2>1. PICK n \in 0..Head(results).count, torn \in {<<>>, <<Torn>>} :
          out' = out \o Batch(Head(results).job, n) \o torn
    BY <1>3 DEF ReceiveBatchFails
  <2>2. Head(results).job \in Job /\ n \in Nat
    BY <1>1 DEF Result
  <2> QED
    BY <2>1, <2>2, FailedBatchType, Zenon DEF TypeInv
<1> QED
  BY <1>2, <1>3

\* An empty disk promises nothing.
LEMMA KnowledgeInit == Init => DiskInv /\ MemInv
<1> SUFFICES ASSUME Init PROVE DiskInv /\ MemInv
  OBVIOUS
<1>1. Len(out) = 0
  BY EmptySeq DEF Init
<1> QED
  BY <1>1, ExactAbsent, MemOff DEF Init, DiskInv, MemInv, Settled

\* Every step keeps what the checkpoints on disk promise about the output (Save after Commit).
LEMMA DiskStep ==
  TypeInv /\ TypeInv' /\ Holders /\ DiskInv /\ MemInv /\ [Next]_vars => DiskInv'
<1> SUFFICES ASSUME TypeInv, TypeInv', Holders, DiskInv, MemInv, [Next]_vars
             PROVE  DiskInv'
  OBVIOUS
<1>0. /\ Len(out) \in Nat /\ Len(out') \in Nat /\ synced \in 0..Len(out)
      /\ ckpt \in Checkpoint /\ mem \in Checkpoint /\ ckpt \in ckptDisk
      /\ ckptDisk \subseteq Checkpoint
      /\ \A c \in ckptDisk : c.offset \in Nat
  BY LenProperties, OffsetType DEF TypeInv, TypeOK
<1>1. CASE StartNew \/ StartNewFails
  <2>1. /\ ckpt.phase = "absent" /\ ckpt' = ckpt /\ Len(out') = 0
        /\ synced' = 0 /\ ckptDisk' \subseteq ckptDisk /\ ckpt \in ckptDisk'
    BY <1>0, <1>1, EmptySeq DEF StartNew, StartNewFails
  <2>2. Retain => ckptDisk = {Absent}
    BY <2>1 DEF DiskInv
  <2>3. Retain => \A c \in ckptDisk' : c.offset <= Len(out')
    BY <2>1, <2>2, ExactAbsent
  <2>4. \A c \in ckptDisk' : c.offset <= Len(out') =>
            c.offset <= synced' /\ \A p \in 1..c.offset : out'[p] = out[p]
    BY <1>0, <2>1
  <2>5. Retain => ckptDisk' = {Absent}
    BY <2>1, <2>2
  <2>6. Len(out') <= Len(out)
    BY <1>0, <2>1
  <2> QED
    BY <2>1, <2>3, <2>4, <2>5, <2>6, DiskShortened
<1>2. CASE Resume \/ ResumeFails
  <2>1. /\ ckpt.offset \in 0..Len(out) /\ ValidResume(ckpt)
        /\ out' = SubSeq(out, 1, ckpt.offset)
        /\ synced' = ckpt.offset
             \/ synced' = IF synced < ckpt.offset THEN synced ELSE ckpt.offset
        /\ ckpt' = ckpt /\ ckptDisk' = ckptDisk
    BY <1>0, <1>2 DEF Resume, ResumeFails, CanResume
  <2>2. /\ Len(out') = ckpt.offset
        /\ \A p \in 1..ckpt.offset : out'[p] = out[p]
    BY <2>1, PrefixType DEF TypeInv, TypeOK
  <2>3. ckpt.phase # "absent"
    BY <2>1 DEF ValidResume
  <2>4. Retain => \A c \in ckptDisk : c.offset <= ckpt.offset
    BY <2>3 DEF DiskInv
  <2>5. \A c \in ckptDisk : c.offset <= synced /\ c.offset <= Len(out') =>
            c.offset <= synced' /\ \A p \in 1..c.offset : out'[p] = out[p]
    BY <1>0, <2>1, <2>2
  <2> QED
    BY <1>0, <2>1, <2>2, <2>3, <2>4, <2>5, DiskShortened
<1>3. CASE SavePlan \/ SavePlanCancelled \/ SavePlanFails
           \/ SaveProgress \/ SaveProgressFails
           \/ SaveCollected \/ SaveCollectedFails
  <2>1. /\ pc \in {"opened", "saving", "finishing"}
        /\ UNCHANGED <<out, synced>>
        /\ SaveSucceeds(mem) \/ SaveFails(mem)
    BY <1>3 DEF SavePlan, SavePlanCancelled, SavePlanFails, SaveProgress,
                SaveProgressFails, SaveCollected, SaveCollectedFails
  <2>2. /\ GoodProgress(mem) /\ mem.offset = Len(out) /\ synced = Len(out)
        /\ ExactUpTo(mem)
    BY <2>1 DEF Holders, MemInv, Settled
  <2> QED
    BY <2>1, <2>2, DiskSaved
<1>4. CASE ReceiveBatch \/ ReceiveBatchFails
  <2>1. /\ pc = "collecting" /\ ~commitFailed
        /\ UNCHANGED <<synced, ckpt, ckptDisk>>
    BY <1>4 DEF ReceiveBatch, ReceiveBatchFails
  <2>2. /\ ckptDisk = {mem} /\ mem.offset = Len(out) /\ synced = Len(out)
        /\ ExactUpTo(mem) /\ GoodProgress(mem)
    BY <2>1 DEF MemInv, Settled, Holders
  <2>3. Len(out') >= Len(out) /\ \A p \in 1..Len(out) : out'[p] = out[p]
    BY <1>4, OutputGrows
  <2>4. ASSUME NEW c \in ckptDisk'
        PROVE  /\ c.offset <= synced' /\ c.offset <= Len(out')
               /\ c.offset <= ckpt'.offset /\ ExactUpTo(c)'
    <3>1. c \in ckptDisk /\ c = mem /\ ckpt = mem
      BY <1>0, <2>1, <2>2
    <3>2. c.offset <= Len(out) /\ ExactUpTo(c)
      BY <1>0, <2>2, <3>1 DEF DiskInv
    <3>3. ExactUpTo(c)'
      BY <2>2, <2>3, <3>1, <3>2, ExactKept
    <3> QED
      BY <1>0, <2>1, <2>2, <2>3, <3>1, <3>3
  <2>5. ckpt'.phase # "absent" /\ \A c \in ckptDisk' : GoodProgress(c)
    BY <1>0, <2>1, <2>2 DEF GoodProgress
  <2> QED
    BY <2>4, <2>5 DEF DiskInv, GoodProgress, NoRepeat
<1>5. CASE CommitOutput
  <2>1. UNCHANGED <<out, ckpt, ckptDisk>> /\ synced' = Len(out)
    BY <1>5 DEF CommitOutput
  <2> QED
    BY <1>0, <2>1 DEF DiskInv, ExactUpTo, GoodProgress, NoRepeat
<1>6. CASE RemoveCheckpoint
  <2>1. /\ ckpt' = Absent /\ ckptDisk' = ckptDisk \cup {Absent}
        /\ UNCHANGED <<out, synced>> /\ ~Retain
    BY <1>6 DEF RemoveCheckpoint, TypeInv, Control
  <2>2. Absent.phase = "absent"
    BY DEF Absent
  <2>3. ASSUME NEW c \in ckptDisk', c.offset <= Len(out')
        PROVE  c.offset <= synced' /\ ExactUpTo(c)'
    <3>1. CASE c \in ckptDisk
      BY <2>1, <2>3, <3>1, ExactKept DEF DiskInv
    <3>2. CASE c = Absent
      BY <1>0, <2>1, <3>2, ExactAbsent DEF ExactUpTo
    <3> QED
      BY <2>1, <3>1, <3>2
  <2>4. \A c \in ckptDisk' : c = Absent \/ GoodProgress(c)
    BY <2>1 DEF DiskInv
  <2> QED
    BY <2>1, <2>2, <2>3, <2>4 DEF DiskInv, GoodProgress, NoRepeat
<1>7. CASE PowerLoss
  <2>1. /\ synced' = Len(out') /\ synced <= Len(out') /\ Len(out') <= Len(out)
        /\ \A p \in 1..synced : out'[p] = out[p]
    BY <1>7, PowerLossOutput DEF TypeInv
  <2>2. ckpt' \in ckptDisk /\ ckptDisk' = {ckpt'}
    BY <1>7 DEF PowerLoss
  <2>3. Retain => ckpt'.offset <= synced
    BY <2>2 DEF DiskInv
  <2>4. ckpt'.phase = "absent" => ckpt' = Absent
    BY <2>2 DEF DiskInv, GoodProgress
  <2>5. ckpt'.offset \in Nat
    BY <1>0, <2>2
  <2>6. \A c \in ckptDisk' : c.offset <= synced /\ c.offset <= Len(out') =>
            c.offset <= synced' /\ \A p \in 1..c.offset : out'[p] = out[p]
    BY <1>0, <2>1, <2>2, <2>5
  <2>7. Retain => \A c \in ckptDisk' : c.offset <= Len(out')
    BY <1>0, <2>1, <2>2, <2>3, <2>5
  <2> QED
    BY <2>1, <2>2, <2>4, <2>5, <2>6, <2>7, DiskShortened
<1>8. CASE UNCHANGED disk
  BY <1>8, DiskKept
<1>9. CASE \E w \in Worker : WorkerStep(w)
  BY <1>8, <1>9 DEF WorkerStep, TakeJob, WorkerReturns, ListPage, PageFails,
                    SendResult, DropResult
<1> QED
  BY <1>1, <1>2, <1>3, <1>4, <1>5, <1>6, <1>7, <1>8, <1>9
  DEF Next, Start, LoopStep, vars, Drain, ReceiveFailed, CommitOutputFails,
      EndLoop, RemoveCheckpointFails, Cancel, Kill, disk

\* Every step keeps what the running collection knows about its output and its checkpoint.
LEMMA MemStep ==
  TypeInv /\ TypeInv' /\ Holders /\ DiskInv /\ MemInv /\ [Next]_vars => MemInv'
<1> SUFFICES ASSUME TypeInv, TypeInv', Holders, DiskInv, MemInv, [Next]_vars
             PROVE  MemInv'
  OBVIOUS
<1>0. /\ Len(out) \in Nat /\ Len(out') \in Nat
      /\ ckpt \in Checkpoint /\ mem \in Checkpoint /\ ckpt \in ckptDisk
      /\ \A c \in ckptDisk : c.offset \in Nat
  BY LenProperties, OffsetType DEF TypeInv, TypeOK
<1>1. CASE StartNew
  <2>1. /\ mem' = NewCheckpoint /\ Len(out') = 0 /\ synced' = 0
        /\ pc' = "opened" /\ ckpt.phase = "absent" /\ ckpt \in ckptDisk'
    BY <1>0, <1>1, EmptySeq DEF StartNew
  <2>2. /\ mem'.offset = 0 /\ Len(mem'.completed) = 0
    BY <2>1, EmptySeq DEF NewCheckpoint
  <2>3. ExactUpTo(mem)'
    BY <2>2 DEF ExactUpTo
  <2>4. ckpt = Absent
    BY <1>0, <2>1 DEF DiskInv, GoodProgress
  <2>5. SafelyDone' = {}
    BY <2>1, <2>4, ExactAbsent DEF SafelyDone, Done
  <2> QED
    BY <2>1, <2>2, <2>3, <2>5 DEF MemInv, Settled
<1>2. CASE Resume
  <2>1. /\ ckpt.offset \in 0..Len(out) /\ ckpt.phase # "absent"
        /\ out' = SubSeq(out, 1, ckpt.offset) /\ synced' = ckpt.offset
        /\ mem' = ckpt /\ pc' = "opened" /\ ckptDisk' = ckptDisk
    BY <1>0, <1>2 DEF Resume, CanResume, ValidResume
  <2>2. /\ Len(out') = ckpt.offset
        /\ \A p \in 1..ckpt.offset : out'[p] = out[p]
    BY <2>1, PrefixType DEF TypeInv, TypeOK
  <2>3. ExactUpTo(ckpt)
    BY <1>0, <2>1 DEF DiskInv
  <2>4. ExactUpTo(mem)'
    BY <2>1, <2>2, <2>3, ExactResumed
  <2>5. SafelyDone' \subseteq Done(mem)'
    BY <1>0, <2>1 DEF SafelyDone, Done
  <2> QED
    BY <2>1, <2>2, <2>4, <2>5 DEF MemInv, Settled
<1>3. CASE StartNewFails \/ ResumeFails
  BY <1>3, MemOff DEF StartNewFails, ResumeFails, loop
<1>4. CASE SavePlan
  <2>1. /\ ckptDisk' = {mem} /\ UNCHANGED <<out, synced, commitFailed>>
        /\ pc = "opened" /\ GoodProgress(mem)
        /\ mem.offset = Len(out) /\ synced = Len(out) /\ ExactUpTo(mem)
    BY <1>4 DEF SavePlan, SaveSucceeds, Holders, MemInv, Settled
  <2>2. /\ Cardinality(Pending(mem)) = Total - Len(mem.completed)
        /\ Len(mem.completed) <= Total
        /\ Pending(mem) = {} <=> Len(mem.completed) = Total
    BY <1>0, <2>1, PendingCardinality DEF GoodProgress
  <2>3. CASE /\ Pending(mem) # {}
             /\ mem' = [mem EXCEPT !.remaining = Cardinality(Pending(mem))]
             /\ pc' = "collecting"
    <3>1. Cardinality(Pending(mem)) = mem.remaining
      BY <2>1, <2>2 DEF GoodProgress
    <3>2. mem' = mem
      BY <1>0, <2>3, <3>1 DEF Checkpoint
    <3>3. mem.phase = "collecting"
      BY <1>0, <2>1, <2>2, <2>3 DEF GoodProgress, Checkpoint
    <3>4. ExactUpTo(mem)'
      BY <2>1, <3>2, ExactMemKept
    <3> QED
      BY <1>0, <2>1, <2>3, <3>2, <3>3, <3>4 DEF MemInv, Settled
  <2>4. CASE mem' = [mem EXCEPT !.phase = "collected"] /\ pc' = "finishing"
    <3>1. /\ mem'.completed = mem.completed /\ mem'.phase = "collected"
          /\ mem'.offset = mem.offset /\ Done(mem)' = Done(mem)
      BY <1>0, <2>4, WithPhase DEF Done
    <3>2. ExactUpTo(mem)'
      BY <2>1, <3>1, ExactMemKept
    <3>3. SafelyDone' \subseteq Done(mem)'
      BY <2>1, <3>1 DEF SafelyDone, Done
    <3> QED
      BY <2>1, <2>4, <3>1, <3>2, <3>3 DEF MemInv, Settled
  <2> QED
    BY <1>4, <2>3, <2>4 DEF SavePlan
<1>5. CASE \E w \in Worker : WorkerStep(w)
  BY <1>5, MemKept DEF WorkerStep, TakeJob, WorkerReturns, ListPage, PageFails,
                       SendResult, DropResult, loop
<1>6. CASE Drain \/ Cancel
  BY <1>6, MemKept DEF Drain, Cancel, loop, disk
<1>7. CASE ReceiveFailed
  <2>1. /\ pc = "collecting" /\ ~commitFailed /\ pc' = "saving"
        /\ UNCHANGED <<disk, mem>>
    BY <1>7 DEF ReceiveFailed
  <2>2. /\ ckptDisk = {mem} /\ mem.offset = Len(out) /\ synced = Len(out)
        /\ ExactUpTo(mem) /\ mem.phase = "collecting"
    BY <2>1 DEF MemInv, Settled
  <2>3. ExactUpTo(mem)'
    BY <2>1, <2>2, ExactMemKept DEF disk
  <2>4. SafelyDone' \subseteq Done(mem)'
    BY <2>1, <2>2 DEF SafelyDone, Done, disk
  <2> QED
    BY <1>0, <2>1, <2>2, <2>3, <2>4 DEF MemInv, Settled, disk
<1>8. CASE ReceiveBatch
  <2>1. /\ pc = "collecting" /\ ~commitFailed /\ pc' = "written"
        /\ UNCHANGED <<mem, synced, ckpt, ckptDisk>>
    BY <1>8 DEF ReceiveBatch
  <2>2. /\ ckptDisk = {mem} /\ mem.offset = Len(out) /\ synced = Len(out)
        /\ ExactUpTo(mem) /\ mem.phase = "collecting"
    BY <2>1 DEF MemInv, Settled
  <2>3. /\ Len(out') = Len(out) + current'.count /\ Len(out') >= Len(out)
        /\ \A p \in 1..Len(out) : out'[p] = out[p]
        /\ \A k \in 1..current'.count :
             out'[Len(out) + k] = [job |-> current'.job, item |-> k]
    BY <1>8, ReceivedBatch
  <2>4. ExactUpTo(mem)'
    BY <2>1, <2>2, <2>3, ExactMemKept
  <2> QED
    BY <1>0, <2>1, <2>2, <2>3, <2>4 DEF MemInv, Settled
<1>9. CASE ReceiveBatchFails \/ CommitOutputFails
  <2>1. /\ pc \in {"collecting", "written"} /\ pc' = "collecting" /\ commitFailed'
        /\ UNCHANGED <<mem, ckptDisk>> /\ Len(out') >= Len(out)
    BY <1>0, <1>9, OutputGrows
    DEF ReceiveBatchFails, CommitOutputFails, StopCommitting, disk
  <2>2. mem.phase = "collecting"
        /\ \A c \in ckptDisk : c.phase # "absent" /\ c.offset <= Len(out)
    BY <2>1 DEF MemInv
  <2> QED
    BY <1>0, <2>1, <2>2 DEF MemInv, Settled
<1>10. CASE CommitOutput
  <2>1. /\ pc = "written" /\ pc' = "saving" /\ synced' = Len(out)
        /\ UNCHANGED <<out, ckptDisk>>
        /\ mem'.offset = Len(out) /\ mem'.phase = mem.phase
    BY <1>10, CommitRecords DEF CommitOutput
  <2>2. /\ mem.phase = "collecting" /\ ckptDisk = {mem}
        /\ \A c \in ckptDisk : c.phase # "absent" /\ c.offset <= Len(out)
    BY <2>1 DEF MemInv
  <2>3. ExactUpTo(mem)'
    BY <1>10, CommitExact
  <2>4. SafelyDone' \subseteq Done(mem)'
    <3>1. GoodProgress(mem) /\ current.job \notin Done(mem)
      BY <2>1 DEF Holders, Disjoint
    <3>2. Done(mem') = Done(mem) \cup {current.job}
      BY <1>10, <3>1, CommitProgress
    <3>3. Done(mem)' = Done(mem) \cup {current.job}
      BY <3>2 DEF Done
    <3>4. SafelyDone' \subseteq Done(mem)
      BY <2>1, <2>2 DEF SafelyDone, Done
    <3> QED
      BY <3>3, <3>4
  <2> QED
    BY <2>1, <2>2, <2>3, <2>4 DEF MemInv, Settled
<1>11. CASE SaveProgress
  <2>1. /\ pc = "saving" /\ pc' = "collecting" /\ ckptDisk' = {mem}
        /\ UNCHANGED <<out, synced, mem, commitFailed>>
    BY <1>11 DEF SaveProgress, SaveSucceeds
  <2>2. /\ mem.phase = "collecting" /\ mem.offset = Len(out)
        /\ synced = Len(out) /\ ExactUpTo(mem)
    BY <2>1 DEF MemInv, Settled
  <2>3. ExactUpTo(mem)'
    BY <2>1, <2>2, ExactMemKept
  <2> QED
    BY <1>0, <2>1, <2>2, <2>3 DEF MemInv, Settled
<1>12. CASE SaveProgressFails
  <2>1. /\ pc = "saving" /\ pc' = "collecting" /\ commitFailed'
        /\ ckptDisk' \subseteq ckptDisk \cup {mem} /\ UNCHANGED <<out, synced, mem>>
    BY <1>12 DEF SaveProgressFails, SaveFails, StopCommitting
  <2>2. /\ mem.phase = "collecting" /\ mem.offset = Len(out)
        /\ \A c \in ckptDisk : c.phase # "absent" /\ c.offset <= Len(out)
    BY <2>1 DEF MemInv, Settled
  <2> QED
    BY <1>0, <2>1, <2>2 DEF MemInv, Settled
<1>13. CASE EndLoop /\ ~ProcessEnds
  <2>1. /\ pc = "collecting" /\ pc' = "finishing" /\ ~commitFailed
        /\ mem' = [mem EXCEPT !.phase = "collected"] /\ UNCHANGED disk
    BY <1>13 DEF EndLoop, LoopOver, CollectionComplete, TypeInv, Control
  <2>2. /\ ckptDisk = {mem} /\ mem.offset = Len(out) /\ synced = Len(out)
        /\ ExactUpTo(mem)
    BY <2>1 DEF MemInv, Settled
  <2>3. /\ mem'.completed = mem.completed /\ mem'.phase = "collected"
        /\ mem'.offset = mem.offset /\ Done(mem)' = Done(mem)
    BY <1>0, <2>1, WithPhase DEF Done
  <2>4. ExactUpTo(mem)'
    BY <2>1, <2>2, <2>3, ExactMemKept DEF disk
  <2>5. SafelyDone' \subseteq Done(mem)'
    BY <2>1, <2>2, <2>3 DEF SafelyDone, Done, disk
  <2> QED
    BY <2>1, <2>2, <2>3, <2>4, <2>5 DEF MemInv, Settled, disk
<1>14. CASE SaveCollected /\ ~ProcessEnds
  <2>1. /\ pc = "finishing" /\ pc' = "removing" /\ ckptDisk' = {mem}
        /\ UNCHANGED <<out, synced, mem>>
    BY <1>14 DEF SaveCollected, SaveSucceeds
  <2>2. mem.offset = Len(out) /\ synced = Len(out) /\ ExactUpTo(mem)
    BY <2>1 DEF MemInv, Settled
  <2>3. ExactUpTo(mem)'
    BY <2>1, <2>2, ExactMemKept
  <2>4. SafelyDone' \subseteq Done(mem)'
    BY <2>1 DEF SafelyDone, Done
  <2> QED
    BY <2>1, <2>2, <2>3, <2>4 DEF MemInv, Settled
<1>15. CASE ProcessEnds
  BY <1>15, MemOff DEF ProcessEnds
<1>16. CASE UNCHANGED vars
  BY <1>16, MemKept DEF vars, loop
<1> QED
  BY <1>1, <1>2, <1>3, <1>4, <1>5, <1>6, <1>7, <1>8, <1>9, <1>10, <1>11, <1>12,
     <1>13, <1>14, <1>15, <1>16
  DEF Next, Start, LoopStep, SavePlanCancelled, SavePlanFails, EndLoop,
      SaveCollected, SaveCollectedFails, RemoveCheckpoint,
      RemoveCheckpointFails, Kill, PowerLoss

-----------------------------------------------------------------------------
(* The theorems. *)

\* The inductive invariant holds in every reachable state.
THEOREM Invariance == Spec => []IndInv
<1>1. Init => IndInv
  BY TypeInit, HoldersInit, KnowledgeInit DEF IndInv
<1>2. IndInv /\ [Next]_vars => IndInv'
  <2>1. TypeInv /\ [Next]_vars => TypeInv'
    BY TypeStep
  <2> QED
    BY <2>1, HoldersStep, DiskStep, MemStep DEF IndInv
<1> QED
  BY <1>1, <1>2, PTL DEF Spec

\* Whatever a crash leaves on the disk, a resume that accepts the checkpoint
\* keeps an output with every committed resource exactly once
\* (RunCollectionWithCheckpoint, Restore).
THEOREM ExactlyOnceAlways == Spec => []ExactlyOnce
<1>1. IndInv => ExactlyOnce
  BY DEF IndInv, DiskInv, ExactlyOnce, CanResume
<1> QED
  BY <1>1, Invariance, PTL

\* A retained checkpoint is accepted by every later resume, and the bytes it
\* promises survive a power loss (ValidateResume, Commit).
THEOREM ResumableAlways == Spec => []AlwaysResumable
<1>1. IndInv => AlwaysResumable
  <2> SUFFICES ASSUME IndInv, Retain, NEW c \in ckptDisk, c.phase # "absent"
               PROVE  ValidResume(c) /\ c.offset <= synced
    BY DEF AlwaysResumable
  <2>1. c \in Checkpoint
    BY DEF IndInv, TypeInv, TypeOK
  <2>2. GoodProgress(c)
    BY DEF IndInv, DiskInv, Absent
  <2>3. c.offset <= Len(out)
    BY DEF IndInv, DiskInv
  <2> QED
    BY <2>1, <2>2, <2>3, ValidIsGood DEF IndInv, DiskInv
<1> QED
  BY <1>1, Invariance, PTL

\* While any worker exists, every checkpoint a crash could leave can be resumed:
\* the plan is durable before the first request (RunCollectionWithCheckpoint).
THEOREM RecoverableAlways == Spec => []WorkIsRecoverable
<1>1. IndInv => WorkIsRecoverable
  <2> SUFFICES ASSUME IndInv, NEW w \in Worker, worker[w].state # "gone",
                      NEW c \in ckptDisk
               PROVE  CanResume(c)
    BY DEF WorkIsRecoverable
  <2>1. pc \in {"collecting", "written", "saving"}
    BY DEF IndInv, TypeInv, TypeOK, Control
  <2>2. c.phase # "absent" /\ c.offset <= Len(out)
    BY <2>1 DEF IndInv, MemInv
  <2>3. GoodProgress(c)
    BY <2>2 DEF IndInv, DiskInv, Absent
  <2>4. c \in Checkpoint
    BY DEF IndInv, TypeInv, TypeOK
  <2> QED
    BY <2>2, <2>3, <2>4, ValidIsGood DEF CanResume
<1> QED
  BY <1>1, Invariance, PTL

\* No job is ever in two places: no resource is requested twice in one run and
\* no result is committed twice (checkpointWorker and the collector loop).
THEOREM OneHolderAlways == Spec => []OneHolder
<1>1. IndInv => OneHolder
  BY DEF IndInv, Holders, Disjoint, OneHolder, InWorker, InResults
<1> QED
  BY <1>1, Invariance, PTL

\* What a step can add to the candidates is the checkpoint in memory, or the
\* absence of a removed one.
LEMMA NewCandidate ==
  ASSUME IndInv, [Next]_vars, NEW c \in ckptDisk', c \notin ckptDisk
  PROVE  \/ c = Absent
         \/ c = mem /\ pc \in {"opened", "saving", "finishing", "removing"}
<1>1. ckpt \in ckptDisk
  BY DEF IndInv, TypeInv, TypeOK
<1>2. CASE Start \/ UNCHANGED vars
  BY <1>1, <1>2 DEF Start, StartNew, StartNewFails, Resume, ResumeFails, vars, disk
<1>3. CASE SavePlan \/ SavePlanCancelled \/ SavePlanFails
           \/ SaveProgress \/ SaveProgressFails
           \/ SaveCollected \/ SaveCollectedFails
  BY <1>3 DEF SavePlan, SavePlanCancelled, SavePlanFails, SaveProgress,
              SaveProgressFails, SaveCollected, SaveCollectedFails,
              SaveSucceeds, SaveFails
<1>4. CASE RemoveCheckpoint
  BY <1>4 DEF RemoveCheckpoint
<1>5. CASE PowerLoss
  BY <1>5 DEF PowerLoss
<1>6. CASE UNCHANGED ckptDisk
  BY <1>6
<1>7. CASE \E w \in Worker : WorkerStep(w)
  BY <1>6, <1>7 DEF WorkerStep, TakeJob, WorkerReturns, ListPage, PageFails,
                    SendResult, DropResult, disk
<1> QED
  BY <1>2, <1>3, <1>4, <1>5, <1>6, <1>7
  DEF Next, LoopStep, Drain, ReceiveFailed, ReceiveBatch, ReceiveBatchFails,
      CommitOutput, CommitOutputFails, EndLoop, RemoveCheckpointFails, Cancel,
      Kill, disk

\* Progress is never given up: a job completed in every checkpoint a crash could
\* leave stays completed in all of them, whatever step is taken (Save, Restore).
THEOREM ProgressKeptAlways == Spec => ProgressKept
<1> DEFINE Kept == \A c \in ckptDisk' :
                     c.phase # "absent" => SafelyDone \subseteq Done(c)
<1>1. IndInv /\ [Next]_vars => Kept
  <2> SUFFICES ASSUME IndInv, [Next]_vars, NEW c \in ckptDisk',
                      c.phase # "absent"
               PROVE  SafelyDone \subseteq Done(c)
    OBVIOUS
  <2>1. CASE c \in ckptDisk
    BY <2>1 DEF SafelyDone
  <2>2. CASE c = Absent
    BY <2>2 DEF Absent
  <2>3. CASE c = mem /\ pc \in {"opened", "saving", "finishing", "removing"}
    BY <2>3 DEF IndInv, MemInv
  <2> QED
    BY <2>1, <2>2, <2>3, NewCandidate
<1>2. IndInv /\ [Next]_vars => [Kept]_vars
  BY <1>1
<1> QED
  BY <1>2, Invariance, PTL DEF ProgressKept, Spec

-----------------------------------------------------------------------------
(* What the operator is promised is what one checkpoint says: the one the  *)
(* disk settles on.                                                        *)

Records(d) == {d.completed[i] : i \in 1..Len(d.completed)}
Words(d) == IF d.phase = "absent" THEN "none" ELSE d.phase
Stored(d) == UNION {Promise!Lines(r.job, r.count) : r \in Records(d)}

\* A longer checkpoint keeps the records of the shorter one.
LEMMA AppendedRecord ==
  ASSUME NEW d \in Checkpoint, NEW m \in Checkpoint, m.completed # <<>>,
         m.completed = Append(d.completed, m.completed[Len(m.completed)])
  PROVE  LET r == m.completed[Len(m.completed)] IN
         /\ r \in CompletedJob
         /\ Len(m.completed) = Len(d.completed) + 1 /\ Len(d.completed) \in Nat
         /\ \A i \in 1..Len(d.completed) : m.completed[i] = d.completed[i]
         /\ Records(m) = Records(d) \cup {r}
<1> DEFINE n == Len(d.completed)
           r == m.completed[Len(m.completed)]
<1>1. d.completed \in Seq(CompletedJob) /\ m.completed \in Seq(CompletedJob) /\ n \in Nat
  BY DEF Checkpoint
<1>2. Len(m.completed) \in Nat \ {0}
  BY <1>1
<1>3. r \in CompletedJob
  BY <1>1, <1>2
<1>4. Len(m.completed) = n + 1 /\ \A i \in 1..n : m.completed[i] = d.completed[i]
  BY <1>1, <1>3
<1>5. Records(m) = Records(d) \cup {r}
  <2>1. 1..(n + 1) = (1..n) \cup {n + 1}
    BY <1>1
  <2> QED  BY <1>4, <2>1 DEF Records
<1> QED  BY <1>1, <1>3, <1>4, <1>5

\* Neither the absence of a checkpoint nor a new one records a job.
LEMMA EmptyRecords ==
  /\ Absent.phase = "absent" /\ NewCheckpoint.phase = "collecting"
  /\ Records(Absent) = {} /\ Records(NewCheckpoint) = {}
BY DEF Absent, NewCheckpoint, Records

\* No later step of the chain loses a record.
LEMMA FollowsKeeps ==
  ASSUME NEW d \in Checkpoint, NEW m \in Checkpoint, Follows(d, m)
  PROVE  Records(d) \subseteq Records(m) /\ m.phase # "absent"
<1>1. CASE d = Absent /\ m = NewCheckpoint
  BY <1>1, EmptyRecords
<1>2. CASE d.phase = "collecting" /\ m.phase = "collecting"
  BY <1>1, <1>2, AppendedRecord, EmptyRecords DEF Follows
<1>3. CASE m.phase = "collected"
  BY <1>1, <1>3, EmptyRecords DEF Follows, Records
<1> QED  BY <1>1, <1>2, <1>3 DEF Follows

\* The output up to the position of an exact checkpoint is what it records.
LEMMA ExactLines ==
  ASSUME NEW d \in Checkpoint, TypeOK, ExactUpTo(d), d.offset <= Len(out)
  PROVE  {out[p] : p \in 1..d.offset} = Stored(d)
<1>1. d.offset \in Nat /\ d.completed \in Seq(CompletedJob) /\ out \in Seq(Line \cup {Torn})
  BY DEF Checkpoint, TypeOK
<1>2. ASSUME NEW p \in 1..d.offset
      PROVE  out[p] \in Stored(d)
  <2>1. PICK i \in 1..Len(d.completed) :
          out[p].job = d.completed[i].job /\ out[p].item \in 1..d.completed[i].count
    BY DEF ExactUpTo
  <2>2. p \in 1..Len(out) /\ out[p] \in Line \cup {Torn}
    BY <1>1, <1>2
  <2>3. out[p] = [job |-> out[p].job, item |-> out[p].item]
    BY <2>2 DEF Line, Torn
  <2>4. out[p] \in Promise!Lines(d.completed[i].job, d.completed[i].count)
    BY <2>1, <2>3 DEF Promise!Lines
  <2> QED  BY <2>4 DEF Stored, Records
<1>3. ASSUME NEW l \in Stored(d)
      PROVE  \E p \in 1..d.offset : l = out[p]
  <2>1. PICK i \in 1..Len(d.completed) :
          l \in Promise!Lines(d.completed[i].job, d.completed[i].count)
    BY <1>3 DEF Stored, Records
  <2>2. PICK k \in 1..d.completed[i].count : l = [job |-> d.completed[i].job, item |-> k]
    BY <2>1 DEF Promise!Lines
  <2> QED  BY <2>2 DEF ExactUpTo
<1> QED  BY <1>2, <1>3

Says(d) == settledPhase = Words(d) /\ settledDone = Records(d) /\ settledLines = Stored(d)
\* What each candidate the disk settles on has to do with the mapped variables.
Mapping == IndInv /\ Retain => \A d \in ckptDisk : Settles(d) => Says(d)
\* The mapped variables say what the settled checkpoint says.
LEMMA Mapped == Mapping
<1> SUFFICES ASSUME IndInv, Retain, NEW d \in ckptDisk, Settles(d)
             PROVE  Says(d)
  BY DEF Mapping
<1>1. /\ d \in Checkpoint /\ ckpt \in Checkpoint /\ ckptDisk = {d, ckpt} /\ TypeOK
      /\ d = ckpt \/ (Records(d) \subseteq Records(ckpt) /\ ckpt.phase # "absent")
  BY FollowsKeeps DEF IndInv, TypeInv, TypeOK, Settles
<1>2. settledPhase = Words(d)
  <2>1. d.phase \in {"absent", "collecting", "collected"} /\ ckpt.phase \in {"absent", "collecting", "collected"}
    BY <1>1 DEF Checkpoint
  <2>2. d.phase = "collected" => ckpt = d
    BY EmptyRecords DEF Settles, Follows
  <2> QED  BY <1>1, <2>1, <2>2 DEF settledPhase, Words
<1>3. settledDone = Records(d)
  <2>1. settledDone = {r \in Records(ckpt) : \A c \in ckptDisk : r \in Records(c)}
    BY DEF settledDone, Records
  <2> QED  BY <1>1, <2>1
<1>4. settledLines = Stored(d)
  <2>1. /\ \A c \in ckptDisk : c.offset <= Len(out)
        /\ ExactUpTo(d)
        /\ ckpt.phase # "absent" => d.offset <= ckpt.offset
    BY <1>1 DEF IndInv, DiskInv
  <2>2. d.offset \in Nat /\ ckpt.offset \in Nat /\ Len(out) \in Nat
    BY <1>1 DEF Checkpoint, TypeOK
  <2>3. d.offset <= ckpt.offset
    BY <1>1, <2>1, <2>2
  <2>4. {q \in 1..Len(out) : \A c \in ckptDisk : q <= c.offset} = 1..d.offset
    BY <1>1, <2>1, <2>2, <2>3
  <2>5. settledLines = {out[p] : p \in 1..d.offset}
    BY <2>4 DEF settledLines
  <2> QED  BY <1>1, <2>1, <2>5, ExactLines
<1> QED  BY <1>2, <1>3, <1>4 DEF Says

-----------------------------------------------------------------------------
(* A step of the settled checkpoint is a step of the promise. *)

\* One more record promises the lines of one more job.
LEMMA GrownStored ==
  ASSUME NEW d, NEW e, NEW r, Records(e) = Records(d) \cup {r}
  PROVE  Stored(e) = Stored(d) \cup Promise!Lines(r.job, r.count)
<1>1. \A l : l \in Stored(e) <=> \E q \in Records(e) : l \in Promise!Lines(q.job, q.count)
  BY DEF Stored
<1>2. \A l : l \in Stored(d) <=> \E q \in Records(d) : l \in Promise!Lines(q.job, q.count)
  BY DEF Stored
<1> QED  BY <1>1, <1>2

\* The same of the next state.
LEMMA MappedNext == Mapping'
BY Mapped, PTL

\* One step of the settled checkpoint (a new one, one more record, or the phase)
\* is a step of the promise: Begin, Commit or Finish.
LEMMA PromisedStep ==
  ASSUME IndInv, IndInv', Retain, NEW d \in ckptDisk, Settles(d),
         NEW e \in ckptDisk', Settles(e)', d = e \/ Follows(d, e)
  PROVE  [Promise!Next]_Promise!vars
<1>1. /\ settledPhase = Words(d) /\ settledDone = Records(d) /\ settledLines = Stored(d)
      /\ settledPhase' = Words(e) /\ settledDone' = Records(e) /\ settledLines' = Stored(e)
  <2>1. Says(d)
    BY Mapped DEF Mapping
  <2>2. Says(e)'
    BY MappedNext DEF Mapping
  <2> QED  BY <2>1, <2>2 DEF Says, Words, Records, Stored, Promise!Lines
<1>2. d \in Checkpoint /\ e \in Checkpoint /\ (e = Absent \/ GoodProgress(e))
  BY DEF IndInv, TypeInv, TypeOK, DiskInv
<1>3. CASE d = e
  BY <1>1, <1>3 DEF Promise!vars
<1>4. CASE d = Absent /\ e = NewCheckpoint
  <2>1. Records(e) = Records(d) /\ Words(d) = "none" /\ Words(e) = "collecting"
    BY <1>4, EmptyRecords DEF Words
  <2>2. Promise!Begin
    BY <1>1, <2>1 DEF Promise!Begin, Stored
  <2> QED  BY <2>2 DEF Promise!Next
<1>5. CASE d.phase = "collecting" /\ e.phase = "collecting" /\ Follows(d, e) /\ d # Absent
  <2> DEFINE r == e.completed[Len(e.completed)]
  <2> HIDE DEF r
  <2>1. /\ r \in CompletedJob /\ Records(e) = Records(d) \cup {r}
        /\ Len(e.completed) = Len(d.completed) + 1 /\ Len(d.completed) \in Nat
        /\ \A i \in 1..Len(d.completed) : e.completed[i] = d.completed[i]
    BY <1>2, <1>5, AppendedRecord DEF Follows, r
  <2>2. NoRepeat(e)
    BY <1>2, <1>5, EmptyRecords DEF GoodProgress
  <2>3. r.job \notin Promise!Jobs(Records(d))
    <3>1. ASSUME NEW i \in 1..Len(d.completed)
          PROVE  d.completed[i].job # r.job
      <4>1. i \in 1..Len(e.completed) /\ Len(e.completed) \in 1..Len(e.completed)
            /\ i # Len(e.completed)
        BY <2>1
      <4> QED  BY <2>1, <2>2, <4>1 DEF NoRepeat, r
    <3> QED  BY <3>1 DEF Promise!Jobs, Records
  <2>4. r = [job |-> r.job, count |-> r.count]
    BY <2>1 DEF CompletedJob
  <2>5. Stored(e) = Stored(d) \cup Promise!Lines(r.job, r.count)
    BY <2>1, GrownStored
  <2>6. Words(d) = "collecting" /\ Words(e) = "collecting"
    BY <1>5 DEF Words
  <2>7. r \in settledDone' /\ Promise!CommitJob(r.job, r.count)
    BY <1>1, <2>1, <2>3, <2>4, <2>5, <2>6 DEF Promise!CommitJob
  <2> QED  BY <2>7 DEF Promise!Commit, Promise!Next
<1>6. CASE d.phase = "collecting" /\ e.phase = "collected" /\ Follows(d, e) /\ d # Absent
  <2>1. e.completed = d.completed /\ Records(e) = Records(d)
    BY <1>6 DEF Follows, Records
  <2>2. Words(d) = "collecting" /\ Words(e) = "collected"
    BY <1>6 DEF Words
  <2>3. Promise!Jobs(Records(d)) = Job
    <3>1. NoRepeat(e) /\ Len(e.completed) = Total
      BY <1>2, <1>6, EmptyRecords DEF GoodProgress
    <3>2. Done(e) = Job
      BY <1>2, <3>1, PendingCardinality
    <3> QED  BY <2>1, <3>2 DEF Done, Promise!Jobs, Records
  <2>4. Promise!Finish
    BY <1>1, <2>1, <2>2, <2>3 DEF Promise!Finish, Stored
  <2> QED  BY <2>4 DEF Promise!Next
<1> QED  BY <1>2, <1>3, <1>4, <1>5, <1>6, EmptyRecords DEF Follows

-----------------------------------------------------------------------------
(* Every step of the collector takes the disk at most one step ahead. *)

\* A save that succeeds settles the disk on what it saved (AtomicWriteFile).
LEMMA SavedOnce ==
  ASSUME NEW d \in ckptDisk, Settles(d), NEW m, SaveSucceeds(m),
         m = ckpt \/ (ckptDisk = {ckpt} /\ Follows(ckpt, m))
  PROVE  m \in ckptDisk' /\ Settles(m)' /\ (d = m \/ Follows(d, m))
BY DEF Settles, SaveSucceeds

\* A save that fails leaves the disk settled on what it held.
LEMMA SavedOrNot ==
  ASSUME NEW d \in ckptDisk, Settles(d), ckpt \in ckptDisk, NEW m, SaveFails(m),
         m = ckpt \/ (ckptDisk = {ckpt} /\ Follows(ckpt, m))
  PROVE  d \in ckptDisk' /\ Settles(d)'
BY DEF Settles, SaveFails

\* Where the collector saves, and what becomes of the disk elsewhere.
LEMMA ChainStep ==
  ASSUME IndInv, [Next]_vars, Retain, Upcoming, NEW d \in ckptDisk, Settles(d)
  PROVE  \E e \in ckptDisk' : Settles(e)' /\ (d = e \/ Follows(d, e))
<1> USE DEF IndInv
<1>1. ckpt \in ckptDisk
  BY DEF TypeInv, TypeOK
<1>2. CASE UNCHANGED <<ckpt, ckptDisk>>
  BY <1>2 DEF Settles
<1>3. CASE StartNew
  <2>1. ckptDisk = {Absent} /\ ckpt = Absent
    BY <1>1, <1>3 DEF StartNew, DiskInv
  <2>2. UNCHANGED <<ckpt, ckptDisk>>
    BY <1>3, <2>1 DEF StartNew
  <2> QED  BY <1>2, <2>2
<1>4. CASE SavePlan \/ SavePlanCancelled \/ SaveProgress \/ SaveCollected
  <2>1. SaveSucceeds(mem) /\ (mem = ckpt \/ (ckptDisk = {ckpt} /\ Follows(ckpt, mem)))
    BY <1>4 DEF SavePlan, SavePlanCancelled, SaveProgress, SaveCollected, Upcoming
  <2> QED  BY <2>1, SavedOnce
<1>5. CASE SavePlanFails \/ SaveProgressFails \/ SaveCollectedFails
  <2>1. SaveFails(mem) /\ (mem = ckpt \/ (ckptDisk = {ckpt} /\ Follows(ckpt, mem)))
    BY <1>5 DEF SavePlanFails, SaveProgressFails, SaveCollectedFails, Upcoming
  <2> QED  BY <1>1, <2>1, SavedOrNot
<1>6. ~RemoveCheckpoint
  BY DEF RemoveCheckpoint, TypeInv, Control
<1>7. CASE PowerLoss
  BY <1>7 DEF PowerLoss, Settles
<1>8. CASE ~(StartNew \/ SavePlan \/ SavePlanCancelled \/ SaveProgress \/ SaveCollected
             \/ SavePlanFails \/ SaveProgressFails \/ SaveCollectedFails \/ PowerLoss)
  <2>1. UNCHANGED <<ckpt, ckptDisk>>
    BY <1>6, <1>8
    DEF Next, Start, StartNewFails, Resume, ResumeFails, LoopStep, Drain, ReceiveFailed,
        ReceiveBatch, ReceiveBatchFails, CommitOutput, CommitOutputFails, EndLoop,
        RemoveCheckpointFails, WorkerStep, TakeJob, WorkerReturns, ListPage, PageFails,
        SendResult, DropResult, Cancel, Kill, disk, vars
  <2> QED  BY <1>2, <2>1
<1> QED  BY <1>3, <1>4, <1>5, <1>7, <1>8

\* Only a commit, a start and the end of a collection put the progress in
\* memory ahead of the disk, each by one promised step.
LEMMA UpcomingStep ==
  ASSUME Retain, IndInv, IndInv', [Next]_vars, Upcoming
  PROVE  Upcoming'
<1> USE DEF IndInv
<1>1. /\ ckpt \in ckptDisk /\ mem \in Checkpoint
      /\ pc # "off" => GoodProgress(mem)
  BY DEF TypeInv, TypeOK, Holders
<1>2. CASE UNCHANGED <<pc, mem, ckpt, ckptDisk>>
  BY <1>2 DEF Upcoming
<1>3. CASE pc' \notin {"opened", "saving", "finishing"}
  BY <1>3 DEF Upcoming
<1>4. CASE StartNew
  <2>1. ckptDisk = {Absent} /\ ckpt = Absent
    BY <1>1, <1>4 DEF StartNew, DiskInv, GoodProgress
  <2>2. /\ ckptDisk' = {Absent} /\ ckpt' = Absent
        /\ mem' = NewCheckpoint /\ pc' = "opened"
    BY <1>4, <2>1 DEF StartNew
  <2> QED  BY <2>2 DEF Upcoming, Follows
<1>5. CASE Resume
  BY <1>5 DEF Resume, Upcoming
<1>6. CASE SavePlan /\ pc' = "finishing"
  <2>1. /\ ckpt' = mem /\ ckptDisk' = {mem}
        /\ mem' = [mem EXCEPT !.phase = "collected"]
        /\ pc = "opened"
    BY <1>6 DEF SavePlan, SaveSucceeds
  <2>2. mem'.phase = "collected" /\ mem'.completed = mem.completed
    BY <1>1, <2>1, WithPhase
  <2>3. mem.phase = "collecting" \/ mem' = mem
    BY <1>1, <2>1 DEF Checkpoint, GoodProgress
  <2> QED  BY <1>6, <2>1, <2>2, <2>3 DEF Upcoming, Follows
<1>7. CASE ReceiveFailed
  <2>1. ckptDisk = {mem} /\ ckpt = mem
    BY <1>1, <1>7 DEF ReceiveFailed, MemInv
  <2>2. UNCHANGED <<mem, ckpt, ckptDisk>>
    BY <1>7 DEF ReceiveFailed, disk
  <2> QED  BY <2>1, <2>2 DEF Upcoming
<1>8. CASE CommitOutput
  <2> DEFINE r == [job |-> current.job, count |-> current.count]
  <2>1. /\ ckptDisk' = {mem} /\ ckpt' = mem /\ mem.phase = "collecting"
    BY <1>1, <1>8 DEF CommitOutput, MemInv
  <2>2. /\ Len(mem.completed) \in Nat /\ mem'.phase = mem.phase
        /\ Len(mem'.completed) = Len(mem.completed) + 1
        /\ mem'.completed[Len(mem.completed) + 1] = r
    BY <1>8, CommitRecords
  <2>3. mem'.completed = Append(mem.completed, r)
    <3>1. mem' = [AddCompletedJob(mem, current.job, current.count)
                    EXCEPT !.offset = Len(out)]
      BY <1>8 DEF CommitOutput
    <3> QED  BY <1>1, <3>1 DEF AddCompletedJob, Checkpoint
  <2>4. mem'.completed[Len(mem'.completed)] = r /\ mem'.completed # <<>>
    BY <2>2
  <2> HIDE DEF r
  <2> QED  BY <2>1, <2>2, <2>3, <2>4 DEF Upcoming, Follows
<1>9. CASE EndLoop /\ pc' = "finishing"
  <2>1. /\ mem' = [mem EXCEPT !.phase = "collected"]
        /\ pc = "collecting" /\ ~commitFailed
        /\ UNCHANGED <<ckpt, ckptDisk>>
    BY <1>9 DEF EndLoop, LoopOver, CollectionComplete, ProcessEnds, TypeInv, Control, disk
  <2>2. ckptDisk = {mem} /\ ckpt = mem /\ mem.phase = "collecting"
    BY <1>1, <2>1 DEF MemInv
  <2>3. mem'.phase = "collected" /\ mem'.completed = mem.completed
    BY <1>1, <2>1, WithPhase
  <2> QED  BY <2>1, <2>2, <2>3 DEF Upcoming, Follows
<1>10. CASE SavePlan \/ EndLoop
  BY <1>3, <1>6, <1>9, <1>10 DEF SavePlan, EndLoop, ProcessEnds
<1>11. CASE StartNewFails \/ ResumeFails \/ (\E w \in Worker : WorkerStep(w))
            \/ Drain \/ Cancel \/ UNCHANGED vars
  <2>1. UNCHANGED <<pc, mem, ckpt, ckptDisk>> \/ pc' = "off"
    BY <1>11 DEF StartNewFails, ResumeFails, WorkerStep, TakeJob, WorkerReturns,
       ListPage, PageFails, SendResult, DropResult, Drain, Cancel, vars, disk, loop
  <2> QED  BY <1>2, <1>3, <2>1
<1>12. CASE SavePlanCancelled \/ SavePlanFails \/ ReceiveBatch \/ ReceiveBatchFails
            \/ CommitOutputFails \/ SaveProgress \/ SaveProgressFails \/ SaveCollected
            \/ SaveCollectedFails \/ RemoveCheckpoint \/ RemoveCheckpointFails
            \/ Kill \/ PowerLoss
  BY <1>3, <1>12 DEF SavePlanCancelled, SavePlanFails, ReceiveBatch, ReceiveBatchFails,
     CommitOutputFails, SaveProgress, SaveProgressFails, SaveCollected,
     SaveCollectedFails, RemoveCheckpoint, RemoveCheckpointFails, Kill, PowerLoss,
     ProcessEnds, StopCommitting
<1> QED
  BY <1>4, <1>5, <1>7, <1>8, <1>10, <1>11, <1>12 DEF Next, Start, LoopStep

\* The disk is one promised step ahead of itself at most, from the start on.
LEMMA StepByStepInit == Init => StepByStep /\ Promise!Init
<1> SUFFICES ASSUME Init PROVE StepByStep /\ Promise!Init
  OBVIOUS
<1>1. StepByStep
  BY DEF Init, StepByStep, Chain, Settles, Upcoming
<1>2. Len(out) = 0 /\ Absent.phase = "absent" /\ Absent.completed = <<>>
  BY EmptySeq DEF Init, Absent
<1>3. settledPhase = "none" /\ settledDone = {} /\ settledLines = {}
  BY <1>2, EmptySeq DEF Init, settledPhase, settledDone, settledLines
<1> QED  BY <1>1, <1>3 DEF Promise!Init

\* Every step keeps the chain of promised steps and takes at most one of them.
LEMMA Step ==
  ASSUME Retain, IndInv, IndInv', [Next]_vars, StepByStep
  PROVE  StepByStep' /\ [Promise!Next]_Promise!vars
<1>1. Upcoming'
  BY UpcomingStep DEF StepByStep
<1>2. PICK d \in ckptDisk : Settles(d)
  BY DEF StepByStep, Chain
<1>3. PICK e \in ckptDisk' : Settles(e)' /\ (d = e \/ Follows(d, e))
  BY <1>2, ChainStep DEF StepByStep
<1>4. [Promise!Next]_Promise!vars
  BY <1>2, <1>3, PromisedStep
<1>5. Chain'
  BY <1>3 DEF Chain
<1> QED  BY <1>1, <1>4, <1>5 DEF StepByStep

\* With a retained checkpoint every behaviour of the collector, with its
\* failures, crashes and resumes, is one CollectionPromise allows.
THEOREM Implementation == ASSUME Retain PROVE Spec => ImplementsPromise
<1>1. Init => StepByStep /\ Promise!Init
  BY StepByStepInit
<1>2. IndInv /\ IndInv' /\ [Next]_vars /\ StepByStep
        => StepByStep' /\ [Promise!Next]_Promise!vars
  BY Step
<1> QED
  BY <1>1, <1>2, Invariance, PTL DEF Spec, ImplementsPromise, Promise!Spec

=============================================================================
