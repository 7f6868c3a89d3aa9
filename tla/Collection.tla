----------------------------- MODULE Collection -----------------------------
(***************************************************************************)
(* The resumable collection of one cluster: a pool of workers lists the    *)
(* jobs of a saved plan, one collector loop appends each finished job's    *)
(* resources to the JSONL output, makes them durable and only then records *)
(* the job in the checkpoint file.  The process may be cancelled, killed or*)
(* lose power between any two steps, every write may fail, and a later     *)
(* process resumes from what the disk kept.                                *)
(*                                                                         *)
(* Source: src/internal/collector/{execute,checkpoint}.go,                 *)
(* src/internal/utils/{writer_json,atomic_file}.go and the resume path of  *)
(* src/internal/cli/collect.go.                                            *)
(***************************************************************************)
EXTENDS Integers, Sequences, FiniteSets

CONSTANTS
  Job,         \* the plan: one job per cluster target and per (target, namespace)
  Worker,      \* the pool of --concurrency goroutines
  NoJob,       \* stands for "no job"
  ResultsCap,  \* capacity of the results channel (200 in the code)
  MaxItems,    \* bound: resources one job may list
  MaxFaults,   \* bound: failures, cancellations, kills and power losses together
  Retain,      \* Checkpoint.Retain: keep the checkpoint of a finished collection
  SameDir      \* output and checkpoint share a directory (the default path)

ASSUME JobAssumption == IsFiniteSet(Job) /\ Job # {} /\ NoJob \notin Job
ASSUME BoundAssumption ==
  /\ ResultsCap \in Nat \ {0}
  /\ MaxItems \in Nat
  /\ MaxFaults \in Nat
  /\ Retain \in BOOLEAN
  /\ SameDir \in BOOLEAN

VARIABLES
  \* The disk, which outlives the process.
  out,          \* the JSONL output as the system sees it, a sequence of lines
  synced,       \* how many of its leading lines a power loss surely keeps
  ckpt,         \* the checkpoint file as the system sees it
  ckptDisk,     \* the checkpoint files a power loss may leave behind
  \* The process.
  pc,           \* control of CollectService.Run and of the collector loop
  mem,          \* *Checkpoint in memory
  queue,        \* the closed, preloaded jobs channel
  worker,       \* the worker goroutines
  results,      \* the buffered results channel
  current,      \* the result the collector loop is committing
  errored,      \* len(errors) > 0
  commitFailed, \* the collector loop only drains from now on
  cancelled,    \* ctx is done
  faults        \* how much of MaxFaults is spent

disk == <<out, synced, ckpt, ckptDisk>>
pool == <<queue, worker, results>>
loop == <<pc, mem, current, errored, commitFailed, cancelled>>
vars == <<disk, pool, loop, faults>>

-----------------------------------------------------------------------------
(* Values. *)

Line == [job : Job, item : Nat \ {0}]        \* the item-th resource of a job
Torn == [job |-> NoJob, item |-> 0]          \* a partly written line
Total == Cardinality(Job)

CompletedJob == [job : Job, count : Nat]
Checkpoint == [phase : {"absent", "collecting", "collected"},
               completed : Seq(CompletedJob),
               remaining : Nat,
               offset : Nat]
Absent == [phase |-> "absent", completed |-> <<>>, remaining |-> 0, offset |-> 0]
NewCheckpoint ==
  [phase |-> "collecting", completed |-> <<>>, remaining |-> Total, offset |-> 0]

Done(c) == {c.completed[i].job : i \in 1..Len(c.completed)}

\* Mutant: the job is recorded and JobsRemaining forgotten.
AddCompletedJob_NoCountdown(c, j, n) ==
  [c EXCEPT !.completed = Append(@, [job |-> j, count |-> n])]

AddCompletedJob(c, j, n) ==
  [c EXCEPT !.completed = Append(@, [job |-> j, count |-> n]),
            !.remaining = IF @ > 0 THEN @ - 1 ELSE 0]

\* ValidateResume: what a checkpoint read from disk must satisfy to be resumed.
ValidResume(c) ==
  /\ c.phase # "absent"
  /\ Done(c) \subseteq Job
  /\ \A i, k \in 1..Len(c.completed) :
        c.completed[i].job = c.completed[k].job => i = k
  /\ Total - Cardinality(Done(c)) = c.remaining
  /\ c.phase = "collected" => c.remaining = 0

Batch(j, n) == [k \in 1..n |-> [job |-> j, item |-> k]]

NoResult == [job |-> NoJob, count |-> 0, ok |-> FALSE]
Gone == [state |-> "gone", job |-> NoJob, count |-> 0, ok |-> FALSE]
Idle == [Gone EXCEPT !.state = "idle"]

-----------------------------------------------------------------------------
(* Environment effects shared by several actions. *)

Fault == faults < MaxFaults /\ faults' = faults + 1

\* AtomicWriteFile: temporary file, sync, rename, sync of the directory.
SaveSucceeds(c) == ckpt' = c /\ ckptDisk' = {c}
\* It failed before the rename, or the rename is visible but not yet durable.
SaveFails(c) ==
  \/ UNCHANGED <<ckpt, ckptDisk>>
  \/ ckpt' = c /\ ckptDisk' = ckptDisk \cup {c}

\* The process is gone: nothing of its memory survives.
ProcessEnds ==
  /\ pc' = "off"
  /\ mem' = Absent
  /\ queue' = {}
  /\ worker' = [w \in Worker |-> Gone]
  /\ results' = <<>>
  /\ current' = NoResult
  /\ errored' = FALSE
  /\ commitFailed' = FALSE
  /\ cancelled' = FALSE

\* Mutant: the run is cancelled but goes on committing what still arrives.
StopCommitting_GoesOn ==
  /\ errored' = TRUE
  /\ commitFailed' = FALSE
  /\ cancelled' = TRUE
  /\ pc' = "collecting"
  /\ current' = NoResult

\* cancel() after output or progress could not be committed.
StopCommitting ==
  /\ errored' = TRUE
  /\ commitFailed' = TRUE
  /\ cancelled' = TRUE
  /\ pc' = "collecting"
  /\ current' = NoResult

-----------------------------------------------------------------------------
(* Starting a process: CollectService.Run up to RunCollectionWithCheckpoint. *)

Init ==
  /\ out = <<>> /\ synced = 0
  /\ ckpt = Absent /\ ckptDisk = {Absent}
  /\ pc = "off" /\ mem = Absent
  /\ queue = {} /\ worker = [w \in Worker |-> Gone] /\ results = <<>>
  /\ current = NoResult
  /\ errored = FALSE /\ commitFailed = FALSE /\ cancelled = FALSE
  /\ faults = 0

\* Mutant: an existing output is opened without being truncated.
StartNew_NoTruncate ==
  /\ pc = "off"
  /\ ckpt.phase = "absent"
  /\ synced' = Len(out)
  /\ ckptDisk' = IF SameDir THEN {ckpt} ELSE ckptDisk
  /\ mem' = NewCheckpoint
  /\ pc' = "opened"
  /\ UNCHANGED <<out, ckpt, pool, current, errored, commitFailed,
                 cancelled, faults>>

\* A new collection refuses an existing checkpoint; it creates (and truncates)
\* the output and makes it durable before anything is saved or listed.  Syncing
\* the output's directory also settles what that directory held before.
StartNew ==
  /\ pc = "off"
  /\ ckpt.phase = "absent"
  /\ out' = <<>> /\ synced' = 0
  /\ ckptDisk' = IF SameDir THEN {ckpt} ELSE ckptDisk
  /\ mem' = NewCheckpoint
  /\ pc' = "opened"
  /\ UNCHANGED <<ckpt, pool, current, errored, commitFailed,
                 cancelled, faults>>

StartNewFails ==
  /\ pc = "off"
  /\ ckpt.phase = "absent"
  /\ out' = <<>> /\ synced' = 0
  /\ Fault
  /\ UNCHANGED <<ckpt, ckptDisk, pool, loop>>

CanResume(c) == ValidResume(c) /\ c.offset <= Len(out)

\* Mutant: the output is restored, the progress started afresh.
Resume_Afresh ==
  /\ pc = "off"
  /\ CanResume(ckpt)
  /\ out' = SubSeq(out, 1, ckpt.offset)
  /\ synced' = ckpt.offset
  /\ mem' = NewCheckpoint
  /\ pc' = "opened"
  /\ UNCHANGED <<ckpt, ckptDisk, pool, current, errored, commitFailed,
                 cancelled, faults>>

\* Restore drops whatever was written after the checkpointed position.
Resume ==
  /\ pc = "off"
  /\ CanResume(ckpt)
  /\ out' = SubSeq(out, 1, ckpt.offset)
  /\ synced' = ckpt.offset
  /\ mem' = ckpt
  /\ pc' = "opened"
  /\ UNCHANGED <<ckpt, ckptDisk, pool, current, errored, commitFailed,
                 cancelled, faults>>

\* Restore truncated the file and could not sync it.
ResumeFails ==
  /\ pc = "off"
  /\ CanResume(ckpt)
  /\ out' = SubSeq(out, 1, ckpt.offset)
  /\ synced' = IF synced < ckpt.offset THEN synced ELSE ckpt.offset
  /\ Fault
  /\ UNCHANGED <<ckpt, ckptDisk, pool, loop>>

-----------------------------------------------------------------------------
(* RunCollectionWithCheckpoint. *)

\* Mutant: a resume lists every job again.
Pending_All(c) == Job

Pending(c) == Job \ Done(c)

\* Mutant: the pool is launched and the plan saved with its first result.
SavePlan_LaunchOnly ==
  /\ pc = "opened"
  /\ Pending(mem) # {}
  /\ queue' = Pending(mem)
  /\ worker' = [w \in Worker |-> Idle]
  /\ pc' = "collecting"
  /\ UNCHANGED <<disk, results, mem, current, errored, commitFailed,
                 cancelled, faults>>

\* The checkpoint is saved before any job runs, then the pool is launched.
SavePlan ==
  /\ pc = "opened"
  /\ SaveSucceeds(mem)
  /\ \/ /\ Pending(mem) # {}
        /\ mem' = [mem EXCEPT !.remaining = Cardinality(Pending(mem))]
        /\ queue' = Pending(mem)
        /\ worker' = [w \in Worker |-> Idle]
        /\ pc' = "collecting"
     \/ /\ Pending(mem) = {}
        /\ ~cancelled
        /\ mem' = [mem EXCEPT !.phase = "collected"]
        /\ pc' = "finishing"
        /\ UNCHANGED <<queue, worker>>
  /\ UNCHANGED <<out, synced, results, current, errored, commitFailed,
                 cancelled, faults>>

\* Nothing is pending and ctx is already done: the phase is not advanced.
SavePlanCancelled ==
  /\ pc = "opened"
  /\ SaveSucceeds(mem)
  /\ Pending(mem) = {}
  /\ cancelled
  /\ ProcessEnds
  /\ UNCHANGED <<out, synced, faults>>

SavePlanFails ==
  /\ pc = "opened"
  /\ SaveFails(mem)
  /\ Fault
  /\ ProcessEnds
  /\ UNCHANGED <<out, synced>>

(* checkpointWorker and collectTarget. *)

\* A worker takes the next job unless ctx is done or the channel is exhausted.
TakeJob(w) ==
  /\ worker[w].state = "idle"
  /\ ~cancelled
  /\ \E j \in queue :
       /\ queue' = queue \ {j}
       /\ worker' = [worker EXCEPT ![w] =
                       [state |-> "listing", job |-> j, count |-> 0, ok |-> TRUE]]
  /\ UNCHANGED <<disk, results, loop, faults>>

\* With ctx done the loop may still receive a job, but leaves before listing it.
WorkerReturns(w) ==
  /\ worker[w].state = "idle"
  /\ \/ /\ queue = {}
        /\ UNCHANGED queue
     \/ /\ cancelled
        /\ \E j \in queue : queue' = queue \ {j}
  /\ worker' = [worker EXCEPT ![w] = Gone]
  /\ UNCHANGED <<disk, results, loop, faults>>

\* One page arrives; the last one has no continue token.
ListPage(w) ==
  /\ worker[w].state = "listing"
  /\ \E n \in 0..MaxItems, last \in BOOLEAN :
       /\ worker[w].count + n <= MaxItems
       /\ ~last => n > 0
       /\ worker' = [worker EXCEPT ![w].count = @ + n,
                                   ![w].state = IF last THEN "sending" ELSE @]
  /\ UNCHANGED <<disk, queue, results, loop, faults>>

\* A page fails (always possible once ctx is done): the whole job fails.
PageFails(w) ==
  /\ worker[w].state = "listing"
  /\ worker' = [worker EXCEPT ![w].state = "sending",
                              ![w].count = 0, ![w].ok = FALSE]
  /\ IF cancelled THEN UNCHANGED faults ELSE Fault
  /\ UNCHANGED <<disk, queue, results, loop>>

\* Mutant: the worker's job is forgotten before the result is built.
SendResult_AfterReset(w) ==
  /\ worker[w].state = "sending"
  /\ Len(results) < ResultsCap
  /\ results' = Append(results, [job |-> NoJob,
                                 count |-> worker[w].count,
                                 ok |-> worker[w].ok])
  /\ worker' = [worker EXCEPT ![w] = Idle]
  /\ UNCHANGED <<disk, queue, loop, faults>>

SendResult(w) ==
  /\ worker[w].state = "sending"
  /\ Len(results) < ResultsCap
  /\ results' = Append(results, [job |-> worker[w].job,
                                 count |-> worker[w].count,
                                 ok |-> worker[w].ok])
  /\ worker' = [worker EXCEPT ![w] = Idle]
  /\ UNCHANGED <<disk, queue, loop, faults>>

\* select picks ctx.Done(): the result is dropped.
DropResult(w) ==
  /\ worker[w].state = "sending"
  /\ cancelled
  /\ worker' = [worker EXCEPT ![w] = Gone]
  /\ UNCHANGED <<disk, queue, results, loop, faults>>

(* The collector loop. *)

\* Mutant: results that arrive after a failed commit stay in the channel.
Drain_Never == FALSE /\ UNCHANGED vars

\* After a failed commit the loop only drains the workers.
Drain ==
  /\ pc = "collecting"
  /\ commitFailed
  /\ results # <<>>
  /\ results' = Tail(results)
  /\ UNCHANGED <<disk, queue, worker, loop, faults>>

\* FailedJobs is never read back, so only the save that follows is kept.
ReceiveFailed ==
  /\ pc = "collecting"
  /\ ~commitFailed
  /\ results # <<>>
  /\ ~Head(results).ok
  /\ results' = Tail(results)
  /\ errored' = TRUE
  /\ pc' = "saving"
  /\ UNCHANGED <<disk, queue, worker, mem, current, commitFailed, cancelled, faults>>

\* WriteJSONLBatch appends and flushes the whole batch.
ReceiveBatch ==
  /\ pc = "collecting"
  /\ ~commitFailed
  /\ results # <<>>
  /\ Head(results).ok
  /\ current' = Head(results)
  /\ results' = Tail(results)
  /\ out' = out \o Batch(Head(results).job, Head(results).count)
  /\ pc' = "written"
  /\ UNCHANGED <<synced, ckpt, ckptDisk, queue, worker, mem, errored,
                 commitFailed, cancelled, faults>>

\* The batch is only partly written, its last line perhaps torn.
ReceiveBatchFails ==
  /\ pc = "collecting"
  /\ ~commitFailed
  /\ results # <<>>
  /\ Head(results).ok
  /\ results' = Tail(results)
  /\ \E n \in 0..Head(results).count, torn \in {<<>>, <<Torn>>} :
       /\ n < Head(results).count
       /\ out' = out \o Batch(Head(results).job, n) \o torn
  /\ StopCommitting
  /\ Fault
  /\ UNCHANGED <<synced, ckpt, ckptDisk, queue, worker, mem>>

\* Mutant: the position is checkpointed without an fsync.
CommitOutput_NoSync ==
  /\ pc = "written"
  /\ mem' = [AddCompletedJob(mem, current.job, current.count) EXCEPT
               !.offset = Len(out)]
  /\ current' = NoResult
  /\ pc' = "saving"
  /\ UNCHANGED <<disk, pool, errored, commitFailed, cancelled, faults>>

\* Commit: fsync, then the file size becomes the checkpointed position.
CommitOutput ==
  /\ pc = "written"
  /\ synced' = Len(out)
  /\ mem' = [AddCompletedJob(mem, current.job, current.count) EXCEPT
               !.offset = Len(out)]
  /\ current' = NoResult
  /\ pc' = "saving"
  /\ UNCHANGED <<out, ckpt, ckptDisk, pool, errored, commitFailed, cancelled,
                 faults>>

CommitOutputFails ==
  /\ pc = "written"
  /\ StopCommitting
  /\ Fault
  /\ UNCHANGED <<disk, pool, mem>>

SaveProgress ==
  /\ pc = "saving"
  /\ SaveSucceeds(mem)
  /\ pc' = "collecting"
  /\ UNCHANGED <<out, synced, pool, mem, current, errored, commitFailed,
                 cancelled, faults>>

SaveProgressFails ==
  /\ pc = "saving"
  /\ SaveFails(mem)
  /\ StopCommitting
  /\ Fault
  /\ UNCHANGED <<out, synced, pool, mem>>

\* wg.Wait() has returned and the results channel is closed and empty.
LoopOver == pc = "collecting" /\ results = <<>> /\ \A w \in Worker : worker[w].state = "gone"

CollectionComplete == ~errored /\ ~cancelled /\ Len(mem.completed) = Total

EndLoop ==
  /\ LoopOver
  /\ \/ /\ CollectionComplete
        /\ mem' = [mem EXCEPT !.phase = "collected"]
        /\ pc' = "finishing"
        /\ UNCHANGED <<pool, current, errored, commitFailed, cancelled>>
     \/ /\ ~CollectionComplete
        /\ ProcessEnds
  /\ UNCHANGED <<disk, faults>>

\* finishCollectionCheckpoint: save the phase, then remove unless retained.
SaveCollected ==
  /\ pc = "finishing"
  /\ SaveSucceeds(mem)
  /\ \/ /\ Retain
        /\ ProcessEnds
     \/ /\ ~Retain
        /\ pc' = "removing"
        /\ UNCHANGED <<pool, mem, current, errored, commitFailed, cancelled>>
  /\ UNCHANGED <<out, synced, faults>>

SaveCollectedFails ==
  /\ pc = "finishing"
  /\ SaveFails(mem)
  /\ Fault
  /\ ProcessEnds
  /\ UNCHANGED <<out, synced>>

\* RemoveCheckpoint does not sync the directory: the removal is not durable.
RemoveCheckpoint ==
  /\ pc = "removing"
  /\ ckpt' = Absent
  /\ ckptDisk' = ckptDisk \cup {Absent}
  /\ ProcessEnds
  /\ UNCHANGED <<out, synced, faults>>

RemoveCheckpointFails ==
  /\ pc = "removing"
  /\ Fault
  /\ ProcessEnds
  /\ UNCHANGED disk

-----------------------------------------------------------------------------
(* The environment. *)

\* Ctrl+C, SIGTERM, or the caller's context ends.
Cancel ==
  /\ pc # "off"
  /\ ~cancelled
  /\ cancelled' = TRUE
  /\ Fault
  /\ UNCHANGED <<disk, pool, pc, mem, current, errored, commitFailed>>

\* The process dies; the operating system keeps what it was handed.
Kill ==
  /\ pc # "off"
  /\ Fault
  /\ ProcessEnds
  /\ UNCHANGED disk

\* Unsynced lines may be lost or damaged, an unsynced rename or removal undone.
PowerLoss ==
  /\ \E k \in synced..Len(out), t \in 0..1 :
       /\ k + t <= Len(out)
       /\ out' = SubSeq(out, 1, k) \o [i \in 1..t |-> Torn]
       /\ synced' = k + t
  /\ \E c \in ckptDisk : ckpt' = c /\ ckptDisk' = {c}
  /\ Fault
  /\ ProcessEnds

-----------------------------------------------------------------------------

WorkerStep(w) ==
  \/ TakeJob(w) \/ WorkerReturns(w) \/ ListPage(w) \/ PageFails(w)
  \/ SendResult(w) \/ DropResult(w)

LoopStep ==
  \/ SavePlan \/ SavePlanCancelled \/ SavePlanFails
  \/ Drain \/ ReceiveFailed \/ ReceiveBatch \/ ReceiveBatchFails
  \/ CommitOutput \/ CommitOutputFails \/ SaveProgress \/ SaveProgressFails
  \/ EndLoop \/ SaveCollected \/ SaveCollectedFails
  \/ RemoveCheckpoint \/ RemoveCheckpointFails

Start == StartNew \/ StartNewFails \/ Resume \/ ResumeFails

Next ==
  \/ Start
  \/ LoopStep
  \/ \E w \in Worker : WorkerStep(w)
  \/ Cancel \/ Kill \/ PowerLoss

Spec == Init /\ [][Next]_vars

\* The Go scheduler runs every goroutine that can go on, and a request to the
\* API server ends (ClientConfig sets a 30 s timeout).
RunFairness == WF_vars(LoopStep) /\ \A w \in Worker : WF_vars(WorkerStep(w))
\* The operator starts the collection and resumes it until it is collected.
OperatorFairness == WF_vars(Start)

LiveSpec == Spec /\ RunFairness /\ OperatorFairness

-----------------------------------------------------------------------------
(* Properties. *)

\* Every variable holds a value of its type.
TypeOK ==
  /\ out \in Seq(Line \cup {Torn})
  /\ synced \in 0..Len(out)
  /\ ckpt \in Checkpoint
  /\ ckptDisk \subseteq Checkpoint
  /\ ckpt \in ckptDisk
  /\ pc \in {"off", "opened", "collecting", "written", "saving", "finishing",
             "removing"}
  /\ mem \in Checkpoint
  /\ queue \subseteq Job
  /\ worker \in [Worker -> [state : {"idle", "listing", "sending", "gone"},
                            job : Job \cup {NoJob}, count : Nat, ok : BOOLEAN]]
  /\ results \in Seq([job : Job, count : Nat, ok : BOOLEAN])
  /\ current \in [job : Job \cup {NoJob}, count : Nat, ok : BOOLEAN]
  /\ errored \in BOOLEAN
  /\ commitFailed \in BOOLEAN
  /\ cancelled \in BOOLEAN
  /\ faults \in 0..MaxFaults

\* The output up to c's position is exactly the resources of c's completed
\* jobs: each once, none missing, none of another job, none torn.
ExactUpTo(c) ==
  /\ \A p, q \in 1..c.offset : out[p] = out[q] => p = q
  /\ \A p \in 1..c.offset : \E i \in 1..Len(c.completed) :
       /\ out[p].job = c.completed[i].job
       /\ out[p].item \in 1..c.completed[i].count
  /\ \A i \in 1..Len(c.completed) : \A k \in 1..c.completed[i].count :
       \E p \in 1..c.offset : out[p] = [job |-> c.completed[i].job, item |-> k]

\* Whatever checkpoint a crash leaves behind, a resume that accepts it keeps an
\* output that holds every committed resource exactly once (execute.go commits
\* the output before the progress; Restore drops the rest).
ExactlyOnce == \A c \in ckptDisk : CanResume(c) => ExactUpTo(c)

\* A retained checkpoint is always accepted by a later resume: its progress
\* agrees with its plan, its phase with its progress, and the bytes it promises
\* survive even a power loss (ValidateResume, Restore).
AlwaysResumable ==
  Retain => \A c \in ckptDisk :
              c.phase # "absent" => ValidResume(c) /\ c.offset <= synced

\* Once any job may be listed, no crash can leave the run without a checkpoint
\* to resume from: the plan is saved before the workers are launched.
WorkIsRecoverable ==
  (\E w \in Worker : worker[w].state # "gone") =>
     \A c \in ckptDisk : CanResume(c)

\* Within one run a job is in at most one pair of hands, and a completed job in
\* none: no resource is requested twice and no result can be committed twice.
InWorker(j) == {w \in Worker : worker[w].job = j}
InResults(j) == {i \in 1..Len(results) : results[i].job = j}
OneHolder ==
  \A j \in Job :
    /\ \A v, w \in InWorker(j) : v = w
    /\ \A i, k \in InResults(j) : i = k
    /\ ~(InWorker(j) # {} /\ InResults(j) # {})
    /\ j \in queue \/ j = current.job => InWorker(j) = {} /\ InResults(j) = {}
    /\ ~(j \in queue /\ j = current.job)
    /\ j \in Done(mem) => InWorker(j) = {} /\ InResults(j) = {}
                          /\ j \notin queue /\ j # current.job

\* A job that every checkpoint a crash could leave records as completed stays
\* completed in all of them: no crash, failure or resume gives up progress.
SafelyDone == {j \in Job : \A c \in ckptDisk : j \in Done(c)}
ProgressKept ==
  [][\A c \in ckptDisk' : c.phase # "absent" => SafelyDone \subseteq Done(c)]_vars

\* A run that has started comes to its end: after a failed commit the workers
\* are drained, and neither channel leaves anyone waiting for ever.
RunEnds == (pc # "off") ~> (pc = "off")

\* If failures stop and the operator keeps resuming, a retained collection ends
\* with every job collected, for good.
EventuallyCollected == <>[](ckpt.phase = "collected")

=============================================================================
