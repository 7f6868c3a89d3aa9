------------------------------ MODULE MultiRun ------------------------------
(***************************************************************************)
(* A run over several clusters: a scheduler launches up to a number of     *)
(* pipelines in one process and keeps a parent checkpoint with the state   *)
(* and phase of every cluster, beside the checkpoint each pipeline keeps   *)
(* for itself.  A later process resumes the run from both.                 *)
(*                                                                         *)
(* Source: src/internal/cli/{run_checkpoint,run_resume,multi_pipeline}.go. *)
(***************************************************************************)
EXTENDS Pipeline

CONSTANTS MaxConcurrency  \* bound on --cluster-concurrency

ASSUME ClusterAssumption == IsFiniteSet(Cluster) /\ Cluster = 1..Cardinality(Cluster)
ASSUME ConcurrencyAssumption == MaxConcurrency \in Nat \ {0}

VARIABLES
  parent,        \* the parent checkpoint file as the system sees it
  parentDisk,    \* the parent checkpoints a power loss may leave behind
  ppc,           \* control of the process
  run,           \* *multiRunCheckpoint in memory
  next,          \* the index executeMultiRun has reached
  spawned,       \* goroutines launched and still to prepare their cluster
  persistFailed, \* persistenceErr # nil
  cleanupFailed  \* a child's checkpoint could not be removed

parentFile == <<parent, parentDisk>>
scheduler == <<ppc, run, next, spawned, persistFailed, cleanupFailed>>
children == <<files, saved, control>>
multiVars == <<vars, parentFile, scheduler>>

-----------------------------------------------------------------------------

NoRun == [exists |-> FALSE, state |-> [c \in Cluster |-> "queued"],
          phase |-> [c \in Cluster |-> "setup"], concurrency |-> 1]
NewRun(n) == [NoRun EXCEPT !.exists = TRUE, !.concurrency = n]
Run == [exists : BOOLEAN,
        state : [Cluster -> {"queued", "active", "failed", "complete"}],
        phase : [Cluster -> {"setup", "collecting", "collected", "parsed",
                             "complete"}],
        concurrency : 1 .. MaxConcurrency]

\* loadMultiRun.
ValidRun(p) ==
  p.exists /\ \A c \in Cluster : p.state[c] = "complete" => p.phase[c] = "complete"

SaveRun(p) == parent' = p /\ parentDisk' = {p}
SaveRunFails(p) ==
  \/ UNCHANGED parentFile
  \/ parent' = p /\ parentDisk' = parentDisk \cup {p}

MultiInit ==
  /\ Init
  /\ parent = NoRun /\ parentDisk = {NoRun}
  /\ ppc = "off" /\ run = NoRun /\ next = 1
  /\ spawned = {} /\ persistFailed = FALSE /\ cleanupFailed = FALSE

SchedulerEnds ==
  /\ ppc' = "off"
  /\ run' = NoRun
  /\ next' = 1
  /\ spawned' = {}
  /\ persistFailed' = FALSE
  /\ cleanupFailed' = FALSE
  /\ ProcessEnds

Proceed(label) ==
  /\ ppc' = label
  /\ UNCHANGED <<run, next, spawned, persistFailed, cleanupFailed>>

-----------------------------------------------------------------------------
(* createMultiRun and resumeMultiPipeline. *)

ArtifactExists(c) == output[c].exists \/ json[c].exists \/ zipped[c].exists

\* No path of the run may exist yet; the run is saved before anything starts.
Create ==
  /\ ppc = "off"
  /\ ~parent.exists
  /\ \A c \in Cluster : ~ArtifactExists(c) /\ ckpt[c].phase = "absent"
  /\ \E n \in 1 .. MaxConcurrency :
       \/ /\ SaveRun(NewRun(n))
          /\ ppc' = "starting" /\ run' = NewRun(n)
          /\ UNCHANGED <<next, spawned, persistFailed, cleanupFailed, faults>>
       \/ /\ SaveRunFails(NewRun(n))
          /\ Fault
          /\ UNCHANGED scheduler
  /\ UNCHANGED <<children, cancelled>>

\* --cluster-concurrency may be given again.
ResumeRun ==
  /\ ppc = "off"
  /\ ValidRun(parent)
  /\ ppc' = "starting"
  /\ \E n \in 1 .. MaxConcurrency : run' = [parent EXCEPT !.concurrency = n]
  /\ UNCHANGED <<next, spawned, persistFailed, cleanupFailed, parentFile,
                 vars>>

\* executeMultiRun saves the run again, perhaps with new tuning, before it
\* schedules anything.
SaveStart ==
  /\ ppc = "starting"
  /\ SaveRun(run)
  /\ Proceed("scheduling")
  /\ UNCHANGED vars

SaveStartFails ==
  /\ ppc = "starting"
  /\ SaveRunFails(run)
  /\ Fault
  /\ SchedulerEnds
  /\ UNCHANGED <<files, saved>>

-----------------------------------------------------------------------------
(* The scheduling loop of executeMultiRun. *)

Active == spawned \cup {c \in Cluster : pc[c] # "off"}

MayLaunch ==
  /\ ppc = "scheduling"
  /\ ~cancelled
  /\ ~persistFailed
  /\ Cardinality(Active) < run.concurrency
  /\ next \in Cluster

SkipComplete ==
  /\ MayLaunch
  /\ run.state[next] = "complete"
  /\ next' = next + 1
  /\ UNCHANGED <<ppc, run, spawned, persistFailed, cleanupFailed, parentFile,
                 vars>>

\* Mutant: complete clusters are launched like any other.
Launch_Complete ==
  /\ MayLaunch
  /\ run' = [run EXCEPT !.state[next] = "active"]
  /\ SaveRun(run')
  /\ spawned' = spawned \cup {next}
  /\ next' = next + 1
  /\ UNCHANGED <<ppc, persistFailed, cleanupFailed, vars>>

\* The cluster is saved as active before its goroutine exists.
Launch ==
  /\ MayLaunch
  /\ run.state[next] # "complete"
  /\ run' = [run EXCEPT !.state[next] = "active"]
  /\ SaveRun(run')
  /\ spawned' = spawned \cup {next}
  /\ next' = next + 1
  /\ UNCHANGED <<ppc, persistFailed, cleanupFailed, vars>>

LaunchFails ==
  /\ MayLaunch
  /\ run.state[next] # "complete"
  /\ run' = [run EXCEPT !.state[next] = "active"]
  /\ SaveRunFails(run')
  /\ next' = next + 1
  /\ persistFailed' = TRUE
  /\ cancelled' = TRUE
  /\ Fault
  /\ UNCHANGED <<ppc, spawned, cleanupFailed, children>>

\* prepareRunCluster: with no child checkpoint, a cluster that got anywhere is
\* refused rather than collected over what it left.
Refused(p, c, k) ==
  /\ k.phase = "absent"
  /\ p.phase[c] \in {"collected", "parsed", "complete"} \/ ArtifactExists(c)

Prepared(c) ==
  /\ c \in spawned
  /\ spawned' = spawned \ {c}
  /\ UNCHANGED <<ppc, run, next, persistFailed, cleanupFailed, parentFile>>

PrepareNew(c) ==
  /\ Prepared(c)
  /\ ~Refused(run, c, ckpt[c])
  /\ BeginNew(c)

PrepareResume(c) ==
  /\ Prepared(c)
  /\ \/ BeginResume(c)
     \/ BeginResumeFinished(c)
     \/ BeginResumeFinishedFails(c)

PrepareRefused(c) ==
  /\ Prepared(c)
  /\ Refused(run, c, ckpt[c])
  /\ Return(c, "setup", FALSE)
  /\ UNCHANGED <<files, saved, cp, partial, cancelled, faults>>

\* Credentials are needed only while jobs remain; they may have moved.
NeedsCredentials(c) ==
  ckpt[c].phase = "absent" \/ (ckpt[c].done # Job /\ ~Collected(ckpt[c]))

CredentialsFail(c) ==
  /\ Prepared(c)
  /\ ~Refused(run, c, ckpt[c])
  /\ NeedsCredentials(c)
  /\ Return(c, "setup", FALSE)
  /\ Fault
  /\ UNCHANGED <<files, saved, cp, partial, cancelled>>

\* safeRunSinglePipeline turns a panic into an error without a phase.
Panic(c) ==
  /\ Running(c)
  /\ Return(c, "", FALSE)
  /\ Fault
  /\ UNCHANGED <<files, saved, cp, partial, cancelled, parentFile, scheduler>>

ChildStep(c) ==
  /\ CollectStep(c) \/ ProcessStep(c, parent.exists)
  /\ UNCHANGED <<parentFile, scheduler>>

ReportedPhase(r) == IF r.phase # "" THEN r.phase
                    ELSE IF r.ok THEN "complete" ELSE "setup"

\* Mutant: a pipeline that returned is complete, whatever it returned.
Reported_IgnoresError(c) ==
  [run EXCEPT !.state[c] = "complete", !.phase[c] = ReportedPhase(result[c])]

Reported(c) ==
  [run EXCEPT !.state[c] = IF result[c].ok THEN "complete" ELSE "failed",
              !.phase[c] = ReportedPhase(result[c])]

\* One event is taken when nothing more may be launched.
Receive(c) ==
  /\ ppc = "scheduling"
  /\ ~MayLaunch
  /\ pc[c] = "returned"
  /\ run' = Reported(c)
  /\ pc' = [pc EXCEPT ![c] = "off"]
  /\ cp' = [cp EXCEPT ![c] = Absent]
  /\ partial' = [partial EXCEPT ![c] = FALSE]
  /\ result' = [result EXCEPT ![c] = NoResult]
  /\ UNCHANGED <<ppc, next, spawned, cleanupFailed, files, saved>>

ReceiveEvent(c) ==
  /\ Receive(c)
  /\ IF persistFailed THEN UNCHANGED parentFile ELSE SaveRun(run')
  /\ UNCHANGED <<persistFailed, cancelled, faults>>

ReceiveEventFails(c) ==
  /\ Receive(c)
  /\ ~persistFailed
  /\ SaveRunFails(run')
  /\ persistFailed' = TRUE
  /\ cancelled' = TRUE
  /\ Fault

\* Mutant: the loop waits for clusters it may no longer launch.
EndScheduling_AllTaken ==
  /\ ppc = "scheduling"
  /\ next \notin Cluster
  /\ Active = {}
  /\ ppc' = "cleaning"
  /\ next' = 1
  /\ UNCHANGED <<run, spawned, persistFailed, cleanupFailed, parentFile, vars>>

EndScheduling ==
  /\ ppc = "scheduling"
  /\ ~MayLaunch
  /\ Active = {}
  /\ ppc' = "cleaning"
  /\ next' = 1
  /\ UNCHANGED <<run, spawned, persistFailed, cleanupFailed, parentFile, vars>>

-----------------------------------------------------------------------------
(* The end of executeMultiRun. *)

\* Mutant: a child's checkpoint goes although the parent could not be saved.
CleanCluster_Unsaved ==
  /\ ppc = "cleaning"
  /\ next \in Cluster
  /\ IF run.state[next] = "complete"
     THEN /\ ckpt' = [ckpt EXCEPT ![next] = Absent]
          /\ ckptDisk' = [ckptDisk EXCEPT ![next] = @ \cup {Absent}]
     ELSE UNCHANGED saved
  /\ next' = next + 1
  /\ UNCHANGED <<ppc, run, spawned, persistFailed, cleanupFailed, parentFile,
                 files, control, cancelled, faults>>

\* Checkpoints of complete clusters go once the parent durably knows about them.
CleanCluster ==
  /\ ppc = "cleaning"
  /\ next \in Cluster
  /\ IF run.state[next] = "complete" /\ ~persistFailed
     THEN /\ ckpt' = [ckpt EXCEPT ![next] = Absent]
          /\ ckptDisk' = [ckptDisk EXCEPT ![next] = @ \cup {Absent}]
     ELSE UNCHANGED saved
  /\ next' = next + 1
  /\ UNCHANGED <<ppc, run, spawned, persistFailed, cleanupFailed, parentFile,
                 files, control, cancelled, faults>>

CleanClusterFails ==
  /\ ppc = "cleaning"
  /\ next \in Cluster
  /\ run.state[next] = "complete" /\ ~persistFailed
  /\ next' = next + 1
  /\ cleanupFailed' = TRUE
  /\ Fault
  /\ UNCHANGED <<ppc, run, spawned, persistFailed, parentFile, children,
                 cancelled>>

RunComplete ==
  /\ \A c \in Cluster : run.state[c] = "complete"
  /\ ~persistFailed /\ ~cleanupFailed

\* The parent checkpoint stays while any cluster is unfinished.
Finish ==
  /\ ppc = "cleaning"
  /\ next \notin Cluster
  /\ \/ /\ RunComplete
        /\ parent' = NoRun /\ parentDisk' = parentDisk \cup {NoRun}
        /\ UNCHANGED faults
     \/ /\ ~RunComplete
        /\ UNCHANGED <<parentFile, faults>>
     \/ /\ RunComplete
        /\ Fault
        /\ UNCHANGED parentFile
  /\ SchedulerEnds
  /\ UNCHANGED <<files, saved>>

-----------------------------------------------------------------------------
(* One child resumed on its own with --resume <child-checkpoint>. *)

ResumeChild(c) ==
  /\ ppc = "off"
  /\ Proceed("child")
  /\ BeginResume(c) \/ BeginResumeFinished(c) \/ BeginResumeFinishedFails(c)
  /\ UNCHANGED parentFile

ExitChild(c) ==
  /\ ppc = "child"
  /\ pc[c] = "returned"
  /\ SchedulerEnds
  /\ UNCHANGED <<files, saved, faults, parentFile>>

-----------------------------------------------------------------------------

CancelRun ==
  /\ ppc # "off"
  /\ ~cancelled
  /\ cancelled' = TRUE
  /\ Fault
  /\ UNCHANGED <<children, parentFile, scheduler>>

KillRun ==
  /\ ppc # "off"
  /\ Fault
  /\ SchedulerEnds
  /\ UNCHANGED <<files, saved, parentFile>>

RunPowerLoss ==
  /\ DiskAfterPowerLoss
  /\ \E p \in parentDisk : parent' = p /\ parentDisk' = {p}
  /\ Fault
  /\ SchedulerEnds

SchedulerStep ==
  \/ SaveStart \/ SaveStartFails
  \/ SkipComplete \/ Launch \/ LaunchFails
  \/ \E c \in Cluster : ReceiveEvent(c) \/ ReceiveEventFails(c) \/ ExitChild(c)
  \/ EndScheduling \/ CleanCluster \/ CleanClusterFails \/ Finish

GoroutineStep(c) ==
  \/ PrepareNew(c) \/ PrepareResume(c) \/ PrepareRefused(c) \/ CredentialsFail(c)
  \/ ChildStep(c) \/ Panic(c)

MultiNext ==
  \/ Create \/ ResumeRun \/ SchedulerStep
  \/ \E c \in Cluster : GoroutineStep(c) \/ ResumeChild(c)
  \/ CancelRun \/ KillRun \/ RunPowerLoss

MultiSpec == MultiInit /\ [][MultiNext]_multiVars

\* The process's own goroutines go on; nobody has to start or resume it.
MultiRunSpec ==
  /\ MultiSpec
  /\ WF_multiVars(SchedulerStep)
  /\ \A c \in Cluster : WF_multiVars(GoroutineStep(c))

-----------------------------------------------------------------------------
(* Properties. *)

ParentTypes ==
  /\ parent \in Run /\ parentDisk \subseteq Run /\ parent \in parentDisk
  /\ run \in Run

SchedulerTypes ==
  /\ ppc \in {"off", "starting", "scheduling", "cleaning", "child"}
  /\ next \in 1..Cardinality(Cluster) + 1
  /\ spawned \subseteq Cluster
  /\ persistFailed \in BOOLEAN /\ cleanupFailed \in BOOLEAN

MultiTypeOK == TypeOK /\ ParentTypes /\ SchedulerTypes

\* Whatever parent checkpoint a crash leaves, loadMultiRun accepts it, and a cluster
\* it calls complete (and a resume will skip) has its final artifact on disk with
\* every job in it.
CompleteMeansDone ==
  \A p \in parentDisk : p.exists =>
    ValidRun(p) /\ \A c \in Cluster : p.state[c] = "complete" => FullArtifact(FinalArtifact(c))

\* A resume refuses an unfinished cluster only when no job of it was ever
\* committed: a child's checkpoint is never lost while the parent still needs
\* it, so no committed work becomes unreachable.
NoCommittedWorkStranded ==
  \A p \in parentDisk : p.exists =>
    \A c \in Cluster : \A k \in ckptDisk[c] :
      p.state[c] # "complete" /\ Refused(p, c, k)
        => output[c].jobs = {} /\ ~json[c].exists /\ ~zipped[c].exists

\* README, "Multi-cluster collection": a resume takes up all unfinished
\* clusters, including any that were still queued.
UnfinishedResumable ==
  ppc = "off" /\ parent.exists =>
    \A c \in Cluster :
      parent.state[c] # "complete" => ~Refused(parent, c, ckpt[c])

\* A cluster that every surviving parent checkpoint calls complete is never
\* launched again by the run, whatever happened since.
CompletedNotRelaunched ==
  [][\A c \in Cluster :
       (\A p \in parentDisk : p.exists /\ p.state[c] = "complete")
         => c \notin spawned']_multiVars

\* A started run returns: whatever fails, every launched pipeline reports, every
\* report is received and the scheduler stops.
RunReturns == (ppc # "off") ~> (ppc = "off")

-----------------------------------------------------------------------------
(* The inductive invariant, beside Sound of every pipeline. *)

\* What no later step of the cluster's pipelines undoes.
Kept(c) ==
  /\ FullArtifact(FinalArtifact(c))
  /\ \A k \in ckptDisk[c] : k.phase \in {"complete", "absent"}
  /\ pc[c] \in {"off", "returned"} \/ (pc[c] \in PostProcessing /\ cp[c].phase = "complete")

\* Every parent checkpoint there may be, the one in memory too.
Parents == {p \in parentDisk \cup {run} : p.exists}

CompleteKept ==
  \A p \in Parents : \A c \in Cluster : p.state[c] = "complete" => p.phase[c] = "complete" /\ Kept(c)

\* No work of the cluster was ever committed.
Untouched(c) == output[c].jobs = {} /\ ~json[c].exists /\ ~zipped[c].exists

\* A child's checkpoint goes, or is not there yet, only in these two cases.
AbsentForCause ==
  \A c \in Cluster : Absent \in ckptDisk[c] =>
    Untouched(c) \/ \A p \in Parents : p.state[c] = "complete"

\* Where the process is in its run.
ProcessControl ==
  /\ ppc # "scheduling" => spawned = {}
  /\ ppc \in {"off", "starting", "cleaning"} => \A c \in Cluster : pc[c] = "off"
  /\ ppc \in {"off", "child"} => run = NoRun
  /\ ppc = "starting" => run.exists /\ parent.exists
  /\ ppc \in {"scheduling", "cleaning"} =>
       /\ run.exists
       /\ \A p \in parentDisk : p.exists
       /\ ~persistFailed => parentDisk = {run}

\* The parent goes once every cluster is complete.
ParentRemoved ==
  ~parent.exists => \A p \in parentDisk : p.exists => \A c \in Cluster : p.state[c] = "complete"

\* A launched cluster is active in every parent checkpoint and behind the index.
Launched ==
  ppc = "scheduling" =>
    \A c \in Active :
      /\ c < next
      /\ c \in spawned => pc[c] = "off"
      /\ \A p \in parentDisk \cup {run} : p.state[c] = "active"

OutputKept == \A c \in Cluster : output[c].exists \/ output[c].jobs = {}

MultiInv ==
  /\ MultiTypeOK /\ (\A c \in Cluster : Sound(c)) /\ OutputKept
  /\ CompleteKept /\ AbsentForCause /\ ProcessControl /\ ParentRemoved /\ Launched

=============================================================================
