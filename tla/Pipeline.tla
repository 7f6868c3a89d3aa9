------------------------------ MODULE Pipeline ------------------------------
(***************************************************************************)
(* The pipeline of one cluster: collect, parse, zip, complete.  A          *)
(* checkpoint phase says how far the run has come, and a later process     *)
(* resumes from it.  Collecting is abstracted to what Collection shows of  *)
(* it: jobs are committed one at a time and an uncommitted tail may follow *)
(* them.  Variables are functions over Cluster so that MultiRun can run    *)
(* several pipelines in one process; one cluster is the stand-alone run.   *)
(*                                                                         *)
(* Source: src/internal/cli/pipeline.go, src/internal/cli/collect.go.      *)
(***************************************************************************)
EXTENDS Naturals, FiniteSets

CONSTANTS
  Cluster,
  Job,           \* the jobs of a cluster's plan
  ParseEnabled,  \* parse the output (absent --no-parse)
  ZipOutput,     \* --zip
  MaxFaults      \* bound: failures, cancellations, kills and power losses

ASSUME PlanAssumption == IsFiniteSet(Job) /\ Job # {}
ASSUME FlagAssumption ==
  ParseEnabled \in BOOLEAN /\ ZipOutput \in BOOLEAN /\ MaxFaults \in Nat

VARIABLES
  output,     \* the JSONL file: committed jobs, and whether a tail follows
  json,       \* the parsed graph, atomically published
  zipped,     \* the archive of the parsed graph, atomically published
  ckpt,       \* the checkpoint file as the system sees it
  ckptDisk,   \* the checkpoint files a power loss may leave behind
  pc,         \* control of runSinglePipeline
  cp,         \* *Checkpoint in memory
  partial,    \* collectionErr is a PartialCollectionError
  result,     \* what runSinglePipeline returned: phase and success
  cancelled,  \* the process's ctx is done
  faults

files == <<output, json, zipped>>
saved == <<ckpt, ckptDisk>>
control == <<pc, cp, partial, result>>
vars == <<files, saved, control, cancelled, faults>>

-----------------------------------------------------------------------------

NoFile == [exists |-> FALSE, jobs |-> {}, tail |-> FALSE]
File(jobs, tail) == [exists |-> TRUE, jobs |-> jobs, tail |-> tail]
FileType == [exists : BOOLEAN, jobs : SUBSET Job, tail : BOOLEAN]

Checkpoint ==
  [phase : {"absent", "collecting", "collected", "parsed", "complete"},
   done : SUBSET Job, artifact : {"none", "json", "zip"}]
Absent == [phase |-> "absent", done |-> {}, artifact |-> "none"]
NewCheckpoint == [Absent EXCEPT !.phase = "collecting"]

Collected(k) == k.phase \in {"collected", "parsed", "complete"}
Processed(k) == k.phase \in {"parsed", "complete"}

\* The file Checkpoint.Artifact names.
Artifact(c, k) == CASE k.artifact = "json" -> json[c]
                    [] k.artifact = "zip" -> zipped[c]
                    [] OTHER -> NoFile

Fault == faults < MaxFaults /\ faults' = faults + 1

SaveSucceeds(c, k) ==
  /\ ckpt' = [ckpt EXCEPT ![c] = k]
  /\ ckptDisk' = [ckptDisk EXCEPT ![c] = {k}]

\* As in Collection: nothing published, or published and not yet durable.
SaveFails(c, k) ==
  \/ UNCHANGED saved
  \/ /\ ckpt' = [ckpt EXCEPT ![c] = k]
     /\ ckptDisk' = [ckptDisk EXCEPT ![c] = @ \cup {k}]

Goto(c, label) == pc' = [pc EXCEPT ![c] = label] /\ UNCHANGED result

Return(c, phase, ok) ==
  /\ pc' = [pc EXCEPT ![c] = "returned"]
  /\ result' = [result EXCEPT ![c] = [phase |-> phase, ok |-> ok]]

NoResult == [phase |-> "", ok |-> FALSE]

Init ==
  /\ output = [c \in Cluster |-> NoFile]
  /\ json = [c \in Cluster |-> NoFile]
  /\ zipped = [c \in Cluster |-> NoFile]
  /\ ckpt = [c \in Cluster |-> Absent]
  /\ ckptDisk = [c \in Cluster |-> {Absent}]
  /\ pc = [c \in Cluster |-> "off"]
  /\ cp = [c \in Cluster |-> Absent]
  /\ partial = [c \in Cluster |-> FALSE]
  /\ result = [c \in Cluster |-> NoResult]
  /\ cancelled = FALSE
  /\ faults = 0

-----------------------------------------------------------------------------
(* Starting runSinglePipeline. *)

Starts(c, label, k) ==
  /\ pc[c] = "off"
  /\ Goto(c, label)
  /\ cp' = [cp EXCEPT ![c] = k]
  /\ partial' = [partial EXCEPT ![c] = FALSE]

\* A new run; an existing checkpoint is refused before anything is touched.
BeginNew(c) ==
  /\ ckpt[c].phase = "absent"
  /\ Starts(c, "connecting", NewCheckpoint)
  /\ UNCHANGED <<files, saved, cancelled, faults>>

\* Mutant: ValidateResume does not know the phase "parsed".
CanResume_NoParsed(c, k) ==
  /\ k.phase \in {"collecting", "collected", "complete"}
  /\ Collected(k) => k.done = Job
  /\ output[c].exists /\ k.done \subseteq output[c].jobs

\* ValidateResume and the committed length of the output.
CanResume(c, k) ==
  /\ k.phase # "absent"
  /\ Collected(k) => k.done = Job
  /\ output[c].exists /\ k.done \subseteq output[c].jobs

Restored(c) == output' = [output EXCEPT ![c] = File(ckpt[c].done, FALSE)]

\* Mutant: every resume collects again.
BeginResume_Always(c) ==
  /\ CanResume(c, ckpt[c])
  /\ Starts(c, "connecting", ckpt[c])
  /\ UNCHANGED <<files, saved, cancelled, faults>>

\* Unfinished jobs are left to CollectService.Run.
BeginResume(c) ==
  /\ CanResume(c, ckpt[c])
  /\ ckpt[c].done # Job
  /\ Starts(c, "connecting", ckpt[c])
  /\ UNCHANGED <<files, saved, cancelled, faults>>

\* No job remains: the tail is dropped here, before anything parses the output.
BeginResumeFinished(c) ==
  /\ CanResume(c, ckpt[c])
  /\ ckpt[c].done = Job
  /\ Restored(c)
  /\ IF Collected(ckpt[c])
     THEN /\ Starts(c, "processing", ckpt[c])
          /\ UNCHANGED <<json, zipped, saved, cancelled, faults>>
     ELSE LET k == [ckpt[c] EXCEPT !.phase = "collected"] IN
          /\ SaveSucceeds(c, k)
          /\ Starts(c, "processing", k)
          /\ UNCHANGED <<json, zipped, cancelled, faults>>

\* The output cannot be reopened, or the advanced phase cannot be saved.
BeginResumeFinishedFails(c) ==
  /\ pc[c] = "off"
  /\ CanResume(c, ckpt[c])
  /\ ckpt[c].done = Job
  /\ \/ UNCHANGED <<output, saved>>
     \/ /\ ~Collected(ckpt[c])
        /\ Restored(c)
        /\ SaveFails(c, [ckpt[c] EXCEPT !.phase = "collected"])
  /\ Return(c, "", FALSE)
  /\ Fault
  /\ UNCHANGED <<json, zipped, cp, partial, cancelled>>

-----------------------------------------------------------------------------
(* CollectService.Run, as Collection details it. *)

\* Connecting, discovery or opening the output fails; a fresh output may exist.
SetupFails(c) ==
  /\ pc[c] = "connecting"
  /\ output' \in {output, [output EXCEPT ![c] = File(cp[c].done, FALSE)]}
  /\ Return(c, "setup", FALSE)
  /\ Fault
  /\ UNCHANGED <<json, zipped, saved, cp, partial, cancelled>>

\* Discovery is given ctx; so is the collection that follows it.
SetupCancelled(c) ==
  /\ pc[c] = "connecting"
  /\ cancelled
  /\ Return(c, "setup", FALSE)
  /\ UNCHANGED <<files, saved, cp, partial, cancelled, faults>>

\* NewAsyncWriter creates the output, or Restore cuts it to the saved position.
OpenOutput(c) ==
  /\ pc[c] = "connecting"
  /\ output' = [output EXCEPT ![c] = File(cp[c].done, FALSE)]
  /\ Goto(c, "opened")
  /\ UNCHANGED <<json, zipped, saved, cp, partial, cancelled, faults>>

SavePlan(c) ==
  /\ pc[c] = "opened"
  /\ SaveSucceeds(c, cp[c])
  /\ Goto(c, "collecting")
  /\ UNCHANGED <<files, cp, partial, cancelled, faults>>

SavePlanFails(c) ==
  /\ pc[c] = "opened"
  /\ SaveFails(c, cp[c])
  /\ Return(c, "collecting", FALSE)
  /\ Fault
  /\ UNCHANGED <<files, cp, partial, cancelled>>

\* A batch is on its way into the output.
AppendJob(c) ==
  /\ pc[c] = "collecting"
  /\ cp[c].done # Job
  /\ output' = [output EXCEPT ![c].tail = TRUE]
  /\ Goto(c, "committing")
  /\ UNCHANGED <<json, zipped, saved, cp, partial, cancelled, faults>>

WithJob(k, j) == [k EXCEPT !.done = @ \cup {j}]
Committed(c, j) == output' = [output EXCEPT ![c] = File(@.jobs \cup {j}, FALSE)]

\* Mutant: the checkpoint is saved and the batch left in the tail.
CommitJob_SaveOnly(c) ==
  /\ pc[c] = "committing"
  /\ \E j \in Job \ cp[c].done :
       /\ cp' = [cp EXCEPT ![c] = WithJob(@, j)]
       /\ SaveSucceeds(c, WithJob(cp[c], j))
  /\ Goto(c, "collecting")
  /\ UNCHANGED <<files, partial, cancelled, faults>>

CommitJob(c) ==
  /\ pc[c] = "committing"
  /\ \E j \in Job \ cp[c].done :
       /\ Committed(c, j)
       /\ cp' = [cp EXCEPT ![c] = WithJob(@, j)]
       /\ SaveSucceeds(c, WithJob(cp[c], j))
  /\ Goto(c, "collecting")
  /\ UNCHANGED <<json, zipped, partial, cancelled, faults>>

\* Mutant: a commit that failed counts as a job that failed.
CommitJobFails_AsPartial(c) ==
  /\ pc[c] = "committing"
  /\ UNCHANGED <<output, saved>>
  /\ partial' = [partial EXCEPT ![c] = TRUE]
  /\ cp' = [cp EXCEPT ![c] = ckpt[c]]
  /\ Goto(c, "processing")
  /\ Fault
  /\ UNCHANGED <<json, zipped, cancelled>>

\* CheckpointCommitError: the output, its sync or the save failed.
CommitJobFails(c) ==
  /\ pc[c] = "committing"
  /\ \/ UNCHANGED <<output, saved>>
     \/ \E j \in Job \ cp[c].done :
          Committed(c, j) /\ SaveFails(c, WithJob(cp[c], j))
  /\ Return(c, "collecting", FALSE)
  /\ Fault
  /\ UNCHANGED <<json, zipped, cp, partial, cancelled>>

CollectCancelled(c) ==
  /\ pc[c] = "collecting"
  /\ cancelled
  /\ Return(c, "collecting", FALSE)
  /\ UNCHANGED <<files, saved, cp, partial, cancelled, faults>>

\* Some jobs failed: the pipeline goes on with what the saved checkpoint holds.
CollectPartial(c) ==
  /\ pc[c] = "collecting"
  /\ cp[c].done # Job
  /\ ~cancelled
  /\ partial' = [partial EXCEPT ![c] = TRUE]
  /\ cp' = [cp EXCEPT ![c] = ckpt[c]]
  /\ Goto(c, "processing")
  /\ Fault
  /\ UNCHANGED <<files, saved, cancelled>>

\* finishCollectionCheckpoint, then runSinglePipeline reloads the checkpoint.
CollectComplete(c) ==
  /\ pc[c] = "collecting"
  /\ cp[c].done = Job
  /\ ~cancelled
  /\ SaveSucceeds(c, [cp[c] EXCEPT !.phase = "collected"])
  /\ cp' = [cp EXCEPT ![c].phase = "collected"]
  /\ Goto(c, "processing")
  /\ UNCHANGED <<files, partial, cancelled, faults>>

CollectCompleteFails(c) ==
  /\ pc[c] = "collecting"
  /\ cp[c].done = Job
  /\ ~cancelled
  /\ SaveFails(c, [cp[c] EXCEPT !.phase = "collected"])
  /\ Return(c, "collecting", FALSE)
  /\ Fault
  /\ UNCHANGED <<files, cp, partial, cancelled>>

-----------------------------------------------------------------------------
(* Parsing, zipping and completing. *)

\* The three ctx checks: before parsing, before zipping and before completing.
ProcessingCancelled(c) ==
  /\ pc[c] \in {"processing", "zipping", "completing"}
  /\ cancelled
  /\ ~(pc[c] = "completing" /\ partial[c])
  /\ Return(c, cp[c].phase, FALSE)
  /\ UNCHANGED <<files, saved, cp, partial, cancelled, faults>>

NeedsParse(c) == ParseEnabled /\ ~Processed(cp[c])

\* A phase that promises an artifact is worth nothing without the file: the run
\* is refused when somebody deleted it.  ArtifactBehindPhase shows that the
\* program itself never meets that refusal.
SkipParse(c) ==
  /\ pc[c] = "processing"
  /\ ~cancelled
  /\ ~NeedsParse(c)
  /\ ParseEnabled => Artifact(c, cp[c]).exists
  /\ Goto(c, "zipping")
  /\ UNCHANGED <<files, saved, cp, partial, cancelled, faults>>

\* Mutant: the phase advances after a partial collection too.
Parse_IgnoresPartial(c) ==
  /\ pc[c] = "processing"
  /\ ~cancelled
  /\ NeedsParse(c)
  /\ json' = [json EXCEPT ![c] = output[c]]
  /\ cp' = [cp EXCEPT ![c].artifact = "json", ![c].phase = "parsed"]
  /\ Goto(c, "saveParsed")
  /\ UNCHANGED <<output, zipped, saved, partial, cancelled, faults>>

\* ParseService.Run reads the whole output; only a complete collection advances
\* the saved phase.
Parse(c) ==
  /\ pc[c] = "processing"
  /\ ~cancelled
  /\ NeedsParse(c)
  /\ json' = [json EXCEPT ![c] = output[c]]
  /\ cp' = [cp EXCEPT ![c].artifact = "json",
                      ![c].phase = IF partial[c] THEN @ ELSE "parsed"]
  /\ Goto(c, IF partial[c] THEN "zipping" ELSE "saveParsed")
  /\ UNCHANGED <<output, zipped, saved, partial, cancelled, faults>>

ParseFails(c) ==
  /\ pc[c] = "processing"
  /\ NeedsParse(c)
  /\ json' \in {json, [json EXCEPT ![c] = output[c]]}
  /\ Return(c, cp[c].phase, FALSE)
  /\ Fault
  /\ UNCHANGED <<output, zipped, saved, cp, partial, cancelled>>

SaveParsed(c) ==
  /\ pc[c] = "saveParsed"
  /\ SaveSucceeds(c, cp[c])
  /\ Goto(c, "zipping")
  /\ UNCHANGED <<files, cp, partial, cancelled, faults>>

NeedsZip(c) == ParseEnabled /\ ZipOutput /\ cp[c].phase # "complete"

SkipZip(c) ==
  /\ pc[c] = "zipping"
  /\ ~cancelled
  /\ ~NeedsZip(c)
  /\ Goto(c, "completing")
  /\ UNCHANGED <<files, saved, cp, partial, cancelled, faults>>

\* The archive is written beside, synced and renamed; it names the artifact.
Zip(c) ==
  /\ pc[c] = "zipping"
  /\ ~cancelled
  /\ NeedsZip(c)
  /\ json[c].exists
  /\ zipped' = [zipped EXCEPT ![c] = json[c]]
  /\ cp' = [cp EXCEPT ![c].artifact = "zip"]
  /\ Goto(c, "completing")
  /\ UNCHANGED <<output, json, saved, partial, cancelled, faults>>

ZipFails(c) ==
  /\ pc[c] = "zipping"
  /\ NeedsZip(c)
  /\ zipped' \in {zipped, [zipped EXCEPT ![c] = json[c]]}
  /\ Return(c, cp[c].phase, FALSE)
  /\ Fault
  /\ UNCHANGED <<output, json, saved, cp, partial, cancelled>>

\* A partial collection ends here, its checkpoint as collecting left it.
ReturnPartial(c) ==
  /\ pc[c] = "completing"
  /\ partial[c]
  /\ Return(c, cp[c].phase, FALSE)
  /\ UNCHANGED <<files, saved, cp, partial, cancelled, faults>>

\* Mutant: a partial collection completes.
SaveComplete_IgnoresPartial(c) ==
  /\ pc[c] = "completing"
  /\ ~cancelled
  /\ SaveSucceeds(c, [cp[c] EXCEPT !.phase = "complete"])
  /\ cp' = [cp EXCEPT ![c].phase = "complete"]
  /\ Goto(c, "cleaning")
  /\ UNCHANGED <<files, partial, cancelled, faults>>

SaveComplete(c) ==
  /\ pc[c] = "completing"
  /\ ~partial[c] /\ ~cancelled
  /\ SaveSucceeds(c, [cp[c] EXCEPT !.phase = "complete"])
  /\ cp' = [cp EXCEPT ![c].phase = "complete"]
  /\ Goto(c, "cleaning")
  /\ UNCHANGED <<files, partial, cancelled, faults>>

\* response() reports the phase in memory even when it could not be saved.
SavePhaseFails(c) ==
  /\ \/ pc[c] = "saveParsed" /\ SaveFails(c, cp[c]) /\ Return(c, "parsed", FALSE)
     \/ /\ pc[c] = "completing"
        /\ ~partial[c] /\ ~cancelled
        /\ SaveFails(c, [cp[c] EXCEPT !.phase = "complete"])
        /\ Return(c, "complete", FALSE)
  /\ Fault
  /\ UNCHANGED <<files, cp, partial, cancelled>>

\* The intermediate graph goes once its archive is the artifact (an error is
\* only logged); the checkpoint goes unless a parent run still needs it.
Clean(c, keepForParent) ==
  /\ pc[c] = "cleaning"
  /\ json' \in IF ParseEnabled /\ ZipOutput
               THEN {json, [json EXCEPT ![c] = NoFile]} ELSE {json}
  /\ IF keepForParent
     THEN UNCHANGED saved
     ELSE /\ ckpt' = [ckpt EXCEPT ![c] = Absent]
          /\ ckptDisk' = [ckptDisk EXCEPT ![c] = @ \cup {Absent}]
  /\ Return(c, "complete", TRUE)
  /\ UNCHANGED <<output, zipped, cp, partial, cancelled, faults>>

CleanFails(c, keepForParent) ==
  /\ pc[c] = "cleaning"
  /\ ~keepForParent
  /\ json' \in IF ParseEnabled /\ ZipOutput
               THEN {json, [json EXCEPT ![c] = NoFile]} ELSE {json}
  /\ Return(c, "complete", FALSE)
  /\ Fault
  /\ UNCHANGED <<output, zipped, saved, cp, partial, cancelled>>

-----------------------------------------------------------------------------

CollectStep(c) ==
  \/ SetupFails(c) \/ SetupCancelled(c) \/ OpenOutput(c)
  \/ SavePlan(c) \/ SavePlanFails(c)
  \/ AppendJob(c) \/ CommitJob(c) \/ CommitJobFails(c)
  \/ CollectCancelled(c) \/ CollectPartial(c)
  \/ CollectComplete(c) \/ CollectCompleteFails(c)

ProcessStep(c, keepForParent) ==
  \/ ProcessingCancelled(c)
  \/ SkipParse(c) \/ Parse(c) \/ ParseFails(c) \/ SaveParsed(c)
  \/ SkipZip(c) \/ Zip(c) \/ ZipFails(c)
  \/ ReturnPartial(c) \/ SaveComplete(c) \/ SavePhaseFails(c)
  \/ Clean(c, keepForParent) \/ CleanFails(c, keepForParent)

Running(c) == pc[c] \notin {"off", "returned"}

\* Nothing in memory survives the process; the files do.
ProcessEnds ==
  /\ pc' = [c \in Cluster |-> "off"]
  /\ cp' = [c \in Cluster |-> Absent]
  /\ partial' = [c \in Cluster |-> FALSE]
  /\ result' = [c \in Cluster |-> NoResult]
  /\ cancelled' = FALSE

DiskAfterPowerLoss ==
  /\ ckpt' \in [Cluster -> UNION {ckptDisk[c] : c \in Cluster}]
  /\ \A c \in Cluster : ckpt'[c] \in ckptDisk[c]
  /\ ckptDisk' = [c \in Cluster |-> {ckpt'[c]}]
  /\ \E lost \in SUBSET {c \in Cluster : output[c].tail} :
       output' = [c \in Cluster |->
                    IF c \in lost THEN [output[c] EXCEPT !.tail = FALSE]
                    ELSE output[c]]
  /\ UNCHANGED <<json, zipped>>

Cancel ==
  /\ \E c \in Cluster : Running(c)
  /\ ~cancelled
  /\ cancelled' = TRUE
  /\ Fault
  /\ UNCHANGED <<files, saved, control>>

(* The stand-alone run of one cluster: no parent keeps the checkpoint. *)

\* Operator assumption: a new run does not reuse the output of a finished one
\* whose removed checkpoint a power loss could still bring back (default output
\* names are timestamped).
FreshPaths(c) == ckptDisk[c] = {Absent}

Begin(c) ==
  (FreshPaths(c) /\ BeginNew(c)) \/ BeginResume(c) \/ BeginResumeFinished(c)
  \/ BeginResumeFinishedFails(c)

Exit(c) == pc[c] = "returned" /\ ProcessEnds /\ UNCHANGED <<files, saved, faults>>

Kill == \E c \in Cluster : pc[c] # "off" /\ ProcessEnds /\ Fault /\ UNCHANGED <<files, saved>>

PowerLoss == DiskAfterPowerLoss /\ ProcessEnds /\ Fault

Step(c) == CollectStep(c) \/ ProcessStep(c, FALSE) \/ Exit(c)

Next ==
  \/ \E c \in Cluster : Begin(c) \/ Step(c)
  \/ Cancel \/ Kill \/ PowerLoss

Spec == Init /\ [][Next]_vars

\* The operator starts the collection and resumes it; a run's own steps go on.
LiveSpec == Spec /\ \A c \in Cluster : WF_vars(Begin(c)) /\ WF_vars(Step(c))

-----------------------------------------------------------------------------
(* Properties. *)

\* The files, and what a process knows.
FileTypes ==
  /\ output \in [Cluster -> FileType]
  /\ json \in [Cluster -> FileType]
  /\ zipped \in [Cluster -> FileType]

SavedTypes ==
  /\ ckpt \in [Cluster -> Checkpoint]
  /\ ckptDisk \in [Cluster -> SUBSET Checkpoint]
  /\ \A c \in Cluster : ckpt[c] \in ckptDisk[c]

Label == {"off", "connecting", "opened", "collecting", "committing", "processing",
          "saveParsed", "zipping", "completing", "cleaning", "returned"}

ResultType ==
  [phase : {"", "setup", "collecting", "collected", "parsed", "complete"}, ok : BOOLEAN]

RunTypes ==
  /\ pc \in [Cluster -> Label]
  /\ cp \in [Cluster -> Checkpoint]
  /\ partial \in [Cluster -> BOOLEAN]
  /\ result \in [Cluster -> ResultType]
  /\ cancelled \in BOOLEAN
  /\ faults \in 0..MaxFaults

TypeOK == FileTypes /\ SavedTypes /\ RunTypes

FullArtifact(f) == f.exists /\ f.jobs = Job /\ ~f.tail

\* A saved phase keeps its word after any crash: from "parsed" on, the artifact
\* it names is on disk and was built from every job and from nothing else, never
\* from an earlier partial collection (runSinglePipeline, zipParsedOutput).
ArtifactBehindPhase ==
  \A c \in Cluster : \A k \in ckptDisk[c] :
    ParseEnabled /\ Processed(k) => FullArtifact(Artifact(c, k))

FinalArtifact(c) ==
  IF ~ParseEnabled THEN output[c] ELSE IF ZipOutput THEN zipped[c] ELSE json[c]

\* A run that returned success left every job's resources in its final artifact
\* (in its output when nothing is parsed).
SuccessIsComplete == \A c \in Cluster : result[c].ok => FullArtifact(FinalArtifact(c))

\* No graph, not even one built from a partial collection, was parsed from
\* output that no checkpoint had committed.
OnlyCommittedParsed == \A c \in Cluster : ~json[c].tail /\ ~zipped[c].tail

\* Whatever checkpoint a crash leaves, the next process can resume from it.
AlwaysResumable ==
  \A c \in Cluster : \A k \in ckptDisk[c] : k.phase # "absent" => CanResume(c, k)

\* Once a crash can only leave a collected checkpoint, no later run contacts the
\* cluster or touches the output's committed jobs: post-processing is retried
\* without recollection.
NoRecollection ==
  [][\A c \in Cluster :
       (\A k \in ckptDisk[c] : Collected(k))
         => pc'[c] \notin {"connecting", "opened", "collecting", "committing"}
            /\ output'[c].jobs = Job]_vars

\* If failures stop and the operator keeps resuming, the run completes: at some
\* time its final artifact holds every job and no checkpoint is left.
EventuallyComplete ==
  \A c \in Cluster :
    <>(ckpt[c].phase = "absent" /\ FullArtifact(FinalArtifact(c)))

-----------------------------------------------------------------------------
(* The inductive invariant. *)

FinalName == IF ~ParseEnabled THEN "none" ELSE IF ZipOutput THEN "zip" ELSE "json"

\* The checkpoints this program saves: which artifact each phase names.
Written(k) ==
  /\ k.phase = "absent" => k = Absent
  /\ k.phase \in {"collecting", "collected"} => k.artifact = "none"
  /\ k.phase = "parsed" => ParseEnabled /\ k.artifact = "json"
  /\ k.phase = "complete" => k.artifact = FinalName

\* Every checkpoint a crash may leave keeps its word, and none is ahead of the
\* visible one; one that may vanish altogether has committed nothing.
Promised(c, k) ==
  /\ Written(k)
  /\ k.phase # "absent" => CanResume(c, k)
  /\ ParseEnabled /\ Processed(k) => FullArtifact(Artifact(c, k))

DiskPromises(c) ==
  /\ \A k \in ckptDisk[c] : Promised(c, k)
  /\ ckpt[c] # Absent => \A k \in ckptDisk[c] : k.done \subseteq ckpt[c].done
  /\ ckpt[c] # Absent /\ Absent \in ckptDisk[c] => ckpt[c].done = {}

\* Until the plan is saved the run works from the visible checkpoint, or from none.
Preparing(c) ==
  pc[c] \in {"connecting", "opened"} =>
    /\ ~partial[c]
    /\ cp[c].phase = "collecting" /\ cp[c].artifact = "none" /\ cp[c].done # Job
    /\ cp[c] = ckpt[c] \/ (cp[c] = NewCheckpoint /\ ckptDisk[c] = {Absent})
    /\ pc[c] = "opened" => output[c] = File(cp[c].done, FALSE)

\* Between commits memory, disk and output agree.
Collecting(c) ==
  pc[c] \in {"collecting", "committing"} =>
    /\ ~partial[c]
    /\ cp[c].phase = "collecting" /\ cp[c].artifact = "none"
    /\ ckptDisk[c] = {cp[c]}
    /\ pc[c] = "collecting" => output[c] = File(cp[c].done, FALSE)
    /\ pc[c] = "committing" => output[c] = File(cp[c].done, TRUE)

PostProcessing == {"processing", "saveParsed", "zipping", "completing", "cleaning"}

\* What is processed is what the checkpoint covers; after a partial collection no
\* checkpoint has advanced.
Processing(c) ==
  pc[c] \in PostProcessing =>
    /\ output[c] = File(cp[c].done, FALSE)
    /\ Absent \notin ckptDisk[c]
    /\ partial[c] => /\ pc[c] \notin {"saveParsed", "cleaning"}
                     /\ cp[c].phase = "collecting"
                     /\ \A k \in ckptDisk[c] : k.phase = "collecting"
    /\ ~partial[c] => cp[c].done = Job /\ Collected(cp[c])

\* The artifact follows the steps of a complete collection.
Advancing(c) ==
  pc[c] \in PostProcessing /\ ~partial[c] =>
    /\ pc[c] = "processing" => cp[c] = ckpt[c]
    /\ pc[c] = "saveParsed" => ParseEnabled /\ cp[c].phase = "parsed" /\ cp[c].artifact = "json"
    /\ pc[c] = "zipping" => Written(cp[c]) /\ (ParseEnabled => Processed(cp[c]))
    /\ pc[c] = "completing" => cp[c].artifact = FinalName
    /\ pc[c] = "cleaning" => cp[c].phase = "complete" /\ ckptDisk[c] = {cp[c]}
    /\ ParseEnabled /\ pc[c] # "processing" => FullArtifact(Artifact(c, cp[c]))

\* A success is reported at the end only, with the artifact and its checkpoints.
Succeeded(c) ==
  result[c].ok =>
    /\ pc[c] = "returned" /\ result[c].phase = "complete"
    /\ FullArtifact(FinalArtifact(c))
    /\ \A k \in ckptDisk[c] : k.phase \in {"complete", "absent"}

Sound(c) ==
  /\ DiskPromises(c) /\ Preparing(c) /\ Collecting(c) /\ Processing(c) /\ Advancing(c)
  /\ Succeeded(c)
  /\ ~json[c].tail /\ ~zipped[c].tail

IndInv == TypeOK /\ \A c \in Cluster : Sound(c)

=============================================================================
