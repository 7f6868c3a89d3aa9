--------------------------- MODULE MultiRunProofs ---------------------------
(***************************************************************************)
(* Proofs about Pipeline and MultiRun, for any number of clusters, jobs,   *)
(* slots and faults.  A step of one pipeline leaves the others alone       *)
(* (Unaffected), so the lemmas about steps speak of one cluster; those of  *)
(* the run rest on them: the parent checkpoint and those of the children   *)
(* agree.                                                                  *)
(***************************************************************************)
EXTENDS MultiRun, TLAPS, FiniteSetTheorems

\* A step of c changes nothing of another cluster.
FilesUnaffected(c) ==
  \A d \in Cluster \ {c} :
    output'[d] = output[d] /\ json'[d] = json[d] /\ zipped'[d] = zipped[d]
SavedUnaffected(c) ==
  \A d \in Cluster \ {c} : ckpt'[d] = ckpt[d] /\ ckptDisk'[d] = ckptDisk[d]
RunUnaffected(c) ==
  \A d \in Cluster \ {c} :
    pc'[d] = pc[d] /\ cp'[d] = cp[d] /\ partial'[d] = partial[d] /\ result'[d] = result[d]
Unaffected(c) == FilesUnaffected(c) /\ SavedUnaffected(c) /\ RunUnaffected(c)

Begins(c) ==
  BeginNew(c) \/ BeginResume(c) \/ BeginResumeFinished(c) \/ BeginResumeFinishedFails(c)

-----------------------------------------------------------------------------
(* Types. *)

LEMMA AbsentType == Absent \in Checkpoint /\ NewCheckpoint \in Checkpoint
<1>1. Absent \in Checkpoint
  BY DEF Absent, Checkpoint
<1> QED  BY <1>1 DEF NewCheckpoint, Checkpoint

LEMMA Shapes ==
  /\ Absent.phase = "absent" /\ Absent.done = {} /\ Absent.artifact = "none"
  /\ NewCheckpoint.phase = "collecting" /\ NewCheckpoint.done = {}
  /\ NewCheckpoint.artifact = "none"
<1>1. Absent.phase = "absent" /\ Absent.done = {} /\ Absent.artifact = "none"
  BY DEF Absent
<1> QED  BY <1>1, AbsentType DEF NewCheckpoint, Checkpoint

LEMMA FileIsTyped ==
  /\ NoFile \in FileType
  /\ \A jobs \in SUBSET Job, tail \in BOOLEAN : File(jobs, tail) \in FileType
BY DEF NoFile, File, FileType

LEMMA SavedStep ==
  ASSUME NEW c \in Cluster, NEW k \in Checkpoint, SavedTypes,
         SaveSucceeds(c, k) \/ SaveFails(c, k)
  PROVE  SavedTypes' /\ SavedUnaffected(c)
<1>1. CASE ckpt' = [ckpt EXCEPT ![c] = k] /\ ckptDisk' = [ckptDisk EXCEPT ![c] = {k}]
  BY <1>1 DEF SavedTypes, SavedUnaffected
<1>2. CASE ckpt' = [ckpt EXCEPT ![c] = k] /\ ckptDisk' = [ckptDisk EXCEPT ![c] = @ \cup {k}]
  BY <1>2 DEF SavedTypes, SavedUnaffected
<1>3. CASE UNCHANGED saved
  BY <1>3 DEF SavedTypes, SavedUnaffected, saved
<1> QED  BY <1>1, <1>2, <1>3 DEF SaveSucceeds, SaveFails

LEMMA SavedSame ==
  ASSUME NEW c \in Cluster, SavedTypes, UNCHANGED saved
  PROVE  SavedTypes' /\ SavedUnaffected(c)
BY DEF SavedTypes, SavedUnaffected, saved

\* What the checkpoint of c becomes is a checkpoint.
LEMMA PhaseTypes ==
  ASSUME NEW k \in Checkpoint
  PROVE  /\ [k EXCEPT !.phase = "collected"] \in Checkpoint
         /\ [k EXCEPT !.phase = "complete"] \in Checkpoint
         /\ [k EXCEPT !.artifact = "zip"] \in Checkpoint
         /\ [k EXCEPT !.artifact = "json", !.phase = "parsed"] \in Checkpoint
         /\ [k EXCEPT !.artifact = "json", !.phase = k.phase] \in Checkpoint
         /\ \A j \in Job : WithJob(k, j) \in Checkpoint
BY DEF Checkpoint, WithJob

LEMMA FaultTypes ==
  ASSUME RunTypes, Fault \/ UNCHANGED faults
  PROVE  faults' \in 0..MaxFaults
BY FlagAssumption DEF RunTypes, Fault

\* The three ways a step changes what the process knows.
LEMMA ReturnTypes ==
  ASSUME NEW c \in Cluster, RunTypes, UNCHANGED <<cp, partial, cancelled>>,
         NEW phase \in {"", "setup", "collecting", "collected", "parsed", "complete"},
         NEW ok \in BOOLEAN, Return(c, phase, ok), Fault \/ UNCHANGED faults
  PROVE  RunTypes' /\ RunUnaffected(c)
<1>1. pc' \in [Cluster -> Label] /\ \A d \in Cluster \ {c} : pc'[d] = pc[d]
  BY DEF Return, RunTypes, Label
<1>2. [phase |-> phase, ok |-> ok] \in ResultType
  BY DEF ResultType
<1>3. result' \in [Cluster -> ResultType] /\ \A d \in Cluster \ {c} : result'[d] = result[d]
  BY <1>2 DEF Return, RunTypes
<1> QED  BY <1>1, <1>3, FaultTypes DEF RunTypes, RunUnaffected

LEMMA GotoTypes ==
  ASSUME NEW c \in Cluster, RunTypes, NEW label \in Label, Goto(c, label),
         UNCHANGED <<partial, cancelled, faults>>,
         UNCHANGED cp \/ \E k \in Checkpoint : cp' = [cp EXCEPT ![c] = k]
  PROVE  RunTypes' /\ RunUnaffected(c)
BY DEF Goto, RunTypes, RunUnaffected

LEMMA BeginTypes ==
  ASSUME NEW c \in Cluster, TypeOK, Begins(c)
  PROVE  TypeOK' /\ Unaffected(c)
<1> USE DEF TypeOK, Unaffected
<1> DEFINE k == [ckpt[c] EXCEPT !.phase = "collected"]
<1>0. k \in Checkpoint /\ File(ckpt[c].done, FALSE) \in FileType
  BY FileIsTyped, PhaseTypes DEF SavedTypes, Checkpoint
<1> HIDE DEF k
<1>1. CASE BeginNew(c)
  <2>1. FileTypes' /\ FilesUnaffected(c) /\ RunTypes' /\ RunUnaffected(c)
    BY <1>1, AbsentType DEF BeginNew, Starts, Goto, files, FileTypes, FilesUnaffected,
                            RunTypes, RunUnaffected, Label
  <2> QED  BY <1>1, <2>1, SavedSame DEF BeginNew
<1>2. CASE BeginResume(c)
  <2>1. FileTypes' /\ FilesUnaffected(c) /\ RunTypes' /\ RunUnaffected(c)
    BY <1>2 DEF BeginResume, Starts, Goto, files, FileTypes, FilesUnaffected,
                RunTypes, RunUnaffected, SavedTypes, Label
  <2> QED  BY <1>2, <2>1, SavedSame DEF BeginResume
<1>3. CASE BeginResumeFinished(c)
  <2>1. FileTypes' /\ FilesUnaffected(c)
    BY <1>0, <1>3 DEF BeginResumeFinished, Restored, FileTypes, FilesUnaffected
  <2>2. RunTypes' /\ RunUnaffected(c)
    <3>1. PICK l \in Checkpoint : Starts(c, "processing", l) /\ UNCHANGED <<cancelled, faults>>
      BY <1>0, <1>3 DEF BeginResumeFinished, SavedTypes, k
    <3> QED  BY <3>1 DEF Starts, Goto, RunTypes, RunUnaffected, Label
  <2>3. SavedTypes' /\ SavedUnaffected(c)
    BY <1>0, <1>3, SavedSame, SavedStep DEF BeginResumeFinished, k
  <2> QED  BY <2>1, <2>2, <2>3
<1>4. CASE BeginResumeFinishedFails(c)
  <2>1. FileTypes' /\ FilesUnaffected(c)
    BY <1>0, <1>4 DEF BeginResumeFinishedFails, Restored, FileTypes, FilesUnaffected
  <2>2. RunTypes' /\ RunUnaffected(c)
    BY <1>4, ReturnTypes DEF BeginResumeFinishedFails
  <2>3. SavedTypes' /\ SavedUnaffected(c)
    BY <1>0, <1>4, SavedSame, SavedStep DEF BeginResumeFinishedFails, k
  <2> QED  BY <2>1, <2>2, <2>3
<1> QED  BY <1>1, <1>2, <1>3, <1>4 DEF Begins

LEMMA CollectTypes ==
  ASSUME NEW c \in Cluster, TypeOK, CollectStep(c)
  PROVE  TypeOK' /\ Unaffected(c)
<1> USE DEF TypeOK, Unaffected
<1>0. /\ cp[c] \in Checkpoint
      /\ [cp[c] EXCEPT !.phase = "collected"] \in Checkpoint
      /\ \A j \in Job : WithJob(cp[c], j) \in Checkpoint
  BY PhaseTypes DEF RunTypes
<1>a. FileTypes' /\ FilesUnaffected(c)
  <2>1. CASE UNCHANGED files
    BY <2>1 DEF files, FileTypes, FilesUnaffected
  <2>2. CASE /\ UNCHANGED <<json, zipped>>
             /\ \E f \in FileType : output' = [output EXCEPT ![c] = f]
    BY <2>2 DEF FileTypes, FilesUnaffected
  <2>3. ASSUME SetupFails(c) \/ OpenOutput(c)
        PROVE  UNCHANGED files \/ \E f \in FileType : /\ output' = [output EXCEPT ![c] = f]
                                                  /\ UNCHANGED <<json, zipped>>
    BY <1>0, <2>3, FileIsTyped DEF SetupFails, OpenOutput, files, Checkpoint
  <2>4. ASSUME AppendJob(c) \/ CommitJob(c) \/ CommitJobFails(c)
        PROVE  UNCHANGED files \/ \E f \in FileType : /\ output' = [output EXCEPT ![c] = f]
                                                  /\ UNCHANGED <<json, zipped>>
    <3>1. /\ [output[c] EXCEPT !.tail = TRUE] \in FileType
          /\ \A j \in Job : File(output[c].jobs \cup {j}, FALSE) \in FileType
      BY FileIsTyped DEF FileTypes, FileType
    <3> QED  BY <2>4, <3>1 DEF AppendJob, CommitJob, CommitJobFails, Committed, files
  <2>5. ASSUME ~(SetupFails(c) \/ OpenOutput(c)), ~(AppendJob(c) \/ CommitJob(c) \/ CommitJobFails(c))
        PROVE  UNCHANGED files
    BY <2>5 DEF CollectStep, SetupCancelled, SavePlan, SavePlanFails, CollectCancelled,
                CollectPartial, CollectComplete, CollectCompleteFails
  <2> QED  BY <2>1, <2>2, <2>3, <2>4, <2>5
<1>b. SavedTypes' /\ SavedUnaffected(c)
  <2>1. UNCHANGED saved \/ \E k \in Checkpoint : SaveSucceeds(c, k) \/ SaveFails(c, k)
    BY <1>0
    DEF CollectStep, SetupFails, SetupCancelled, OpenOutput, SavePlan, SavePlanFails, AppendJob,
        CommitJob, CommitJobFails, CollectCancelled, CollectPartial, CollectComplete,
        CollectCompleteFails, saved
  <2> QED  BY <2>1, SavedSame, SavedStep
<1>c. RunTypes' /\ RunUnaffected(c)
  <2>1. CASE SetupFails(c) \/ SetupCancelled(c) \/ SavePlanFails(c) \/ CommitJobFails(c)
               \/ CollectCancelled(c) \/ CollectCompleteFails(c)
    BY <2>1, ReturnTypes
    DEF SetupFails, SetupCancelled, SavePlanFails, CommitJobFails, CollectCancelled,
        CollectCompleteFails
  <2>2. CASE OpenOutput(c) \/ SavePlan(c) \/ AppendJob(c)
    BY <2>2, GotoTypes DEF OpenOutput, SavePlan, AppendJob, Label
  <2>3. CASE CommitJob(c)
    <3>1. Goto(c, "collecting") /\ UNCHANGED <<partial, cancelled, faults>>
      BY <2>3 DEF CommitJob
    <3>2. \E k \in Checkpoint : cp' = [cp EXCEPT ![c] = k]
      BY <1>0, <2>3 DEF CommitJob, WithJob
    <3> QED  BY <3>1, <3>2, GotoTypes DEF Label
  <2>4. CASE CollectComplete(c)
    BY <1>0, <2>4, GotoTypes DEF CollectComplete, Label
  <2>5. CASE CollectPartial(c)
    <3>1. faults' \in 0..MaxFaults
      BY <2>5, FaultTypes DEF CollectPartial
    <3> QED  BY <2>5, <3>1 DEF CollectPartial, Goto, RunTypes, RunUnaffected, SavedTypes, Label
  <2> QED  BY <2>1, <2>2, <2>3, <2>4, <2>5 DEF CollectStep
<1> QED  BY <1>a, <1>b, <1>c

LEMMA ProcessTypes ==
  ASSUME NEW c \in Cluster, NEW keep \in BOOLEAN, TypeOK, Processing(c), ProcessStep(c, keep)
  PROVE  TypeOK' /\ Unaffected(c)
<1> USE DEF TypeOK, Unaffected
<1>0. /\ cp[c] \in Checkpoint
      /\ [cp[c] EXCEPT !.phase = "complete"] \in Checkpoint
      /\ [cp[c] EXCEPT !.artifact = "zip"] \in Checkpoint
      /\ [cp[c] EXCEPT !.artifact = "json", !.phase = "parsed"] \in Checkpoint
      /\ [cp[c] EXCEPT !.artifact = "json", !.phase = @] \in Checkpoint
  BY PhaseTypes DEF RunTypes
<1>a. FileTypes' /\ FilesUnaffected(c)
  <2>1. UNCHANGED output
    BY DEF ProcessStep, ProcessingCancelled, SkipParse, Parse, ParseFails, SaveParsed, SkipZip,
           Zip, ZipFails, ReturnPartial, SaveComplete, SavePhaseFails, Clean, CleanFails, files
  <2>2. json' = json \/ \E f \in FileType : json' = [json EXCEPT ![c] = f]
    BY FileIsTyped
    DEF ProcessStep, ProcessingCancelled, SkipParse, Parse, ParseFails, SaveParsed, SkipZip,
        Zip, ZipFails, ReturnPartial, SaveComplete, SavePhaseFails, Clean, CleanFails, files,
        FileTypes
  <2>3. zipped' = zipped \/ \E f \in FileType : zipped' = [zipped EXCEPT ![c] = f]
    BY DEF ProcessStep, ProcessingCancelled, SkipParse, Parse, ParseFails, SaveParsed, SkipZip,
           Zip, ZipFails, ReturnPartial, SaveComplete, SavePhaseFails, Clean, CleanFails, files,
           FileTypes
  <2> QED  BY <2>1, <2>2, <2>3 DEF FileTypes, FilesUnaffected
<1>b. SavedTypes' /\ SavedUnaffected(c)
  <2>1. CASE UNCHANGED saved \/ \E k \in Checkpoint : SaveSucceeds(c, k) \/ SaveFails(c, k)
    BY <2>1, SavedSame, SavedStep
  <2>2. CASE /\ ckpt' = [ckpt EXCEPT ![c] = Absent]
             /\ ckptDisk' = [ckptDisk EXCEPT ![c] = @ \cup {Absent}]
    BY <2>2, AbsentType DEF SavedTypes, SavedUnaffected
  <2>3. ASSUME ~Clean(c, keep)
        PROVE  UNCHANGED saved \/ \E k \in Checkpoint : SaveSucceeds(c, k) \/ SaveFails(c, k)
    BY <1>0, <2>3
    DEF ProcessStep, ProcessingCancelled, SkipParse, Parse, ParseFails, SaveParsed, SkipZip,
        Zip, ZipFails, ReturnPartial, SaveComplete, SavePhaseFails, CleanFails, saved
  <2>4. CASE Clean(c, keep)
    BY <2>1, <2>2, <2>4 DEF Clean
  <2> QED  BY <2>1, <2>3, <2>4
<1>c. RunTypes' /\ RunUnaffected(c)
  <2>1. CASE pc[c] \in PostProcessing
    <3>1. cp[c].phase \in {"collecting", "collected", "parsed", "complete"}
      BY <2>1 DEF Processing, Collected
    <3>2. CASE ProcessingCancelled(c) \/ ParseFails(c) \/ ZipFails(c) \/ ReturnPartial(c)
               \/ SavePhaseFails(c) \/ Clean(c, keep) \/ CleanFails(c, keep)
      BY <3>1, <3>2, ReturnTypes
      DEF ProcessingCancelled, ParseFails, ZipFails, ReturnPartial, SavePhaseFails, Clean,
          CleanFails
    <3>3. CASE SkipParse(c) \/ SaveParsed(c) \/ SkipZip(c)
      BY <3>3, GotoTypes DEF SkipParse, SaveParsed, SkipZip, Label
    <3>4. CASE Parse(c)
      <4>1. \E k \in Checkpoint : cp' = [cp EXCEPT ![c] = k]
        BY <1>0, <3>4 DEF Parse, RunTypes
      <4> QED  BY <3>4, <4>1, GotoTypes DEF Parse, Label
    <3>5. CASE Zip(c)
      BY <1>0, <3>5, GotoTypes DEF Zip, Label
    <3>6. CASE SaveComplete(c)
      BY <1>0, <3>6, GotoTypes DEF SaveComplete, Label
    <3> QED  BY <3>2, <3>3, <3>4, <3>5, <3>6 DEF ProcessStep
  <2>2. pc[c] \in PostProcessing
    BY DEF ProcessStep, ProcessingCancelled, SkipParse, Parse, ParseFails, SaveParsed, SkipZip,
           Zip, ZipFails, ReturnPartial, SaveComplete, SavePhaseFails, Clean, CleanFails,
           PostProcessing
  <2> QED  BY <2>1, <2>2
<1> QED  BY <1>a, <1>b, <1>c

-----------------------------------------------------------------------------
(* What is on disk. *)

\* A step that saves nothing keeps the promises if output and artifacts still do.
LEMMA PromisesKept ==
  ASSUME NEW c \in Cluster, DiskPromises(c),
         ckpt'[c] = ckpt[c], ckptDisk'[c] = ckptDisk[c],
         \A k \in ckptDisk[c] : k.phase # "absent" =>
             output'[c].exists /\ k.done \subseteq output'[c].jobs,
         \A k \in ckptDisk[c] : ParseEnabled /\ Processed(k) =>
             (FullArtifact(Artifact(c, k)) => FullArtifact(Artifact(c, k))')
  PROVE  DiskPromises(c)'
<1>1. \A k \in ckptDisk[c] : Promised(c, k)'
  BY DEF DiskPromises, Promised, CanResume
<1> QED  BY <1>1 DEF DiskPromises

\* A successful save leaves one checkpoint.
LEMMA PromisesSaved ==
  ASSUME NEW c \in Cluster, NEW k \in Checkpoint, TypeOK, SaveSucceeds(c, k),
         k.phase # "absent", Promised(c, k)'
  PROVE  DiskPromises(c)' /\ ckpt'[c] = k /\ ckptDisk'[c] = {k}
<1>1. ckpt'[c] = k /\ ckptDisk'[c] = {k}
  BY DEF SaveSucceeds, TypeOK, SavedTypes
<1>2. k # Absent
  BY Shapes
<1> QED  BY <1>1, <1>2 DEF DiskPromises

\* A failed save leaves the old ones, or the new one too.
LEMMA PromisesSaveFailed ==
  ASSUME NEW c \in Cluster, NEW k \in Checkpoint, TypeOK, SaveFails(c, k), DiskPromises(c),
         \A l \in ckptDisk[c] : Promised(c, l)' /\ l.done \subseteq k.done,
         Absent \in ckptDisk[c] => k.done = {},
         k.phase # "absent", Promised(c, k)'
  PROVE  DiskPromises(c)' /\ ckptDisk'[c] \subseteq ckptDisk[c] \cup {k}
<1>1. CASE ckpt'[c] = ckpt[c] /\ ckptDisk'[c] = ckptDisk[c]
  BY <1>1 DEF DiskPromises
<1>2. CASE ckpt'[c] = k /\ ckptDisk'[c] = ckptDisk[c] \cup {k}
  BY <1>2, Shapes DEF DiskPromises
<1> QED  BY <1>1, <1>2 DEF SaveFails, TypeOK, SavedTypes, saved

LEMMA OthersSound ==
  ASSUME NEW c \in Cluster, NEW d \in Cluster \ {c}, Unaffected(c), Sound(d)
  PROVE  Sound(d)'
<1> USE DEF Unaffected, FilesUnaffected, SavedUnaffected, RunUnaffected, Sound
<1>1. DiskPromises(d)'
  BY DEF DiskPromises, Promised, CanResume, Artifact
<1>2. Preparing(d)' /\ Collecting(d)' /\ Processing(d)'
  BY DEF Preparing, Collecting, Processing
<1>3. Advancing(d)'
  BY DEF Advancing, Artifact
<1>4. Succeeded(d)'
  BY DEF Succeeded, FinalArtifact
<1> QED  BY <1>1, <1>2, <1>3, <1>4

LEMMA SameSound ==
  ASSUME NEW c \in Cluster, Sound(c), UNCHANGED <<files, saved, control>>
  PROVE  Sound(c)'
<1> USE DEF files, saved, control, Sound
<1>1. DiskPromises(c)'
  BY DEF DiskPromises, Promised, CanResume, Artifact
<1>2. Preparing(c)' /\ Collecting(c)' /\ Processing(c)'
  BY DEF Preparing, Collecting, Processing
<1>3. Advancing(c)'
  BY DEF Advancing, Artifact
<1>4. Succeeded(c)'
  BY DEF Succeeded, FinalArtifact
<1> QED  BY <1>1, <1>2, <1>3, <1>4

-----------------------------------------------------------------------------
(* The steps of one pipeline keep its invariant. *)

\* A new run: nothing is on disk yet.
LEMMA BeginNewSound ==
  ASSUME NEW c \in Cluster, TypeOK, Sound(c), BeginNew(c), ckptDisk[c] = {Absent}
  PROVE  Sound(c)'
<1> USE DEF TypeOK, FileTypes, SavedTypes, RunTypes, BeginNew, Starts, Goto, files, saved, Sound
<1>1. /\ output' = output /\ json' = json /\ zipped' = zipped
      /\ ckpt' = ckpt /\ ckptDisk' = ckptDisk /\ result' = result
      /\ pc[c] = "off" /\ pc'[c] = "connecting"
      /\ cp'[c] = NewCheckpoint /\ partial'[c] = FALSE
  OBVIOUS
<1>2. DiskPromises(c)'
  BY <1>1 DEF DiskPromises, Promised, CanResume, Artifact
<1>3. Preparing(c)' /\ Collecting(c)' /\ Processing(c)' /\ Advancing(c)'
  BY <1>1, Shapes, PlanAssumption
  DEF Preparing, Collecting, Processing, Advancing, PostProcessing
<1>4. Succeeded(c)'
  BY <1>1 DEF Succeeded
<1> QED  BY <1>1, <1>2, <1>3, <1>4

LEMMA BeginResumeSound ==
  ASSUME NEW c \in Cluster, TypeOK, Sound(c), BeginResume(c)
  PROVE  Sound(c)'
<1> USE DEF TypeOK, FileTypes, SavedTypes, RunTypes, BeginResume, Starts, Goto, files, saved, Sound
<1>1. /\ output' = output /\ json' = json /\ zipped' = zipped
      /\ ckpt' = ckpt /\ ckptDisk' = ckptDisk /\ result' = result
      /\ pc[c] = "off" /\ pc'[c] = "connecting"
      /\ cp'[c] = ckpt[c] /\ partial'[c] = FALSE
      /\ CanResume(c, ckpt[c]) /\ ckpt[c].done # Job
  OBVIOUS
<1>2. DiskPromises(c)'
  BY <1>1 DEF DiskPromises, Promised, CanResume, Artifact
<1>3. ckpt[c].phase = "collecting" /\ ckpt[c].artifact = "none"
  BY <1>1 DEF CanResume, Collected, DiskPromises, Promised, Written, Checkpoint
<1>4. Preparing(c)' /\ Collecting(c)' /\ Processing(c)' /\ Advancing(c)'
  BY <1>1, <1>3 DEF Preparing, Collecting, Processing, Advancing, PostProcessing
<1>5. Succeeded(c)'
  BY <1>1 DEF Succeeded
<1> QED  BY <1>1, <1>2, <1>4, <1>5

\* With no job left the run goes straight to post-processing.
LEMMA BeginResumeFinishedSound ==
  ASSUME NEW c \in Cluster, TypeOK, Sound(c), BeginResumeFinished(c)
  PROVE  Sound(c)'
<1> USE DEF Sound
<1>1. /\ output'[c] = File(Job, FALSE) /\ json' = json /\ zipped' = zipped
      /\ result' = result /\ pc[c] = "off"
      /\ CanResume(c, ckpt[c]) /\ ckpt[c].done = Job /\ ckpt[c] \in ckptDisk[c]
      /\ ckpt[c] \in Checkpoint
  BY DEF TypeOK, FileTypes, SavedTypes, BeginResumeFinished, Starts, Goto, Restored
<1>2. \E k \in Checkpoint :
        /\ Starts(c, "processing", k)
        /\ k.done = Job /\ Collected(k)
        /\ \/ UNCHANGED saved /\ k = ckpt[c]
           \/ /\ ~Collected(ckpt[c]) /\ SaveSucceeds(c, k)
              /\ k.phase = "collected" /\ k.artifact = ckpt[c].artifact
  <2>1. CASE Collected(ckpt[c])
    BY <1>1, <2>1 DEF BeginResumeFinished
  <2>2. CASE ~Collected(ckpt[c])
    <3> DEFINE k == [ckpt[c] EXCEPT !.phase = "collected"]
    <3>1. k \in Checkpoint /\ k.phase = "collected" /\ k.done = Job
          /\ k.artifact = ckpt[c].artifact
      BY <1>1 DEF Checkpoint
    <3>2. SaveSucceeds(c, k) /\ Starts(c, "processing", k)
      BY <2>2 DEF BeginResumeFinished
    <3> HIDE DEF k
    <3> QED  BY <2>2, <3>1, <3>2 DEF Collected
  <2> QED  BY <2>1, <2>2
<1>3. PICK k \in Checkpoint :
        /\ Starts(c, "processing", k)
        /\ k.done = Job /\ Collected(k)
        /\ \/ UNCHANGED saved /\ k = ckpt[c]
           \/ /\ ~Collected(ckpt[c]) /\ SaveSucceeds(c, k)
              /\ k.phase = "collected" /\ k.artifact = ckpt[c].artifact
  BY <1>2
<1>4. pc'[c] = "processing" /\ cp'[c] = k /\ partial'[c] = FALSE
  BY <1>3 DEF Starts, Goto, TypeOK, RunTypes
<1>5. \A l \in ckptDisk[c] : l.phase # "absent" =>
        output'[c].exists /\ l.done \subseteq output'[c].jobs
  BY <1>1 DEF File, TypeOK, SavedTypes, Checkpoint
<1>6. Promised(c, ckpt[c])
  BY <1>1 DEF DiskPromises
<1>7. Absent \notin ckptDisk[c]
  BY <1>1, PlanAssumption, Shapes DEF DiskPromises, CanResume
<1>8. CASE UNCHANGED saved /\ k = ckpt[c]
  <2>1. ckpt'[c] = ckpt[c] /\ ckptDisk'[c] = ckptDisk[c]
    BY <1>8 DEF saved
  <2>2. DiskPromises(c)'
    BY <1>1, <1>5, <2>1, PromisesKept DEF Artifact
  <2> QED
    BY <1>1, <1>3, <1>4, <1>7, <1>8, <2>1, <2>2
    DEF Preparing, Collecting, Processing, Advancing, Succeeded, PostProcessing
<1>9. CASE /\ ~Collected(ckpt[c]) /\ SaveSucceeds(c, k)
           /\ k.phase = "collected" /\ k.artifact = ckpt[c].artifact
  <2>1. ckpt[c].phase = "collecting"
    BY <1>1, <1>9 DEF Collected, CanResume, Checkpoint
  <2>2. Promised(c, k)'
    BY <1>1, <1>3, <1>6, <1>9, <2>1 DEF Promised, Written, CanResume, File, Processed
  <2>3. DiskPromises(c)' /\ ckpt'[c] = k /\ ckptDisk'[c] = {k}
    BY <1>9, <2>2, PromisesSaved
  <2> QED
    BY <1>1, <1>3, <1>4, <1>9, <2>3, Shapes
    DEF Preparing, Collecting, Processing, Advancing, Succeeded, PostProcessing
<1> QED  BY <1>3, <1>8, <1>9

LEMMA BeginResumeFinishedFailsSound ==
  ASSUME NEW c \in Cluster, TypeOK, Sound(c), BeginResumeFinishedFails(c)
  PROVE  Sound(c)'
<1> USE DEF Sound
<1>1. /\ json' = json /\ zipped' = zipped /\ pc'[c] = "returned"
      /\ result'[c].ok = FALSE
      /\ CanResume(c, ckpt[c]) /\ ckpt[c].done = Job /\ ckpt[c] \in ckptDisk[c]
      /\ ckpt[c] \in Checkpoint
  BY DEF TypeOK, SavedTypes, RunTypes, BeginResumeFinishedFails, Return
<1>2. Preparing(c)' /\ Collecting(c)' /\ Processing(c)' /\ Advancing(c)' /\ Succeeded(c)'
  BY <1>1 DEF Preparing, Collecting, Processing, Advancing, Succeeded, PostProcessing
<1>3. Promised(c, ckpt[c])
  BY <1>1 DEF DiskPromises
<1>4. DiskPromises(c)'
  <2>1. CASE UNCHANGED <<output, saved>>
    BY <1>1, <2>1 DEF saved, DiskPromises, Promised, CanResume, Artifact
  <2>2. CASE /\ ~Collected(ckpt[c]) /\ Restored(c)
             /\ SaveFails(c, [ckpt[c] EXCEPT !.phase = "collected"])
    <3>1. PICK k \in Checkpoint : k = [ckpt[c] EXCEPT !.phase = "collected"]
      BY <1>1, PhaseTypes
    <3>2. k.phase = "collected" /\ k.done = Job /\ k.artifact = ckpt[c].artifact
      BY <1>1, <3>1 DEF Checkpoint
    <3>3. output'[c] = File(Job, FALSE)
      BY <1>1, <2>2 DEF Restored, TypeOK, FileTypes
    <3>4. ckpt[c].phase = "collecting"
      BY <1>1, <2>2 DEF Collected, CanResume, Checkpoint
    <3>5. Promised(c, k)'
      BY <1>3, <3>2, <3>3, <3>4 DEF Promised, Written, CanResume, File, Processed
    <3>6. \A l \in ckptDisk[c] : Promised(c, l)' /\ l.done \subseteq k.done
      BY <1>1, <3>2, <3>3
      DEF DiskPromises, Promised, CanResume, File, Artifact, TypeOK, SavedTypes, Checkpoint
    <3>7. Absent \notin ckptDisk[c]
      BY <1>1, PlanAssumption, Shapes DEF DiskPromises, CanResume
    <3>8. SaveFails(c, k)
      BY <2>2, <3>1
    <3> QED  BY <3>2, <3>5, <3>6, <3>7, <3>8, PromisesSaveFailed
  <2> QED  BY <2>1, <2>2 DEF BeginResumeFinishedFails
<1> QED  BY <1>1, <1>2, <1>4

\* An early return asks only for what is on disk.
LEMMA ReturnSound ==
  ASSUME NEW c \in Cluster, NEW phase, TypeOK, Return(c, phase, FALSE), DiskPromises(c)',
         ~json'[c].tail, ~zipped'[c].tail
  PROVE  Sound(c)'
<1>1. pc'[c] = "returned" /\ result'[c].ok = FALSE
  BY DEF Return, TypeOK, RunTypes
<1> QED
  BY <1>1 DEF Sound, Preparing, Collecting, Processing, Advancing, Succeeded, PostProcessing

\* Until the plan is saved.
LEMMA PrepareSound ==
  ASSUME NEW c \in Cluster, TypeOK, Sound(c),
         SetupFails(c) \/ SetupCancelled(c) \/ OpenOutput(c) \/ SavePlan(c) \/ SavePlanFails(c)
  PROVE  Sound(c)'
<1> USE DEF Sound
<1>1. /\ json' = json /\ zipped' = zipped
      /\ pc[c] \in {"connecting", "opened"}
      /\ ~partial[c] /\ ~result[c].ok
      /\ cp[c].phase = "collecting" /\ cp[c].artifact = "none"
      /\ cp[c] = ckpt[c] \/ (cp[c] = NewCheckpoint /\ ckptDisk[c] = {Absent})
      /\ cp[c] \in Checkpoint /\ cp[c].done \subseteq Job /\ cp[c].done # Job
  BY DEF SetupFails, SetupCancelled, OpenOutput, SavePlan, SavePlanFails, files, Preparing,
         Succeeded, TypeOK, RunTypes, Checkpoint
<1>2. \A k \in ckptDisk[c] : k.done \subseteq cp[c].done /\ k.phase # "parsed" /\ k.phase # "complete"
  BY <1>1, Shapes DEF DiskPromises, Promised, CanResume, Collected, TypeOK, SavedTypes, Checkpoint
<1>3. Absent \in ckptDisk[c] => cp[c].done = {}
  BY <1>1, Shapes DEF DiskPromises
<1>4. ASSUME output'[c] = File(cp[c].done, FALSE), UNCHANGED saved
      PROVE  DiskPromises(c)'
  BY <1>2, <1>4, PromisesKept DEF saved, File, Processed
<1>5. CASE SetupFails(c)
  <2>1. output'[c] = output[c] \/ output'[c] = File(cp[c].done, FALSE)
    BY <1>5 DEF SetupFails, TypeOK, FileTypes
  <2>2. ASSUME output'[c] = output[c]
        PROVE  DiskPromises(c)'
    BY <1>5, <1>1, <2>2 DEF SetupFails, saved, DiskPromises, Promised, CanResume, Artifact
  <2> QED  BY <1>1, <1>4, <1>5, <2>1, <2>2, ReturnSound DEF SetupFails
<1>6. CASE SetupCancelled(c)
  <2>1. DiskPromises(c)'
    BY <1>6 DEF SetupCancelled, files, saved, DiskPromises, Promised, CanResume, Artifact
  <2> QED  BY <1>1, <1>6, <2>1, ReturnSound DEF SetupCancelled
<1>7. CASE OpenOutput(c)
  <2>1. /\ output'[c] = File(cp[c].done, FALSE) /\ UNCHANGED <<saved, cp, partial, result>>
        /\ pc'[c] = "opened"
    BY <1>7 DEF OpenOutput, Goto, TypeOK, FileTypes, RunTypes
  <2>2. DiskPromises(c)'
    BY <1>4, <2>1
  <2> QED
    BY <1>1, <2>1, <2>2
    DEF saved, Preparing, Collecting, Processing, Advancing, Succeeded, PostProcessing
<1>8. ASSUME pc[c] = "opened", UNCHANGED files, NEW k \in Checkpoint, k = cp[c]
      PROVE  /\ Promised(c, k)'
             /\ \A l \in ckptDisk[c] : Promised(c, l)' /\ l.done \subseteq k.done
             /\ output'[c] = File(k.done, FALSE)
  <2>1. output'[c] = File(k.done, FALSE)
    BY <1>8 DEF files, Preparing
  <2>2. Promised(c, k)'
    BY <1>1, <1>8, <2>1 DEF Promised, Written, CanResume, Collected, Processed, File
  <2>3. \A l \in ckptDisk[c] : Promised(c, l)'
    BY <1>2, <1>8, <2>1 DEF DiskPromises, Promised, CanResume, Processed, File
  <2> QED  BY <1>2, <1>8, <2>1, <2>2, <2>3
<1>9. CASE SavePlan(c)
  <2>1. PICK k \in Checkpoint : k = cp[c]
    BY <1>1
  <2>2. SaveSucceeds(c, k) /\ UNCHANGED <<files, cp, partial, result>> /\ pc[c] = "opened"
        /\ pc'[c] = "collecting"
    BY <1>9, <2>1 DEF SavePlan, Goto, TypeOK, RunTypes
  <2>3. DiskPromises(c)' /\ ckptDisk'[c] = {k} /\ output'[c] = File(k.done, FALSE)
    BY <1>1, <1>8, <2>1, <2>2, PromisesSaved
  <2> QED
    BY <1>1, <2>1, <2>2, <2>3
    DEF Preparing, Collecting, Processing, Advancing, Succeeded, PostProcessing
<1>10. CASE SavePlanFails(c)
  <2>1. PICK k \in Checkpoint : k = cp[c]
    BY <1>1
  <2>2. SaveFails(c, k) /\ UNCHANGED files /\ pc[c] = "opened"
    BY <1>10, <2>1 DEF SavePlanFails
  <2>3. DiskPromises(c)'
    BY <1>1, <1>3, <1>8, <2>1, <2>2, PromisesSaveFailed
  <2> QED  BY <1>1, <1>10, <2>3, ReturnSound DEF SavePlanFails
<1> QED  BY <1>5, <1>6, <1>7, <1>9, <1>10

\* While jobs are committed.
LEMMA GatherSound ==
  ASSUME NEW c \in Cluster, TypeOK, Sound(c),
         \/ AppendJob(c) \/ CommitJob(c) \/ CommitJobFails(c) \/ CollectCancelled(c)
         \/ CollectPartial(c) \/ CollectComplete(c) \/ CollectCompleteFails(c)
  PROVE  Sound(c)'
<1> USE DEF Sound
<1>1. /\ json' = json /\ zipped' = zipped
      /\ pc[c] \in {"collecting", "committing"}
      /\ ~partial[c] /\ ~result[c].ok
      /\ cp[c].phase = "collecting" /\ cp[c].artifact = "none"
      /\ ckptDisk[c] = {cp[c]} /\ ckpt[c] = cp[c]
      /\ output[c].exists /\ output[c].jobs = cp[c].done
      /\ pc[c] = "collecting" => output[c] = File(cp[c].done, FALSE)
      /\ cp[c] \in Checkpoint /\ cp[c].done \subseteq Job
      /\ cp[c] # Absent
  <2>1. json' = json /\ zipped' = zipped /\ pc[c] \in {"collecting", "committing"}
    BY DEF AppendJob, CommitJob, CommitJobFails, CollectCancelled, CollectPartial,
           CollectComplete, CollectCompleteFails, files
  <2>2. /\ ~partial[c] /\ ~result[c].ok
        /\ cp[c].phase = "collecting" /\ cp[c].artifact = "none" /\ ckptDisk[c] = {cp[c]}
    BY <2>1 DEF Collecting, Succeeded
  <2>3. output[c].exists /\ output[c].jobs = cp[c].done
    BY <2>1 DEF Collecting, File
  <2>4. cp[c] \in Checkpoint /\ cp[c].done \subseteq Job /\ ckpt[c] = cp[c]
    BY <2>2 DEF TypeOK, RunTypes, SavedTypes, Checkpoint
  <2>5. pc[c] = "collecting" => output[c] = File(cp[c].done, FALSE)
    BY DEF Collecting
  <2> QED  BY <2>1, <2>2, <2>3, <2>4, <2>5, Shapes
<1>2. ASSUME NEW k \in Checkpoint, k.phase = "collecting", k.artifact = "none",
             output'[c].exists, k.done \subseteq output'[c].jobs
      PROVE  Promised(c, k)'
  BY <1>2 DEF Promised, Written, CanResume, Collected, Processed
<1>3. ASSUME UNCHANGED saved, output'[c].exists, output'[c].jobs = cp[c].done
      PROVE  DiskPromises(c)'
  BY <1>1, <1>3, PromisesKept DEF saved, Processed
<1>4. CASE AppendJob(c)
  <2>1. /\ pc[c] = "collecting" /\ output'[c] = [output[c] EXCEPT !.tail = TRUE]
        /\ UNCHANGED <<saved, cp, partial, result>> /\ pc'[c] = "committing"
    BY <1>4 DEF AppendJob, Goto, TypeOK, FileTypes, RunTypes
  <2>2. output'[c] = File(cp[c].done, TRUE)
    BY <1>1, <2>1 DEF File
  <2>3. DiskPromises(c)'
    BY <1>1, <1>3, <2>1, <2>2 DEF File
  <2> QED
    BY <1>1, <2>1, <2>2, <2>3
    DEF saved, Preparing, Collecting, Processing, Advancing, Succeeded, PostProcessing
<1>5. ASSUME NEW j \in Job, NEW k \in Checkpoint, k = WithJob(cp[c], j), Committed(c, j)
      PROVE  /\ Promised(c, k)' /\ k.phase = "collecting" /\ k.artifact = "none"
             /\ \A l \in ckptDisk[c] : Promised(c, l)' /\ l.done \subseteq k.done
             /\ output'[c] = File(k.done, FALSE)
  <2>1. k.phase = "collecting" /\ k.artifact = "none" /\ k.done = cp[c].done \cup {j}
    BY <1>1, <1>5 DEF WithJob, Checkpoint
  <2>2. output'[c] = File(k.done, FALSE)
    BY <1>1, <1>5, <2>1 DEF Committed, File, TypeOK, FileTypes
  <2>3. output'[c].exists /\ k.done = output'[c].jobs
    BY <2>2 DEF File
  <2>4. Promised(c, k)'
    BY <1>2, <2>1, <2>3
  <2>5. \A l \in ckptDisk[c] : Promised(c, l)' /\ l.done \subseteq k.done
    BY <1>1, <1>2, <2>1, <2>3
  <2> QED  BY <2>1, <2>2, <2>4, <2>5
<1>6. CASE CommitJob(c)
  <2>1. PICK j \in Job : Committed(c, j) /\ cp' = [cp EXCEPT ![c] = WithJob(@, j)]
                          /\ SaveSucceeds(c, WithJob(cp[c], j))
    BY <1>6 DEF CommitJob
  <2>2. PICK k \in Checkpoint : k = WithJob(cp[c], j)
    BY <1>1, PhaseTypes
  <2>3. cp'[c] = k /\ SaveSucceeds(c, k)
    BY <2>1, <2>2 DEF TypeOK, RunTypes
  <2>4. DiskPromises(c)' /\ ckptDisk'[c] = {k} /\ output'[c] = File(k.done, FALSE)
        /\ k.phase = "collecting" /\ k.artifact = "none"
    BY <1>5, <2>1, <2>2, <2>3, PromisesSaved
  <2>5. pc'[c] = "collecting" /\ UNCHANGED <<partial, result>>
    BY <1>6 DEF CommitJob, Goto, TypeOK, RunTypes
  <2> QED
    BY <1>1, <2>3, <2>4, <2>5
    DEF Preparing, Collecting, Processing, Advancing, Succeeded, PostProcessing
<1>7. CASE CommitJobFails(c)
  <2>1. CASE UNCHANGED <<output, saved>>
    BY <1>1, <1>3, <1>7, <2>1, ReturnSound DEF CommitJobFails, File
  <2>2. CASE \E j \in Job \ cp[c].done : Committed(c, j) /\ SaveFails(c, WithJob(cp[c], j))
    <3>1. PICK j \in Job : Committed(c, j) /\ SaveFails(c, WithJob(cp[c], j))
      BY <2>2
    <3>2. PICK k \in Checkpoint : k = WithJob(cp[c], j)
      BY <1>1, PhaseTypes
    <3>3. Promised(c, k)' /\ k.phase # "absent"
          /\ \A l \in ckptDisk[c] : Promised(c, l)' /\ l.done \subseteq k.done
      BY <1>5, <3>1, <3>2
    <3>4. Absent \notin ckptDisk[c] /\ SaveFails(c, k)
      BY <1>1, <3>1, <3>2
    <3>5. DiskPromises(c)'
      BY <3>3, <3>4, PromisesSaveFailed
    <3> QED  BY <1>1, <1>7, <3>5, ReturnSound DEF CommitJobFails
  <2> QED  BY <1>7, <2>1, <2>2 DEF CommitJobFails
<1>8. CASE CollectCancelled(c)
  BY <1>1, <1>3, <1>8, ReturnSound DEF CollectCancelled, files, File
<1>9. CASE CollectPartial(c)
  <2>1. /\ pc[c] = "collecting" /\ UNCHANGED <<output, saved, result>>
        /\ pc'[c] = "processing" /\ cp'[c] = cp[c] /\ partial'[c] = TRUE
    BY <1>1, <1>9 DEF CollectPartial, Goto, files, TypeOK, RunTypes
  <2>2. DiskPromises(c)'
    BY <1>1, <1>3, <2>1 DEF File
  <2> QED
    BY <1>1, <2>1, <2>2
    DEF saved, Preparing, Collecting, Processing, Advancing, Succeeded, PostProcessing
<1>10. ASSUME CollectComplete(c) \/ CollectCompleteFails(c), NEW k \in Checkpoint,
              k = [cp[c] EXCEPT !.phase = "collected"]
       PROVE  /\ k.phase = "collected" /\ k.artifact = "none" /\ k.done = Job
              /\ UNCHANGED output /\ output[c] = File(Job, FALSE)
              /\ Promised(c, k)' /\ Absent \notin ckptDisk[c]
              /\ \A l \in ckptDisk[c] : Promised(c, l)' /\ l.done \subseteq k.done
  <2>1. /\ k.phase = "collected" /\ k.artifact = "none" /\ k.done = Job /\ cp[c].done = Job
        /\ UNCHANGED output /\ pc[c] = "collecting"
    BY <1>1, <1>10 DEF CollectComplete, CollectCompleteFails, files, Checkpoint
  <2>2. output'[c] = File(Job, FALSE) /\ output'[c].exists /\ output'[c].jobs = Job
    BY <1>1, <2>1 DEF File
  <2>3. Promised(c, k)'
    BY <2>1, <2>2 DEF Promised, Written, CanResume, Processed
  <2>4. \A l \in ckptDisk[c] : Promised(c, l)' /\ l.done \subseteq k.done
    BY <1>1, <1>2, <2>1, <2>2
  <2> QED  BY <1>1, <2>1, <2>2, <2>3, <2>4
<1>11. CASE CollectComplete(c)
  <2>1. PICK k \in Checkpoint : k = [cp[c] EXCEPT !.phase = "collected"]
    BY <1>1, PhaseTypes
  <2>2. /\ SaveSucceeds(c, k) /\ cp'[c] = k /\ UNCHANGED <<partial, result>>
        /\ pc'[c] = "processing"
    BY <1>11, <2>1 DEF CollectComplete, Goto, TypeOK, RunTypes
  <2>3. /\ k.phase = "collected" /\ k.done = Job /\ output'[c] = File(Job, FALSE)
        /\ Promised(c, k)'
    BY <1>10, <1>11, <2>1
  <2>4. DiskPromises(c)' /\ ckptDisk'[c] = {k} /\ ckpt'[c] = k
    BY <2>2, <2>3, PromisesSaved
  <2> QED
    BY <1>1, <2>2, <2>3, <2>4, Shapes
    DEF Preparing, Collecting, Processing, Advancing, Succeeded, PostProcessing, Collected
<1>12. CASE CollectCompleteFails(c)
  <2>1. PICK k \in Checkpoint : k = [cp[c] EXCEPT !.phase = "collected"]
    BY <1>1, PhaseTypes
  <2>2. SaveFails(c, k)
    BY <1>12, <2>1 DEF CollectCompleteFails
  <2>3. DiskPromises(c)'
    BY <1>10, <1>12, <2>1, <2>2, PromisesSaveFailed
  <2> QED  BY <1>1, <1>12, <2>3, ReturnSound DEF CollectCompleteFails
<1> QED  BY <1>4, <1>6, <1>7, <1>8, <1>9, <1>11, <1>12

\* An artifact may be replaced by a whole one, and by anything after a partial
\* collection, whose checkpoints promise none.
LEMMA RepublishKept ==
  ASSUME NEW c \in Cluster, TypeOK, Sound(c), pc[c] \in PostProcessing,
         UNCHANGED <<output, saved>>,
         \/ partial[c]
         \/ /\ json'[c] = json[c] \/ FullArtifact(json'[c])
            /\ zipped'[c] = zipped[c] \/ FullArtifact(zipped'[c])
  PROVE  DiskPromises(c)'
<1>1. \A k \in ckptDisk[c] : k.phase # "absent" => output'[c].exists /\ k.done \subseteq output'[c].jobs
  BY DEF Sound, DiskPromises, Promised, CanResume
<1>2. CASE partial[c]
  BY <1>1, <1>2, PromisesKept DEF Sound, Processing, Processed, saved
<1>3. CASE ~partial[c]
  BY <1>1, <1>3, PromisesKept DEF Sound, Artifact, saved
<1> QED  BY <1>2, <1>3

LEMMA ParseSound ==
  ASSUME NEW c \in Cluster, TypeOK, Sound(c),
         ProcessingCancelled(c) \/ SkipParse(c) \/ Parse(c) \/ ParseFails(c) \/ SaveParsed(c)
  PROVE  Sound(c)'
<1>1. pc[c] \in PostProcessing /\ cp[c] \in Checkpoint /\ ~result[c].ok /\ output' = output
      /\ zipped' = zipped
  BY DEF ProcessingCancelled, SkipParse, Parse, ParseFails, SaveParsed, PostProcessing,
         TypeOK, RunTypes, Sound, Succeeded, files
<1>2. /\ output[c] = File(cp[c].done, FALSE)
      /\ ~output[c].tail
      /\ ~partial[c] => FullArtifact(output[c])
  BY <1>1 DEF Sound, Processing, FullArtifact, File
<1>3. CASE ProcessingCancelled(c)
  BY <1>1, <1>3, RepublishKept, ReturnSound DEF ProcessingCancelled, files, Sound
<1>4. CASE SkipParse(c)
  <2>1. /\ UNCHANGED <<files, saved, cp, partial, result>> /\ pc[c] = "processing"
        /\ pc'[c] = "zipping"
    BY <1>4 DEF SkipParse, Goto, TypeOK, RunTypes
  <2>2. DiskPromises(c)'
    BY <1>1, <2>1, RepublishKept DEF files
  <2>3. ~partial[c] => /\ Written(cp[c])
                       /\ ParseEnabled => Processed(cp[c]) /\ FullArtifact(Artifact(c, cp[c]))
    <3>1. ~partial[c] => Promised(c, cp[c])
      BY <1>1, <2>1 DEF Sound, Advancing, DiskPromises, TypeOK, SavedTypes
    <3> QED  BY <1>4, <3>1 DEF SkipParse, NeedsParse, Promised
  <2>4. Preparing(c)' /\ Collecting(c)' /\ Succeeded(c)'
    BY <1>1, <2>1 DEF Preparing, Collecting, Succeeded
  <2>5. Processing(c)'
    BY <1>1, <2>1 DEF Sound, Processing, PostProcessing, files, saved
  <2>6. Advancing(c)'
    BY <2>1, <2>3 DEF Advancing, Artifact, files
  <2> QED  BY <2>1, <2>2, <2>4, <2>5, <2>6 DEF Sound, files
<1>5. CASE Parse(c)
  <2>1. /\ UNCHANGED <<saved, partial, result>> /\ pc[c] = "processing" /\ ParseEnabled
        /\ json'[c] = output[c]
        /\ pc'[c] = IF partial[c] THEN "zipping" ELSE "saveParsed"
    BY <1>5 DEF Parse, NeedsParse, Goto, TypeOK, RunTypes, FileTypes
  <2>2. cp'[c].done = cp[c].done /\ cp'[c].artifact = "json"
        /\ cp'[c].phase = IF partial[c] THEN cp[c].phase ELSE "parsed"
    BY <1>1, <1>5 DEF Parse, TypeOK, RunTypes, Checkpoint
  <2>3. DiskPromises(c)'
    BY <1>1, <1>2, <2>1, RepublishKept
  <2>4. Preparing(c)' /\ Collecting(c)' /\ Succeeded(c)'
    BY <1>1, <2>1 DEF Preparing, Collecting, Succeeded
  <2>5. Processing(c)'
    BY <1>1, <2>1, <2>2 DEF Sound, Processing, PostProcessing, saved, Collected
  <2>6. Advancing(c)'
    BY <1>2, <2>1, <2>2 DEF Advancing, Artifact, PostProcessing
  <2> QED  BY <1>1, <1>2, <2>1, <2>3, <2>4, <2>5, <2>6 DEF Sound
<1>6. CASE ParseFails(c)
  <2>1. json'[c] = json[c] \/ json'[c] = output[c]
    BY <1>6 DEF ParseFails, TypeOK, FileTypes
  <2>2. DiskPromises(c)'
    BY <1>1, <1>2, <1>6, <2>1, RepublishKept DEF ParseFails
  <2> QED  BY <1>1, <1>2, <1>6, <2>1, <2>2, ReturnSound DEF ParseFails, Sound
<1>7. CASE SaveParsed(c)
  <2>1. PICK k \in Checkpoint : k = cp[c]
    BY <1>1
  <2>2. /\ SaveSucceeds(c, k) /\ UNCHANGED <<files, cp, partial, result>>
        /\ pc[c] = "saveParsed" /\ pc'[c] = "zipping"
    BY <1>7, <2>1 DEF SaveParsed, Goto, TypeOK, RunTypes
  <2>3. /\ ~partial[c] /\ k.done = Job /\ k.phase = "parsed" /\ k.artifact = "json"
        /\ ParseEnabled /\ FullArtifact(json[c])
    BY <1>1, <2>1, <2>2 DEF Sound, Processing, Advancing, Artifact
  <2>4. Promised(c, k)'
    BY <1>2, <2>1, <2>2, <2>3 DEF Promised, Written, CanResume, Artifact, File, files
  <2>5. DiskPromises(c)' /\ ckptDisk'[c] = {k}
    BY <2>2, <2>3, <2>4, PromisesSaved
  <2>6. Preparing(c)' /\ Collecting(c)' /\ Succeeded(c)'
    BY <1>1, <2>2 DEF Preparing, Collecting, Succeeded
  <2>7. Processing(c)'
    BY <1>2, <2>1, <2>2, <2>3, <2>5, Shapes DEF Processing, PostProcessing, Collected, files
  <2>8. Advancing(c)'
    BY <2>1, <2>2, <2>3 DEF Advancing, Artifact, Written, Processed, files
  <2> QED  BY <2>2, <2>5, <2>6, <2>7, <2>8 DEF Sound, files
<1> QED  BY <1>3, <1>4, <1>5, <1>6, <1>7

LEMMA ZipSound ==
  ASSUME NEW c \in Cluster, TypeOK, Sound(c), SkipZip(c) \/ Zip(c) \/ ZipFails(c)
  PROVE  Sound(c)'
<1>1. /\ pc[c] = "zipping" /\ cp[c] \in Checkpoint /\ ~result[c].ok
      /\ UNCHANGED <<output, json, saved, partial>>
  BY DEF SkipZip, Zip, ZipFails, TypeOK, RunTypes, Sound, Succeeded, files
<1>2. ~partial[c] => /\ Written(cp[c])
                     /\ ParseEnabled => Processed(cp[c]) /\ FullArtifact(Artifact(c, cp[c]))
  BY <1>1 DEF Sound, Advancing, PostProcessing
<1>3. ASSUME NeedsZip(c)
      PROVE  ~partial[c] => FullArtifact(json[c])
  BY <1>2, <1>3 DEF NeedsZip, Processed, Written, Artifact
<1>4. CASE SkipZip(c)
  <2>1. /\ UNCHANGED <<zipped, cp, result>> /\ pc'[c] = "completing" /\ ~NeedsZip(c)
    BY <1>4 DEF SkipZip, Goto, files, TypeOK, RunTypes
  <2>2. DiskPromises(c)'
    BY <1>1, <2>1, RepublishKept DEF PostProcessing
  <2>3. Preparing(c)' /\ Collecting(c)' /\ Succeeded(c)'
    BY <1>1, <2>1 DEF Preparing, Collecting, Succeeded
  <2>4. Processing(c)'
    BY <1>1, <2>1 DEF Sound, Processing, PostProcessing, saved
  <2>5. ~partial[c] => cp[c].artifact = FinalName
    <3>1. ~partial[c] => Collected(cp[c])
      BY <1>1 DEF Sound, Processing, PostProcessing
    <3> QED
      BY <1>2, <2>1, <3>1 DEF NeedsZip, FinalName, Written, Processed, Collected
  <2>6. Advancing(c)'
    BY <1>1, <1>2, <2>1, <2>5 DEF Advancing, Artifact
  <2> QED  BY <1>1, <2>1, <2>2, <2>3, <2>4, <2>6 DEF Sound
<1>5. CASE Zip(c)
  <2>1. /\ UNCHANGED result /\ pc'[c] = "completing" /\ NeedsZip(c) /\ zipped'[c] = json[c]
    BY <1>5 DEF Zip, Goto, TypeOK, RunTypes, FileTypes
  <2>2. cp'[c].phase = cp[c].phase /\ cp'[c].done = cp[c].done /\ cp'[c].artifact = "zip"
    BY <1>1, <1>5 DEF Zip, TypeOK, RunTypes, Checkpoint
  <2>3. DiskPromises(c)'
    BY <1>1, <1>3, <2>1, RepublishKept DEF PostProcessing
  <2>4. Preparing(c)' /\ Collecting(c)' /\ Succeeded(c)'
    BY <1>1, <2>1 DEF Preparing, Collecting, Succeeded
  <2>5. Processing(c)'
    BY <1>1, <2>1, <2>2 DEF Sound, Processing, PostProcessing, saved, Collected
  <2>6. Advancing(c)'
    BY <1>1, <1>3, <2>1, <2>2 DEF Advancing, Artifact, FinalName, NeedsZip
  <2> QED  BY <1>1, <2>1, <2>3, <2>4, <2>5, <2>6 DEF Sound
<1>6. CASE ZipFails(c)
  <2>1. NeedsZip(c) /\ (zipped'[c] = zipped[c] \/ zipped'[c] = json[c])
    BY <1>6 DEF ZipFails, TypeOK, FileTypes
  <2>2. DiskPromises(c)'
    BY <1>1, <1>3, <2>1, RepublishKept DEF PostProcessing
  <2> QED  BY <1>1, <1>6, <2>1, <2>2, ReturnSound DEF ZipFails, Sound
<1> QED  BY <1>4, <1>5, <1>6

\* The saves after parsing and after zipping.
LEMMA CompleteSound ==
  ASSUME NEW c \in Cluster, TypeOK, Sound(c), ReturnPartial(c) \/ SaveComplete(c) \/ SavePhaseFails(c)
  PROVE  Sound(c)'
<1>1. /\ pc[c] \in {"saveParsed", "completing"} /\ cp[c] \in Checkpoint /\ ~result[c].ok
      /\ UNCHANGED <<files, output, json, zipped, partial>>
  BY DEF ReturnPartial, SaveComplete, SavePhaseFails, TypeOK, RunTypes, Sound, Succeeded, files
<1>2. /\ output[c] = File(cp[c].done, FALSE) /\ Absent \notin ckptDisk[c]
      /\ ~partial[c] => cp[c].done = Job
  BY <1>1 DEF Sound, Processing, PostProcessing
<1>3. CASE ReturnPartial(c)
  <2>1. DiskPromises(c)'
    BY <1>1, <1>3, RepublishKept DEF ReturnPartial, PostProcessing
  <2> QED  BY <1>1, <1>3, <2>1, ReturnSound DEF ReturnPartial, Sound
<1>4. ASSUME pc[c] = "completing", ~partial[c], NEW k \in Checkpoint,
             k = [cp[c] EXCEPT !.phase = "complete"]
      PROVE  k.phase = "complete" /\ k.done = Job /\ Promised(c, k)'
  <2>1. k.phase = "complete" /\ k.done = Job /\ k.artifact = cp[c].artifact
    BY <1>1, <1>2, <1>4 DEF Checkpoint
  <2>2. /\ cp[c].artifact = FinalName
        /\ ParseEnabled => FullArtifact(Artifact(c, cp[c]))
    BY <1>4 DEF Sound, Advancing, PostProcessing
  <2>3. Promised(c, k)'
    BY <1>1, <1>2, <1>4, <2>1, <2>2 DEF Promised, Written, CanResume, Artifact, File, FinalName
  <2> QED  BY <2>1, <2>3
<1>5. CASE SaveComplete(c)
  <2>1. PICK k \in Checkpoint : k = [cp[c] EXCEPT !.phase = "complete"]
    BY <1>1, PhaseTypes
  <2>2. /\ SaveSucceeds(c, k) /\ cp'[c] = k /\ UNCHANGED result
        /\ pc[c] = "completing" /\ ~partial[c] /\ pc'[c] = "cleaning"
    BY <1>5, <2>1 DEF SaveComplete, Goto, TypeOK, RunTypes
  <2>3. k.phase = "complete" /\ k.done = Job /\ Promised(c, k)'
    BY <1>4, <2>1, <2>2
  <2>4. DiskPromises(c)' /\ ckptDisk'[c] = {k}
    BY <2>2, <2>3, PromisesSaved
  <2>5. Preparing(c)' /\ Collecting(c)' /\ Succeeded(c)'
    BY <1>1, <2>2 DEF Preparing, Collecting, Succeeded
  <2>6. Processing(c)'
    BY <1>1, <1>2, <2>2, <2>3, <2>4, Shapes DEF Processing, PostProcessing, Collected
  <2>7. Advancing(c)'
    BY <1>1, <2>2, <2>3, <2>4 DEF Advancing, Promised, Processed
  <2> QED  BY <1>1, <2>4, <2>5, <2>6, <2>7 DEF Sound
<1>6. CASE SavePhaseFails(c)
  <2>1. PICK k \in Checkpoint :
          /\ SaveFails(c, k) /\ ~partial[c]
          /\ \/ pc[c] = "saveParsed" /\ k = cp[c]
             \/ pc[c] = "completing" /\ k = [cp[c] EXCEPT !.phase = "complete"]
    <3>1. ~partial[c]
      BY <1>6 DEF SavePhaseFails, Sound, Processing, PostProcessing
    <3> QED  BY <1>1, <1>6, <3>1, PhaseTypes DEF SavePhaseFails
  <2>2. k.phase # "absent" /\ k.done = Job /\ Promised(c, k)'
    <3>1. CASE pc[c] = "completing"
      BY <1>4, <2>1, <3>1
    <3>2. CASE pc[c] = "saveParsed"
      <4>1. /\ k = cp[c] /\ k.done = Job /\ k.phase = "parsed" /\ k.artifact = "json"
            /\ ParseEnabled /\ FullArtifact(json[c])
        BY <1>1, <1>2, <2>1, <3>2 DEF Sound, Advancing, PostProcessing, Artifact
      <4> QED  BY <1>1, <1>2, <4>1 DEF Promised, Written, CanResume, Artifact, File
    <3> QED  BY <1>1, <3>1, <3>2
  <2>3. \A l \in ckptDisk[c] : Promised(c, l)' /\ l.done \subseteq k.done
    <3>1. \A l \in ckptDisk[c] : l.done \subseteq Job
      BY DEF TypeOK, SavedTypes, Checkpoint
    <3>2. \A l \in ckptDisk[c] : Promised(c, l)'
      BY <1>1 DEF Sound, DiskPromises, Promised, CanResume, Artifact
    <3> QED  BY <2>2, <3>1, <3>2
  <2>4. DiskPromises(c)'
    BY <1>2, <2>1, <2>2, <2>3, PromisesSaveFailed DEF Sound
  <2> QED  BY <1>1, <1>6, <2>4, ReturnSound DEF SavePhaseFails, Sound
<1> QED  BY <1>3, <1>5, <1>6

\* Only the intermediate graph goes, and the checkpoint with it or not.
LEMMA CleanSound ==
  ASSUME NEW c \in Cluster, NEW keep \in BOOLEAN, TypeOK, Sound(c), Clean(c, keep) \/ CleanFails(c, keep)
  PROVE  Sound(c)'
<1>1. /\ pc[c] = "cleaning" /\ UNCHANGED <<output, zipped, cp, partial>>
      /\ pc'[c] = "returned"
      /\ result'[c].ok => result'[c].phase = "complete"
      /\ json'[c] = json[c] \/ (ParseEnabled /\ ZipOutput /\ json'[c] = NoFile)
  BY DEF Clean, CleanFails, Return, TypeOK, RunTypes, FileTypes
<1>2. /\ output[c] = File(Job, FALSE) /\ cp[c].phase = "complete" /\ cp[c].done = Job
      /\ ckptDisk[c] = {cp[c]}
      /\ cp[c].artifact = FinalName /\ (ParseEnabled => FullArtifact(Artifact(c, cp[c])))
  BY <1>1 DEF Sound, Processing, Advancing, PostProcessing, DiskPromises, Promised, Written
<1>3. Artifact(c, cp[c])' = Artifact(c, cp[c]) /\ ~json'[c].tail
  BY <1>1, <1>2 DEF Artifact, FinalName, NoFile, Sound
<1>4. Promised(c, cp[c])'
  <2>1. PICK k : k = cp[c]
    OBVIOUS
  <2>2. Promised(c, k)'
    BY <1>1, <1>2, <1>3, <2>1 DEF Promised, Written, CanResume, File
  <2> QED  BY <1>1, <2>1, <2>2
<1>5. Promised(c, Absent)'
  BY Shapes DEF Promised, Written, Processed
<1>6. \/ ckpt'[c] = ckpt[c] /\ ckptDisk'[c] = ckptDisk[c]
      \/ ckpt'[c] = Absent /\ ckptDisk'[c] = {cp[c], Absent}
  BY <1>2 DEF Clean, CleanFails, saved, TypeOK, SavedTypes
<1>7. DiskPromises(c)'
  <2>1. \A k \in ckptDisk'[c] : Promised(c, k)'
    BY <1>1, <1>2, <1>4, <1>5, <1>6
  <2> QED  BY <1>2, <1>6, <2>1 DEF DiskPromises, Sound
<1>8. Succeeded(c)'
  <2>1. FullArtifact(FinalArtifact(c))'
    BY <1>1, <1>2, <1>3 DEF FinalArtifact, FullArtifact, File, Artifact, FinalName
  <2>2. \A k \in ckptDisk'[c] : k.phase \in {"complete", "absent"}
    BY <1>2, <1>6, Shapes
  <2> QED  BY <1>1, <2>1, <2>2 DEF Succeeded
<1> QED
  BY <1>1, <1>3, <1>7, <1>8
  DEF Sound, Preparing, Collecting, Processing, Advancing, PostProcessing

\* Every step of one pipeline; the last premise of the first is the operator's
\* (FreshPaths), or the parent run's.
LEMMA BeginSound ==
  ASSUME NEW c \in Cluster, TypeOK, Sound(c), Begins(c), BeginNew(c) => ckptDisk[c] = {Absent}
  PROVE  Sound(c)'
BY BeginNewSound, BeginResumeSound, BeginResumeFinishedSound, BeginResumeFinishedFailsSound
DEF Begins

LEMMA CollectSound ==
  ASSUME NEW c \in Cluster, TypeOK, Sound(c), CollectStep(c)
  PROVE  Sound(c)'
BY PrepareSound, GatherSound DEF CollectStep

LEMMA ProcessSound ==
  ASSUME NEW c \in Cluster, NEW keep \in BOOLEAN, TypeOK, Sound(c), ProcessStep(c, keep)
  PROVE  Sound(c)'
BY ParseSound, ZipSound, CompleteSound, CleanSound DEF ProcessStep

-----------------------------------------------------------------------------
(* The end of a process. *)

LEMMA EndedTypes ==
  ASSUME RunTypes, ProcessEnds, Fault \/ UNCHANGED faults
  PROVE  RunTypes'
<1>1. faults' \in 0..MaxFaults
  BY FaultTypes
<1>2. NoResult \in ResultType
  BY DEF NoResult, ResultType
<1> QED  BY <1>1, <1>2, AbsentType DEF ProcessEnds, RunTypes, Label

LEMMA EndedSound ==
  ASSUME NEW c \in Cluster, TypeOK, Sound(c), ProcessEnds, UNCHANGED <<files, saved>>
  PROVE  Sound(c)'
<1>1. pc'[c] = "off" /\ ~result'[c].ok
  BY DEF ProcessEnds, NoResult
<1>2. DiskPromises(c)'
  BY DEF Sound, DiskPromises, Promised, CanResume, Artifact, files, saved
<1> QED
  BY <1>1, <1>2
  DEF Sound, Preparing, Collecting, Processing, Advancing, Succeeded, PostProcessing, files

LEMMA PowerLossTypes ==
  ASSUME TypeOK, DiskAfterPowerLoss
  PROVE  FileTypes' /\ SavedTypes'
<1>1. FileTypes'
  <2>1. \A c \in Cluster : [output[c] EXCEPT !.tail = FALSE] \in FileType
    BY DEF TypeOK, FileTypes, FileType
  <2> QED  BY <2>1 DEF DiskAfterPowerLoss, TypeOK, FileTypes
<1>2. SavedTypes'
  <2>1. ckpt' \in [Cluster -> Checkpoint]
    BY DEF DiskAfterPowerLoss, TypeOK, SavedTypes
  <2> QED  BY <2>1 DEF DiskAfterPowerLoss, SavedTypes
<1> QED  BY <1>1, <1>2

LEMMA PowerLossSound ==
  ASSUME NEW c \in Cluster, TypeOK, Sound(c), DiskAfterPowerLoss, ProcessEnds
  PROVE  Sound(c)'
<1>1. pc'[c] = "off" /\ ~result'[c].ok
  BY DEF ProcessEnds, NoResult
<1>2. /\ json' = json /\ zipped' = zipped
      /\ ckpt'[c] \in ckptDisk[c] /\ ckptDisk'[c] = {ckpt'[c]}
      /\ output'[c].exists = output[c].exists /\ output'[c].jobs = output[c].jobs
  BY DEF DiskAfterPowerLoss, TypeOK, FileTypes, FileType
<1>3. DiskPromises(c)'
  BY <1>2 DEF Sound, DiskPromises, Promised, CanResume, Artifact
<1> QED
  BY <1>1, <1>2, <1>3
  DEF Sound, Preparing, Collecting, Processing, Advancing, Succeeded, PostProcessing

-----------------------------------------------------------------------------
(* The theorems. *)

LEMMA InitInv == Init => IndInv
<1> SUFFICES ASSUME Init PROVE IndInv
  OBVIOUS
<1>1. TypeOK
  <2>1. FileTypes
    BY FileIsTyped DEF Init, FileTypes
  <2>2. SavedTypes
    BY AbsentType DEF Init, SavedTypes
  <2>3. NoResult \in ResultType
    BY DEF NoResult, ResultType
  <2>4. RunTypes
    <3>1. pc \in [Cluster -> Label] /\ partial \in [Cluster -> BOOLEAN]
      BY DEF Init, Label
    <3>2. cp \in [Cluster -> Checkpoint] /\ result \in [Cluster -> ResultType]
      BY <2>3, AbsentType DEF Init
    <3>3. cancelled \in BOOLEAN /\ faults \in 0..MaxFaults
      <4>1. cancelled = FALSE /\ faults = 0
        BY DEF Init
      <4>2. MaxFaults \in Nat
        BY FlagAssumption
      <4>3. faults \in 0..MaxFaults
        BY <4>1, <4>2
      <4> QED  BY <4>1, <4>3
    <3> QED  BY <3>1, <3>2, <3>3 DEF RunTypes
  <2> QED  BY <2>1, <2>2, <2>4 DEF TypeOK
<1>2. ASSUME NEW c \in Cluster
      PROVE  Sound(c)
  <2>1. DiskPromises(c)
    BY Shapes DEF Init, DiskPromises, Promised, Written, Processed
  <2> QED
    BY <2>1
    DEF Init, Sound, Preparing, Collecting, Processing, Advancing, Succeeded, PostProcessing,
        NoFile, NoResult
<1> QED  BY <1>1, <1>2 DEF IndInv

\* A step of one pipeline keeps the invariant of all.
LEMMA OneSteps ==
  ASSUME NEW c \in Cluster, \A d \in Cluster : Sound(d), Unaffected(c), Sound(c)'
  PROVE  \A d \in Cluster : Sound(d)'
BY OthersSound

LEMMA StepInv == IndInv /\ [Next]_vars => IndInv'
<1> SUFFICES ASSUME IndInv, [Next]_vars PROVE IndInv'
  OBVIOUS
<1> USE DEF IndInv
<1>1. ASSUME NEW c \in Cluster, Begin(c)
      PROVE  IndInv'
  <2>1. Begins(c) /\ (BeginNew(c) => ckptDisk[c] = {Absent})
    <3>1. CASE FreshPaths(c) /\ BeginNew(c)
      BY <3>1 DEF Begins, FreshPaths
    <3>2. BeginNew(c) => ckpt[c].phase = "absent"
      BY DEF BeginNew
    <3>3. CASE BeginResume(c) \/ BeginResumeFinished(c) \/ BeginResumeFinishedFails(c)
      BY <3>2, <3>3 DEF Begins, BeginResume, BeginResumeFinished, BeginResumeFinishedFails, CanResume
    <3> QED  BY <1>1, <3>1, <3>3 DEF Begin
  <2> QED  BY <2>1, BeginTypes, BeginSound, OneSteps
<1>2. ASSUME NEW c \in Cluster, CollectStep(c)
      PROVE  IndInv'
  BY <1>2, CollectTypes, CollectSound, OneSteps
<1>3. ASSUME NEW c \in Cluster, ProcessStep(c, FALSE)
      PROVE  IndInv'
  BY <1>3, ProcessTypes, ProcessSound, OneSteps DEF Sound
<1>4. ASSUME NEW c \in Cluster, Exit(c)
      PROVE  IndInv'
  BY <1>4, EndedTypes, EndedSound DEF Exit, TypeOK, files, saved, FileTypes, SavedTypes
<1>5. CASE Cancel
  <2>1. TypeOK'
    BY <1>5, FaultTypes DEF Cancel, TypeOK, files, saved, control, FileTypes, SavedTypes, RunTypes
  <2>2. \A c \in Cluster : Sound(c)'
    BY <1>5, SameSound DEF Cancel
  <2> QED  BY <2>1, <2>2
<1>6. CASE Kill
  BY <1>6, EndedTypes, EndedSound DEF Kill, TypeOK, files, saved, FileTypes, SavedTypes
<1>7. CASE PowerLoss
  BY <1>7, EndedTypes, PowerLossTypes, PowerLossSound DEF PowerLoss, TypeOK
<1>8. CASE UNCHANGED vars
  <2>1. TypeOK'
    BY <1>8 DEF vars, TypeOK, files, saved, control, FileTypes, SavedTypes, RunTypes
  <2>2. \A c \in Cluster : Sound(c)'
    BY <1>8, SameSound DEF vars
  <2> QED  BY <2>1, <2>2
<1> QED  BY <1>1, <1>2, <1>3, <1>4, <1>5, <1>6, <1>7, <1>8 DEF Next, Step

\* What a saved phase, a running pipeline and a reported success rely on holds
\* always: types, and Sound of every cluster.
THEOREM Invariance == Spec => []IndInv
BY InitInv, StepInv, PTL DEF Spec

\* A phase that a crash may leave on disk names an artifact built from every job
\* (runSinglePipeline saves a phase after the artifact it speaks of).
THEOREM ArtifactBehindPhaseAlways == Spec => []ArtifactBehindPhase
<1>1. IndInv => ArtifactBehindPhase
  BY DEF IndInv, Sound, DiskPromises, Promised, ArtifactBehindPhase
<1> QED  BY <1>1, Invariance, PTL

\* Success means that every job is in the final artifact.
THEOREM SuccessIsCompleteAlways == Spec => []SuccessIsComplete
<1>1. IndInv => SuccessIsComplete
  BY DEF IndInv, Sound, Succeeded, SuccessIsComplete
<1> QED  BY <1>1, Invariance, PTL

\* ParseService.Run reads nothing a failed commit left in the output.
THEOREM OnlyCommittedParsedAlways == Spec => []OnlyCommittedParsed
<1>1. IndInv => OnlyCommittedParsed
  BY DEF IndInv, Sound, OnlyCommittedParsed
<1> QED  BY <1>1, Invariance, PTL

\* ValidateResume and Restore accept whatever checkpoint a crash leaves.
THEOREM AlwaysResumableAlways == Spec => []AlwaysResumable
<1>1. IndInv => AlwaysResumable
  BY DEF IndInv, Sound, DiskPromises, Promised, AlwaysResumable
<1> QED  BY <1>1, Invariance, PTL

\* A collected cluster is not contacted again.
LEMMA NoRecollectionStep ==
  ASSUME IndInv, [Next]_vars, NEW c \in Cluster, \A k \in ckptDisk[c] : Collected(k)
  PROVE  /\ pc'[c] \notin {"connecting", "opened", "collecting", "committing"}
         /\ output'[c].jobs = Job
<1> USE DEF IndInv
<1>1. /\ ckpt[c] \in ckptDisk[c] /\ Collected(ckpt[c]) /\ CanResume(c, ckpt[c])
      /\ ckpt[c].done = Job /\ Job \subseteq output[c].jobs
  BY DEF TypeOK, SavedTypes, Sound, DiskPromises, Promised, CanResume, Collected
<1>2. output[c].jobs = Job
  BY <1>1 DEF TypeOK, FileTypes, FileType
<1>3. pc[c] \notin {"connecting", "opened", "collecting", "committing"}
  BY <1>1, Shapes DEF Sound, Preparing, Collecting, Collected
<1>4. ASSUME UNCHANGED <<output[c], pc[c]>>
      PROVE  pc'[c] = pc[c] /\ output'[c].jobs = Job
  BY <1>2, <1>4
<1>5. ASSUME NEW d \in Cluster, d # c, Begin(d) \/ CollectStep(d) \/ ProcessStep(d, FALSE)
      PROVE  pc'[c] = pc[c] /\ output'[c].jobs = Job
  <2>1. Unaffected(d)
    BY <1>5, BeginTypes, CollectTypes, ProcessTypes DEF Begin, Begins, Sound
  <2> QED  BY <1>2, <1>5, <2>1 DEF Unaffected, FilesUnaffected, RunUnaffected
<1>6. CASE Begin(c)
  <2>1. ~BeginNew(c) /\ ~BeginResume(c)
    BY <1>1 DEF BeginNew, BeginResume, Collected
  <2>2. CASE BeginResumeFinished(c)
    <3>1. output'[c] = File(Job, FALSE) /\ pc'[c] = "processing"
      BY <1>1, <2>2 DEF BeginResumeFinished, Restored, Starts, Goto, TypeOK, FileTypes, RunTypes
    <3> QED  BY <3>1 DEF File
  <2>3. CASE BeginResumeFinishedFails(c)
    <3>1. output' = output /\ pc'[c] = "returned"
      BY <1>1, <2>3 DEF BeginResumeFinishedFails, Return, TypeOK, RunTypes
    <3> QED  BY <1>2, <3>1
  <2> QED  BY <1>6, <2>1, <2>2, <2>3 DEF Begin
<1>7. ~CollectStep(c)
  BY <1>3
  DEF CollectStep, SetupFails, SetupCancelled, OpenOutput, SavePlan, SavePlanFails, AppendJob,
      CommitJob, CommitJobFails, CollectCancelled, CollectPartial, CollectComplete,
      CollectCompleteFails
<1>8. CASE ProcessStep(c, FALSE)
  <2>1. output' = output
    BY <1>8
    DEF ProcessStep, ProcessingCancelled, SkipParse, Parse, ParseFails, SaveParsed, SkipZip,
        Zip, ZipFails, ReturnPartial, SaveComplete, SavePhaseFails, Clean, CleanFails, files
  <2>2. pc'[c] \in PostProcessing \cup {"returned"}
    BY <1>8
    DEF ProcessStep, ProcessingCancelled, SkipParse, Parse, ParseFails, SaveParsed, SkipZip,
        Zip, ZipFails, ReturnPartial, SaveComplete, SavePhaseFails, Clean, CleanFails, Goto,
        Return, PostProcessing, TypeOK, RunTypes
  <2> QED  BY <1>2, <2>1, <2>2 DEF PostProcessing
<1>9. CASE Cancel \/ UNCHANGED vars
  BY <1>2, <1>3, <1>9 DEF Cancel, vars, files, control
<1>10. CASE Kill \/ \E d \in Cluster : Exit(d)
  BY <1>2, <1>10 DEF Kill, Exit, ProcessEnds, files
<1>11. CASE PowerLoss
  <2>1. output'[c].jobs = output[c].jobs
    BY <1>11 DEF PowerLoss, DiskAfterPowerLoss, TypeOK, FileTypes, FileType
  <2>2. pc'[c] = "off"
    BY <1>11 DEF PowerLoss, ProcessEnds
  <2> QED  BY <1>2, <2>1, <2>2
<1> QED  BY <1>3, <1>5, <1>6, <1>7, <1>8, <1>9, <1>10, <1>11 DEF Next, Step

\* After a failed parse or zip only post-processing is retried.
THEOREM NoRecollectionAlways == Spec => NoRecollection
<1>1. IndInv /\ [Next]_vars =>
        [\A c \in Cluster :
           (\A k \in ckptDisk[c] : Collected(k))
             => pc'[c] \notin {"connecting", "opened", "collecting", "committing"}
                /\ output'[c].jobs = Job]_vars
  BY NoRecollectionStep
<1> QED  BY <1>1, Invariance, PTL DEF Spec, NoRecollection

-----------------------------------------------------------------------------
(* What a step of one pipeline may do to its own files. *)

\* The checkpoint a new child starts from: none, for nothing else is there.
LEMMA NothingThere ==
  ASSUME NEW c \in Cluster, TypeOK, Sound(c), ckpt[c].phase = "absent", ~ArtifactExists(c)
  PROVE  ckptDisk[c] = {Absent}
BY DEF ArtifactExists, TypeOK, SavedTypes, Sound, DiskPromises, Promised, Written, CanResume

\* prepareRunCluster starts c, or somebody resumes it.
Launches(c) == Begins(c) /\ (BeginNew(c) => ~ArtifactExists(c))

LEMMA StartsBegin ==
  ASSUME NEW c \in Cluster, TypeOK, Sound(c), Launches(c)
  PROVE  TypeOK' /\ Unaffected(c) /\ Sound(c)'
<1>1. BeginNew(c) => ckptDisk[c] = {Absent}
  BY NothingThere DEF Launches, BeginNew
<1> QED  BY <1>1, BeginTypes, BeginSound DEF Launches

\* A finished cluster stays finished.
LEMMA KeptStarts ==
  ASSUME NEW c \in Cluster, TypeOK, Sound(c), Kept(c), Launches(c)
  PROVE  Kept(c)'
<1>1. ckpt[c] \in ckptDisk[c] /\ pc[c] = "off" /\ json' = json /\ zipped' = zipped
  BY DEF Launches, Begins, BeginNew, BeginResume, BeginResumeFinished, BeginResumeFinishedFails,
         Starts, TypeOK, SavedTypes, files
<1>2. FinalArtifact(c).exists
  BY DEF Kept, FullArtifact
<1>3. ~BeginNew(c)
  BY <1>2 DEF Launches, FinalArtifact, ArtifactExists
<1>4. ASSUME CanResume(c, ckpt[c])
      PROVE  Collected(ckpt[c]) /\ ckpt[c].phase = "complete" /\ ckpt[c].done = Job
  BY <1>1, <1>4 DEF Kept, CanResume, Collected
<1>5. ~BeginResume(c)
  BY <1>4 DEF BeginResume
<1>6. CASE BeginResumeFinished(c)
  <2>1. /\ output'[c] = File(Job, FALSE) /\ ckptDisk'[c] = ckptDisk[c]
        /\ pc'[c] = "processing" /\ cp'[c] = ckpt[c]
    BY <1>4, <1>6
    DEF BeginResumeFinished, Restored, Starts, Goto, saved, TypeOK, FileTypes, RunTypes
  <2> QED
    BY <1>1, <1>4, <1>6, <2>1
    DEF BeginResumeFinished, Kept, FinalArtifact, FullArtifact, File, PostProcessing
<1>7. CASE BeginResumeFinishedFails(c)
  <2>1. UNCHANGED <<output, saved>> /\ pc'[c] = "returned"
    BY <1>4, <1>7 DEF BeginResumeFinishedFails, Return, TypeOK, RunTypes
  <2> QED  BY <1>1, <2>1 DEF Kept, FinalArtifact, FullArtifact, saved
<1> QED  BY <1>3, <1>5, <1>6, <1>7 DEF Launches, Begins

LEMMA KeptReturn ==
  ASSUME NEW c \in Cluster, NEW phase, TypeOK, Kept(c), Return(c, phase, FALSE),
         UNCHANGED <<files, saved>>
  PROVE  Kept(c)'
<1>1. pc'[c] = "returned"
  BY DEF Return, TypeOK, RunTypes
<1> QED  BY <1>1 DEF Kept, FinalArtifact, files, saved

LEMMA KeptProcess ==
  ASSUME NEW c \in Cluster, NEW keep \in BOOLEAN, TypeOK, Sound(c), Kept(c), ProcessStep(c, keep)
  PROVE  Kept(c)'
<1>1. pc[c] \in PostProcessing
  BY DEF ProcessStep, ProcessingCancelled, SkipParse, Parse, ParseFails, SaveParsed, SkipZip,
         Zip, ZipFails, ReturnPartial, SaveComplete, SavePhaseFails, Clean, CleanFails,
         PostProcessing
<1>2. cp[c].phase = "complete" /\ ~partial[c] /\ pc[c] # "saveParsed"
  BY <1>1 DEF Kept, PostProcessing, Sound, Processing, Advancing
<1>3. ~NeedsParse(c) /\ ~NeedsZip(c)
  BY <1>2 DEF NeedsParse, NeedsZip, Processed
<1>4. CASE ProcessingCancelled(c)
  BY <1>4, KeptReturn DEF ProcessingCancelled
<1>5. CASE SkipParse(c) \/ SkipZip(c)
  <2>1. /\ UNCHANGED <<files, saved, cp>> /\ pc'[c] \in PostProcessing
    BY <1>5 DEF SkipParse, SkipZip, Goto, TypeOK, RunTypes, PostProcessing
  <2> QED  BY <1>2, <2>1 DEF Kept, FinalArtifact, files, saved
<1>6. ~Parse(c) /\ ~ParseFails(c) /\ ~Zip(c) /\ ~ZipFails(c) /\ ~SaveParsed(c) /\ ~ReturnPartial(c)
  BY <1>2, <1>3 DEF Parse, ParseFails, Zip, ZipFails, SaveParsed, ReturnPartial
<1>7. CASE SaveComplete(c)
  <2>1. PICK k \in Checkpoint : k = [cp[c] EXCEPT !.phase = "complete"]
    BY PhaseTypes DEF TypeOK, RunTypes
  <2>2. k.phase = "complete"
    BY <2>1 DEF TypeOK, RunTypes, Checkpoint
  <2>3. UNCHANGED files /\ ckptDisk'[c] = {k} /\ pc'[c] = "cleaning" /\ cp'[c] = k
    BY <1>7, <2>1 DEF SaveComplete, SaveSucceeds, Goto, TypeOK, SavedTypes, RunTypes
  <2> QED  BY <2>2, <2>3 DEF Kept, FinalArtifact, files, PostProcessing
<1>8. CASE SavePhaseFails(c)
  <2>1. PICK k \in Checkpoint : k = [cp[c] EXCEPT !.phase = "complete"]
    BY PhaseTypes DEF TypeOK, RunTypes
  <2>2. k.phase = "complete"
    BY <2>1 DEF TypeOK, RunTypes, Checkpoint
  <2>3. UNCHANGED files /\ ckptDisk'[c] \subseteq ckptDisk[c] \cup {k} /\ pc'[c] = "returned"
    BY <1>2, <1>8, <2>1
    DEF SavePhaseFails, SaveFails, Return, TypeOK, SavedTypes, RunTypes, saved
  <2> QED  BY <2>2, <2>3 DEF Kept, FinalArtifact, files
<1>9. CASE Clean(c, keep) \/ CleanFails(c, keep)
  <2>1. /\ UNCHANGED <<output, zipped>> /\ pc'[c] = "returned"
        /\ json'[c] = json[c] \/ (ParseEnabled /\ ZipOutput)
        /\ ckptDisk'[c] \subseteq ckptDisk[c] \cup {Absent}
    BY <1>9 DEF Clean, CleanFails, Return, saved, TypeOK, SavedTypes, RunTypes, FileTypes
  <2> QED  BY <2>1, Shapes DEF Kept, FinalArtifact
<1> QED  BY <1>4, <1>5, <1>6, <1>7, <1>8, <1>9 DEF ProcessStep

LEMMA KeptCollect ==
  ASSUME NEW c \in Cluster, Kept(c)
  PROVE  ~CollectStep(c)
BY DEF Kept, PostProcessing, CollectStep, SetupFails, SetupCancelled, OpenOutput, SavePlan,
       SavePlanFails, AppendJob, CommitJob, CommitJobFails, CollectCancelled, CollectPartial,
       CollectComplete, CollectCompleteFails

\* A step that may leave no checkpoint of c behind has committed nothing of c.
NoneCommitted(c) ==
  Absent \in ckptDisk'[c] => Absent \in ckptDisk[c] /\ (Untouched(c) => Untouched(c)')

\* The output exists wherever jobs are.
OutputThere(c) == output[c].exists \/ output[c].jobs = {}

LEMMA LaunchCommitsNothing ==
  ASSUME NEW c \in Cluster, TypeOK, Sound(c), Launches(c)
  PROVE  NoneCommitted(c) /\ (OutputThere(c) => OutputThere(c)')
<1> USE DEF NoneCommitted, OutputThere
<1>1. CASE BeginNew(c) \/ BeginResume(c)
  BY <1>1 DEF BeginNew, BeginResume, Untouched, files, saved
<1>2. ASSUME CanResume(c, ckpt[c]), ckpt[c].done = Job
      PROVE  Absent \notin ckptDisk[c] /\ output[c].exists
  BY <1>2, PlanAssumption, Shapes DEF Sound, DiskPromises, CanResume
<1>3. CASE BeginResumeFinished(c)
  <2>1. output'[c] = File(Job, FALSE)
    BY <1>3 DEF BeginResumeFinished, Restored, TypeOK, FileTypes
  <2>2. ckptDisk'[c] = ckptDisk[c] \/ \E k \in Checkpoint : k.phase # "absent" /\ ckptDisk'[c] = {k}
    <3>1. PICK k \in Checkpoint : k = [ckpt[c] EXCEPT !.phase = "collected"]
      BY PhaseTypes DEF TypeOK, SavedTypes
    <3>2. k.phase = "collected"
      BY <3>1 DEF TypeOK, SavedTypes, Checkpoint
    <3> QED
      BY <1>3, <3>1, <3>2 DEF BeginResumeFinished, SaveSucceeds, saved, TypeOK, SavedTypes
  <2>3. Absent \notin ckptDisk[c]
    BY <1>2, <1>3 DEF BeginResumeFinished
  <2>4. Absent \notin ckptDisk'[c]
    BY <2>2, <2>3, Shapes
  <2> QED  BY <2>1, <2>4 DEF File
<1>4. CASE BeginResumeFinishedFails(c)
  <2>1. output'[c] = output[c] \/ output'[c] = File(Job, FALSE)
    BY <1>4 DEF BeginResumeFinishedFails, Restored, TypeOK, FileTypes
  <2>2. ckptDisk'[c] = ckptDisk[c]
        \/ \E k \in Checkpoint : k.phase # "absent" /\ ckptDisk'[c] \subseteq ckptDisk[c] \cup {k}
    <3>1. PICK k \in Checkpoint : k = [ckpt[c] EXCEPT !.phase = "collected"]
      BY PhaseTypes DEF TypeOK, SavedTypes
    <3>2. k.phase = "collected"
      BY <3>1 DEF TypeOK, SavedTypes, Checkpoint
    <3> QED
      BY <1>4, <3>1, <3>2 DEF BeginResumeFinishedFails, SaveFails, saved, TypeOK, SavedTypes
  <2>3. Absent \notin ckptDisk[c] /\ output[c].exists
    BY <1>2, <1>4 DEF BeginResumeFinishedFails
  <2>4. Absent \notin ckptDisk'[c]
    BY <2>2, <2>3, Shapes
  <2>5. output'[c].exists
    BY <2>1, <2>3 DEF File
  <2> QED  BY <2>4, <2>5
<1> QED  BY <1>1, <1>3, <1>4 DEF Launches, Begins

LEMMA CollectCommitsNothing ==
  ASSUME NEW c \in Cluster, TypeOK, Sound(c), CollectStep(c)
  PROVE  NoneCommitted(c) /\ (OutputThere(c) => OutputThere(c)')
<1> USE DEF NoneCommitted, OutputThere
<1>1. ASSUME pc[c] \in {"connecting", "opened"}, Absent \in ckptDisk[c]
      PROVE  cp[c].done = {}
  BY <1>1, Shapes DEF Sound, Preparing, DiskPromises
<1>2. CASE SetupFails(c) \/ OpenOutput(c)
  <2>1. /\ pc[c] = "connecting" /\ UNCHANGED <<json, zipped, saved>>
        /\ output'[c] = output[c] \/ output'[c] = File(cp[c].done, FALSE)
    BY <1>2 DEF SetupFails, OpenOutput, TypeOK, FileTypes
  <2> QED  BY <1>1, <2>1 DEF Untouched, File, saved
<1>3. CASE SetupCancelled(c) \/ CollectCancelled(c) \/ CollectPartial(c)
  BY <1>3 DEF SetupCancelled, CollectCancelled, CollectPartial, Untouched, files, saved
<1>4. CASE SavePlan(c) \/ SavePlanFails(c)
  <2>1. cp[c] # Absent
    BY <1>4, Shapes DEF SavePlan, SavePlanFails, Sound, Preparing
  <2>2. UNCHANGED files /\ ckptDisk'[c] \subseteq ckptDisk[c] \cup {cp[c]}
    BY <1>4 DEF SavePlan, SavePlanFails, SaveSucceeds, SaveFails, saved, TypeOK, SavedTypes
  <2> QED  BY <2>1, <2>2 DEF Untouched, files
<1>5. ASSUME pc[c] \in {"collecting", "committing"}
      PROVE  cp[c] \in Checkpoint /\ cp[c].phase = "collecting" /\ Absent \notin ckptDisk[c]
  BY <1>5, Shapes DEF Sound, Collecting, TypeOK, RunTypes
<1>6. CASE AppendJob(c)
  BY <1>5, <1>6 DEF AppendJob, saved, TypeOK, FileTypes, FileType
<1>7. CASE CommitJob(c) \/ CommitJobFails(c)
  <2>1. pc[c] = "committing"
    BY <1>7 DEF CommitJob, CommitJobFails
  <2>2. \A j \in Job : WithJob(cp[c], j) # Absent
    BY <1>5, <2>1, Shapes DEF WithJob, Checkpoint
  <2>3. \/ UNCHANGED <<output, saved>>
        \/ \E j \in Job : ckptDisk'[c] \subseteq ckptDisk[c] \cup {WithJob(cp[c], j)}
    BY <1>7 DEF CommitJob, CommitJobFails, SaveSucceeds, SaveFails, saved, TypeOK, SavedTypes
  <2>4. UNCHANGED output \/ output'[c].exists
    <3>1. UNCHANGED output \/ \E j \in Job : output' = [output EXCEPT ![c] = File(@.jobs \cup {j}, FALSE)]
      BY <1>7 DEF CommitJob, CommitJobFails, Committed
    <3>2. ASSUME NEW j \in Job, output' = [output EXCEPT ![c] = File(@.jobs \cup {j}, FALSE)]
          PROVE  output'[c].exists
      <4>1. output'[c] = File(output[c].jobs \cup {j}, FALSE)
        BY <3>2 DEF TypeOK, FileTypes
      <4> QED  BY <4>1 DEF File
    <3> QED  BY <3>1, <3>2
  <2> QED  BY <1>5, <2>1, <2>2, <2>3, <2>4 DEF saved
<1>8. CASE CollectComplete(c) \/ CollectCompleteFails(c)
  <2>1. PICK k \in Checkpoint : k = [cp[c] EXCEPT !.phase = "collected"]
    BY PhaseTypes DEF TypeOK, RunTypes
  <2>2. k # Absent
    BY <2>1, Shapes DEF TypeOK, RunTypes, Checkpoint
  <2>3. UNCHANGED files /\ ckptDisk'[c] \subseteq ckptDisk[c] \cup {k}
    BY <1>8, <2>1
    DEF CollectComplete, CollectCompleteFails, SaveSucceeds, SaveFails, saved, TypeOK, SavedTypes
  <2> QED  BY <2>2, <2>3 DEF Untouched, files
<1> QED  BY <1>2, <1>3, <1>4, <1>6, <1>7, <1>8 DEF CollectStep

\* Only the last step of a pipeline without a parent removes its checkpoint.
LEMMA ProcessCommitsNothing ==
  ASSUME NEW c \in Cluster, NEW keep \in BOOLEAN, TypeOK, Sound(c), ProcessStep(c, keep)
  PROVE  /\ Absent \in ckptDisk'[c] => ~keep
         /\ OutputThere(c) => OutputThere(c)'
<1> USE DEF OutputThere
<1>1. pc[c] \in PostProcessing /\ UNCHANGED output
  BY DEF ProcessStep, ProcessingCancelled, SkipParse, Parse, ParseFails, SaveParsed, SkipZip,
         Zip, ZipFails, ReturnPartial, SaveComplete, SavePhaseFails, Clean, CleanFails,
         PostProcessing, files
<1>2. Absent \notin ckptDisk[c] /\ cp[c] \in Checkpoint
  BY <1>1 DEF Sound, Processing, TypeOK, RunTypes
<1>3. PICK k \in Checkpoint : k = [cp[c] EXCEPT !.phase = "complete"]
  BY <1>2, PhaseTypes
<1>4. k # Absent
  BY <1>2, <1>3, Shapes DEF Checkpoint
<1>5. ASSUME pc[c] = "saveParsed"
      PROVE  cp[c] # Absent
  BY <1>5, Shapes DEF PostProcessing, Sound, Processing, Advancing
<1>6. CASE SaveParsed(c) \/ SaveComplete(c) \/ SavePhaseFails(c)
  <2>1. ckptDisk'[c] \subseteq ckptDisk[c] \cup {k}
        \/ (pc[c] = "saveParsed" /\ ckptDisk'[c] \subseteq ckptDisk[c] \cup {cp[c]})
    BY <1>3, <1>6
    DEF SaveParsed, SaveComplete, SavePhaseFails, SaveSucceeds, SaveFails, saved, TypeOK, SavedTypes
  <2> QED  BY <1>1, <1>2, <1>4, <1>5, <2>1
<1>7. CASE ~(SaveParsed(c) \/ SaveComplete(c) \/ SavePhaseFails(c))
  <2>1. UNCHANGED saved \/ ~keep
    BY <1>7
    DEF ProcessStep, ProcessingCancelled, SkipParse, Parse, ParseFails, SkipZip, Zip, ZipFails,
        ReturnPartial, Clean, CleanFails
  <2> QED  BY <1>1, <1>2, <2>1 DEF saved
<1> QED  BY <1>6, <1>7

-----------------------------------------------------------------------------
(* The parent's data. *)

LEMMA Index ==
  /\ 1 \in 1..Cardinality(Cluster) + 1
  /\ \A n \in Cluster : n \in Nat /\ n + 1 \in 1..Cardinality(Cluster) + 1
<1>1. Cardinality(Cluster) \in Nat
  BY ClusterAssumption, FS_CardinalityType
<1>2. ASSUME NEW n \in Cluster
      PROVE  n \in 1..Cardinality(Cluster)
  BY ClusterAssumption
<1> QED  BY <1>1, <1>2

\* The runs the scheduler makes of others.
LEMMA NewRuns ==
  /\ NoRun \in Run /\ ~NoRun.exists
  /\ \A n \in 1..MaxConcurrency :
       /\ NewRun(n) \in Run /\ NewRun(n).exists
       /\ \A c \in Cluster : NewRun(n).state[c] = "queued"
<1>1. NoRun \in Run /\ ~NoRun.exists
  BY ConcurrencyAssumption DEF NoRun, Run
<1>2. ASSUME NEW n \in 1..MaxConcurrency
      PROVE  /\ NewRun(n) \in Run /\ NewRun(n).exists
             /\ \A c \in Cluster : NewRun(n).state[c] = "queued"
  BY <1>1, <1>2 DEF NewRun, NoRun, Run
<1> QED  BY <1>1, <1>2

LEMMA TunedRun ==
  ASSUME NEW p \in Run, NEW n \in 1..MaxConcurrency
  PROVE  LET q == [p EXCEPT !.concurrency = n] IN
         q \in Run /\ q.exists = p.exists /\ q.state = p.state /\ q.phase = p.phase
BY DEF Run

LEMMA LaunchedRun ==
  ASSUME NEW p \in Run, NEW c \in Cluster
  PROVE  LET q == [p EXCEPT !.state[c] = "active"] IN
         /\ q \in Run /\ q.exists = p.exists /\ q.phase = p.phase
         /\ q.state[c] = "active"
         /\ \A d \in Cluster \ {c} : q.state[d] = p.state[d]
BY DEF Run

LEMMA ReportedRun ==
  ASSUME NEW c \in Cluster, run \in Run, result[c] \in ResultType
  PROVE  /\ Reported(c) \in Run /\ Reported(c).exists = run.exists
         /\ Reported(c).state[c] = "complete" => result[c].ok
         /\ result[c].ok /\ result[c].phase = "complete" => Reported(c).phase[c] = "complete"
         /\ \A d \in Cluster \ {c} : /\ Reported(c).state[d] = run.state[d]
                                     /\ Reported(c).phase[d] = run.phase[d]
<1>1. ReportedPhase(result[c]) \in {"setup", "collecting", "collected", "parsed", "complete"}
  BY DEF ReportedPhase, ResultType
<1> DEFINE s == IF result[c].ok THEN "complete" ELSE "failed"
           f == ReportedPhase(result[c])
<1>2. s \in {"queued", "active", "failed", "complete"} /\ (s = "complete" => result[c].ok)
  OBVIOUS
<1>3. result[c].phase = "complete" => f = "complete"
  BY DEF ReportedPhase
<1> HIDE DEF s, f
<1>4. /\ [run EXCEPT !.state[c] = s, !.phase[c] = f] \in Run
      /\ [run EXCEPT !.state[c] = s, !.phase[c] = f].exists = run.exists
      /\ [run EXCEPT !.state[c] = s, !.phase[c] = f].state = [run.state EXCEPT ![c] = s]
      /\ [run EXCEPT !.state[c] = s, !.phase[c] = f].phase = [run.phase EXCEPT ![c] = f]
  BY <1>1, <1>2 DEF Run, f
<1>5. run.state \in [Cluster -> {"queued", "active", "failed", "complete"}]
      /\ run.phase \in [Cluster -> {"setup", "collecting", "collected", "parsed", "complete"}]
  BY DEF Run
<1>6. Reported(c) = [run EXCEPT !.state[c] = s, !.phase[c] = f]
  BY DEF Reported, s, f
<1> QED  BY <1>2, <1>3, <1>4, <1>5, <1>6

-----------------------------------------------------------------------------
(* Frames: what a step must respect to keep the parts of MultiInv. *)

\* A later parent checkpoint calls a cluster complete when, and as, earlier ones do.
LEMMA FinishedFrame ==
  ASSUME CompleteKept, AbsentForCause,
         \A c \in Cluster, p \in Parents' : p.state[c] = "complete" =>
             \E q \in Parents : q.state[c] = "complete" /\ q.phase[c] = p.phase[c],
         \A c \in Cluster : (\A q \in Parents : q.state[c] = "complete") =>
             \A p \in Parents' : p.state[c] = "complete",
         \A c \in Cluster : Kept(c) => Kept(c)',
         \A c \in Cluster : NoneCommitted(c)
                            \/ \A p \in Parents : p.state[c] = "complete"
  PROVE  CompleteKept' /\ AbsentForCause'
<1>1. CompleteKept'
  BY DEF CompleteKept
<1>2. ASSUME NEW c \in Cluster, Absent \in ckptDisk'[c]
      PROVE  Untouched(c)' \/ \A p \in Parents' : p.state[c] = "complete"
  <2>1. CASE NoneCommitted(c)
    BY <1>2, <2>1 DEF NoneCommitted, AbsentForCause
  <2>2. CASE \A p \in Parents : p.state[c] = "complete"
    BY <2>2
  <2> QED  BY <2>1, <2>2
<1> QED  BY <1>1, <1>2 DEF AbsentForCause

\* The parent stays and nothing becomes of the process.
LEMMA ParentFrame ==
  ASSUME UNCHANGED <<parentFile, run>>
  PROVE  /\ Parents' = Parents
         /\ ParentTypes => ParentTypes'
         /\ ParentRemoved => ParentRemoved'
BY DEF parentFile, Parents, ParentTypes, ParentRemoved

LEMMA SameKept ==
  ASSUME NEW c \in Cluster, UNCHANGED <<files, saved>>
  PROVE  /\ NoneCommitted(c) /\ (OutputThere(c) => OutputThere(c)')
         /\ pc'[c] \in {"off", "returned"} \/ (pc'[c] = pc[c] /\ cp'[c] = cp[c])
              => (Kept(c) => Kept(c)')
BY DEF files, saved, NoneCommitted, OutputThere, Untouched, Kept, FinalArtifact

\* A step of c leaves the other clusters as they are.
LEMMA OthersFrame ==
  ASSUME NEW c \in Cluster, Unaffected(c), NEW d \in Cluster \ {c}
  PROVE  /\ Kept(d) => Kept(d)'
         /\ NoneCommitted(d) /\ (OutputThere(d) => OutputThere(d)')
BY DEF Unaffected, FilesUnaffected, SavedUnaffected, RunUnaffected, Kept, FinalArtifact,
       NoneCommitted, OutputThere, Untouched

-----------------------------------------------------------------------------
(* The scheduler's steps that leave every pipeline alone. *)

LEMMA QuietChildren ==
  ASSUME MultiInv, UNCHANGED children, cancelled' \in BOOLEAN, Fault \/ UNCHANGED faults
  PROVE  /\ TypeOK' /\ (\A c \in Cluster : Sound(c)') /\ OutputKept' /\ pc' = pc
         /\ \A c \in Cluster : NoneCommitted(c) /\ (Kept(c) => Kept(c)')
<1> USE DEF MultiInv, MultiTypeOK
<1>1. UNCHANGED <<files, saved, control>> /\ pc' = pc /\ cp' = cp
  BY DEF children, control
<1>2. TypeOK'
  BY <1>1, FaultTypes DEF TypeOK, FileTypes, SavedTypes, RunTypes, files, saved, control
<1>3. \A c \in Cluster : Sound(c)'
  BY <1>1, SameSound
<1>4. ASSUME NEW c \in Cluster
      PROVE  NoneCommitted(c) /\ (Kept(c) => Kept(c)')
  BY <1>1 DEF files, saved, NoneCommitted, Untouched, Kept, FinalArtifact
<1>5. OutputKept'
  BY <1>1 DEF OutputKept, files
<1> QED  BY <1>1, <1>2, <1>3, <1>4, <1>5

LEMMA CreateInv == ASSUME MultiInv, Create PROVE MultiInv'
<1> USE DEF MultiInv, MultiTypeOK
<1>1. UNCHANGED <<children, cancelled>> /\ (Fault \/ UNCHANGED faults)
  BY DEF Create
<1>2. /\ TypeOK' /\ (\A c \in Cluster : Sound(c)') /\ OutputKept' /\ pc' = pc
      /\ \A c \in Cluster : Kept(c) => Kept(c)'
  BY <1>1, QuietChildren DEF TypeOK, RunTypes
<1>3. PICK n \in 1..MaxConcurrency :
        /\ \/ /\ parent' = NewRun(n) /\ NewRun(n) \in parentDisk'
              /\ parentDisk' \subseteq parentDisk \cup {NewRun(n)}
           \/ UNCHANGED parentFile
        /\ \/ parent' = NewRun(n) /\ ppc' = "starting" /\ run' = NewRun(n)
           \/ ppc' = "off" /\ run' = run
        /\ UNCHANGED <<next, spawned, persistFailed, cleanupFailed>>
  BY DEF Create, SaveRun, SaveRunFails, scheduler
<1>4. \A c \in Cluster : ~ArtifactExists(c) /\ Untouched(c) /\ Untouched(c)'
  <2>1. \A c \in Cluster : ~ArtifactExists(c) /\ Untouched(c)
    BY DEF Create, ArtifactExists, Untouched, OutputKept
  <2> QED  BY <1>1, <2>1 DEF Untouched, children, files
<1>5. \A c \in Cluster : ~Kept(c)
  BY <1>4 DEF Kept, FullArtifact, FinalArtifact, ArtifactExists
<1>6. \A p \in Parents' : p \in Parents \/ \A c \in Cluster : p.state[c] # "complete"
  <2>1. ASSUME NEW p \in parentDisk' \cup {run'}
        PROVE  p \in parentDisk \cup {run} \/ p = NewRun(n)
    BY <1>3, <2>1 DEF parentFile
  <2> QED  BY <2>1, NewRuns DEF Parents
<1>7. CompleteKept' /\ AbsentForCause'
  BY <1>4, <1>5, <1>6 DEF CompleteKept, AbsentForCause
<1>8. ParentTypes'
  BY <1>3, NewRuns DEF ParentTypes, parentFile
<1>9. SchedulerTypes'
  BY <1>3 DEF SchedulerTypes
<1>10. spawned = {} /\ ppc = "off" /\ run = NoRun /\ \A c \in Cluster : pc[c] = "off"
  BY DEF Create, ProcessControl
<1>11. ProcessControl'
  BY <1>2, <1>3, <1>10, NewRuns DEF ProcessControl
<1>12. ParentRemoved'
  BY <1>3, NewRuns DEF ParentRemoved, parentFile
<1>13. Launched'
  BY <1>3 DEF Launched
<1> QED  BY <1>2, <1>7, <1>8, <1>9, <1>11, <1>12, <1>13

LEMMA ResumeRunInv == ASSUME MultiInv, ResumeRun PROVE MultiInv'
<1> USE DEF MultiInv, MultiTypeOK
<1>1. UNCHANGED <<children, cancelled, faults, parentFile>>
  BY DEF ResumeRun, vars, children
<1>2. /\ TypeOK' /\ (\A c \in Cluster : Sound(c)') /\ OutputKept' /\ pc' = pc
      /\ \A c \in Cluster : NoneCommitted(c) /\ (Kept(c) => Kept(c)')
  BY <1>1, QuietChildren DEF TypeOK, RunTypes
<1>3. /\ run' \in Run /\ run'.exists /\ run'.state = parent.state /\ run'.phase = parent.phase
      /\ parent.exists /\ ppc = "off" /\ ppc' = "starting"
  BY TunedRun DEF ResumeRun, ValidRun, ParentTypes
<1>4. parent \in Parents /\ Parents' \subseteq Parents \cup {run'}
  BY <1>1, <1>3 DEF Parents, ParentTypes, parentFile
<1>5. CompleteKept' /\ AbsentForCause'
  <2>1. \A c \in Cluster, p \in Parents' : p.state[c] = "complete" =>
          \E q \in Parents : q.state[c] = "complete" /\ q.phase[c] = p.phase[c]
    BY <1>3, <1>4
  <2>2. \A c \in Cluster : (\A q \in Parents : q.state[c] = "complete") =>
          \A p \in Parents' : p.state[c] = "complete"
    BY <1>3, <1>4
  <2> QED  BY <1>2, <2>1, <2>2, FinishedFrame
<1>6. ParentTypes' /\ SchedulerTypes' /\ ParentRemoved'
  BY <1>1, <1>3 DEF ResumeRun, parentFile, ParentTypes, SchedulerTypes, ParentRemoved
<1>7. ProcessControl' /\ Launched'
  BY <1>1, <1>2, <1>3 DEF ResumeRun, parentFile, ProcessControl, Launched
<1> QED  BY <1>2, <1>5, <1>6, <1>7

LEMMA SaveStartInv == ASSUME MultiInv, SaveStart PROVE MultiInv'
<1> USE DEF MultiInv, MultiTypeOK
<1>1. UNCHANGED <<children, cancelled, faults>>
  BY DEF SaveStart, vars, children
<1>2. /\ TypeOK' /\ (\A c \in Cluster : Sound(c)') /\ OutputKept' /\ pc' = pc
      /\ \A c \in Cluster : NoneCommitted(c) /\ (Kept(c) => Kept(c)')
  BY <1>1, QuietChildren DEF TypeOK, RunTypes
<1>3. /\ parent' = run /\ parentDisk' = {run} /\ ppc = "starting" /\ ppc' = "scheduling"
      /\ UNCHANGED <<run, next, spawned, persistFailed, cleanupFailed>>
      /\ run.exists /\ spawned = {} /\ \A c \in Cluster : pc[c] = "off"
  BY DEF SaveStart, SaveRun, Proceed, ProcessControl
<1>4. Parents' = {run} /\ run \in Parents
  BY <1>3 DEF Parents
<1>5. CompleteKept' /\ AbsentForCause'
  BY <1>2, <1>4, FinishedFrame
<1>6. ParentTypes' /\ SchedulerTypes' /\ ParentRemoved'
  BY <1>3 DEF ParentTypes, SchedulerTypes, ParentRemoved
<1>7. ProcessControl' /\ Launched'
  BY <1>2, <1>3 DEF ProcessControl, Launched, Active
<1> QED  BY <1>2, <1>5, <1>6, <1>7

\* What holds while the scheduler may launch the next cluster.
LEMMA Scheduling ==
  ASSUME MultiInv, MayLaunch
  PROVE  /\ ppc = "scheduling" /\ next \in Cluster /\ ~persistFailed
         /\ parentDisk = {run} /\ run.exists /\ run \in Run /\ run \in Parents
         /\ next \notin Active
<1> USE DEF MultiInv, MultiTypeOK
<1>1. ppc = "scheduling" /\ next \in Cluster /\ ~persistFailed
  BY DEF MayLaunch
<1>2. ASSUME next \in Active
      PROVE  FALSE
  BY <1>1, <1>2, Index DEF Launched
<1> QED  BY <1>1, <1>2 DEF ProcessControl, ParentTypes, Parents

\* The scheduler goes on without touching a file.
LEMMA SilentStep ==
  ASSUME MultiInv, UNCHANGED <<children, parentFile, run>>,
         cancelled' \in BOOLEAN, Fault \/ UNCHANGED faults
  PROVE  /\ TypeOK' /\ (\A c \in Cluster : Sound(c)') /\ OutputKept' /\ pc' = pc
         /\ CompleteKept' /\ AbsentForCause' /\ ParentTypes' /\ ParentRemoved'
<1>1. /\ TypeOK' /\ (\A c \in Cluster : Sound(c)') /\ OutputKept' /\ pc' = pc
      /\ \A c \in Cluster : NoneCommitted(c) /\ (Kept(c) => Kept(c)')
  BY QuietChildren
<1>2. Parents' = Parents /\ ParentTypes' /\ ParentRemoved'
  BY ParentFrame DEF MultiInv, MultiTypeOK
<1>3. CompleteKept' /\ AbsentForCause'
  BY <1>1, <1>2, FinishedFrame DEF MultiInv
<1> QED  BY <1>1, <1>2, <1>3

LEMMA SkipCompleteInv == ASSUME MultiInv, SkipComplete PROVE MultiInv'
<1> USE DEF MultiInv, MultiTypeOK
<1>1. UNCHANGED <<children, parentFile, run, ppc, spawned, persistFailed, cleanupFailed>>
      /\ UNCHANGED <<cancelled, faults>>
  BY DEF SkipComplete, vars, children
<1>2. /\ TypeOK' /\ (\A c \in Cluster : Sound(c)') /\ OutputKept' /\ pc' = pc
      /\ CompleteKept' /\ AbsentForCause' /\ ParentTypes' /\ ParentRemoved'
  BY <1>1, SilentStep DEF TypeOK, RunTypes
<1>3. ppc = "scheduling" /\ next \in Cluster /\ next' = next + 1
  BY Scheduling DEF SkipComplete
<1>4. SchedulerTypes'
  BY <1>1, <1>3, Index DEF SchedulerTypes
<1>5. ProcessControl'
  BY <1>1, <1>2 DEF ProcessControl, parentFile
<1>6. Launched'
  <2>1. ASSUME NEW c \in Active
        PROVE  c < next'
    BY <1>3, <2>1, Index DEF Launched, Active, SchedulerTypes
  <2> QED  BY <1>1, <1>2, <1>3, <2>1 DEF Launched, Active, parentFile
<1> QED  BY <1>2, <1>4, <1>5, <1>6

LEMMA LaunchInv == ASSUME MultiInv, Launch PROVE MultiInv'
<1> USE DEF MultiInv, MultiTypeOK
<1>1. UNCHANGED <<children, ppc, persistFailed, cleanupFailed, cancelled, faults>>
  BY DEF Launch, vars, children
<1>2. /\ TypeOK' /\ (\A c \in Cluster : Sound(c)') /\ OutputKept' /\ pc' = pc
      /\ \A c \in Cluster : NoneCommitted(c) /\ (Kept(c) => Kept(c)')
  BY <1>1, QuietChildren DEF TypeOK, RunTypes
<1>3. /\ ppc = "scheduling" /\ next \in Cluster /\ ~persistFailed
      /\ parentDisk = {run} /\ run.exists /\ run \in Run /\ run \in Parents
      /\ next \notin Active /\ run.state[next] # "complete"
  BY Scheduling DEF Launch
<1>4. /\ run' \in Run /\ run'.exists /\ run'.phase = run.phase
      /\ run'.state[next] = "active"
      /\ \A d \in Cluster \ {next} : run'.state[d] = run.state[d]
      /\ parent' = run' /\ parentDisk' = {run'}
  BY <1>3, LaunchedRun DEF Launch, SaveRun
<1>5. Parents' = {run'}
  BY <1>4 DEF Parents
<1>6. CompleteKept' /\ AbsentForCause'
  <2>1. \A c \in Cluster, p \in Parents' : p.state[c] = "complete" =>
          \E q \in Parents : q.state[c] = "complete" /\ q.phase[c] = p.phase[c]
    BY <1>3, <1>4, <1>5
  <2>2. \A c \in Cluster : (\A q \in Parents : q.state[c] = "complete") =>
          \A p \in Parents' : p.state[c] = "complete"
    BY <1>3, <1>4, <1>5
  <2> QED  BY <1>2, <2>1, <2>2, FinishedFrame
<1>7. ParentTypes' /\ ParentRemoved'
  BY <1>4 DEF ParentTypes, ParentRemoved
<1>8. spawned' = spawned \cup {next} /\ next' = next + 1
  BY DEF Launch
<1>9. SchedulerTypes'
  BY <1>1, <1>3, <1>8, Index DEF SchedulerTypes
<1>10. ProcessControl'
  BY <1>1, <1>2, <1>3, <1>4 DEF ProcessControl
<1>11. Launched'
  <2>1. Active' = Active \cup {next}
    BY <1>2, <1>8 DEF Active
  <2>2. ASSUME NEW c \in Active
        PROVE  /\ c < next' /\ (c \in spawned' => pc'[c] = "off") /\ run'.state[c] = "active"
    <3>1. c \in Cluster /\ c < next /\ run.state[c] = "active" /\ (c \in spawned => pc[c] = "off")
      BY <1>3, <2>2 DEF Launched, Active, SchedulerTypes
    <3>2. c # next
      BY <1>3, <2>2
    <3>3. c < next'
      BY <1>3, <1>8, <3>1, Index
    <3> QED  BY <1>2, <1>4, <1>8, <3>1, <3>2, <3>3
  <2>3. next < next' /\ pc'[next] = "off" /\ run'.state[next] = "active"
    <3>1. next < next'
      BY <1>3, <1>8, Index
    <3> QED  BY <1>2, <1>3, <1>4, <3>1 DEF Active
  <2> QED  BY <1>4, <2>1, <2>2, <2>3 DEF Launched
<1> QED  BY <1>2, <1>6, <1>7, <1>9, <1>10, <1>11

LEMMA LaunchFailsInv == ASSUME MultiInv, LaunchFails PROVE MultiInv'
<1> USE DEF MultiInv, MultiTypeOK
<1>1. UNCHANGED <<children, ppc, spawned, cleanupFailed>> /\ cancelled' = TRUE /\ Fault
  BY DEF LaunchFails
<1>2. /\ TypeOK' /\ (\A c \in Cluster : Sound(c)') /\ OutputKept' /\ pc' = pc
      /\ \A c \in Cluster : NoneCommitted(c) /\ (Kept(c) => Kept(c)')
  BY <1>1, QuietChildren
<1>3. /\ ppc = "scheduling" /\ next \in Cluster
      /\ parentDisk = {run} /\ run.exists /\ run \in Run /\ run \in Parents
      /\ next \notin Active /\ run.state[next] # "complete"
      /\ parent = run
  BY Scheduling DEF LaunchFails, ParentTypes
<1>4. /\ run' \in Run /\ run'.exists /\ run'.phase = run.phase
      /\ run'.state[next] = "active"
      /\ \A d \in Cluster \ {next} : run'.state[d] = run.state[d]
  BY <1>3, LaunchedRun DEF LaunchFails
<1>5. parent' \in parentDisk' /\ parentDisk' \subseteq {run, run'}
  BY <1>3 DEF LaunchFails, SaveRunFails, parentFile
<1>6. Parents' \subseteq {run, run'}
  BY <1>5 DEF Parents
<1>7. CompleteKept' /\ AbsentForCause'
  <2>1. \A c \in Cluster, p \in Parents' : p.state[c] = "complete" =>
          \E q \in Parents : q.state[c] = "complete" /\ q.phase[c] = p.phase[c]
    BY <1>3, <1>4, <1>6
  <2>2. \A c \in Cluster : (\A q \in Parents : q.state[c] = "complete") =>
          \A p \in Parents' : p.state[c] = "complete"
    BY <1>3, <1>4, <1>6
  <2> QED  BY <1>2, <2>1, <2>2, FinishedFrame
<1>8. ParentTypes' /\ ParentRemoved'
  BY <1>3, <1>4, <1>5 DEF ParentTypes, ParentRemoved
<1>9. next' = next + 1 /\ persistFailed' = TRUE
  BY DEF LaunchFails
<1>10. SchedulerTypes'
  BY <1>1, <1>3, <1>9, Index DEF SchedulerTypes
<1>11. ProcessControl'
  BY <1>1, <1>2, <1>3, <1>4, <1>5, <1>9 DEF ProcessControl
<1>12. Launched'
  <2>1. Active' = Active
    BY <1>1, <1>2 DEF Active
  <2>2. ASSUME NEW c \in Active
        PROVE  /\ c < next' /\ (c \in spawned' => pc'[c] = "off")
               /\ run'.state[c] = "active" /\ run.state[c] = "active"
    <3>1. c \in Cluster /\ c < next /\ run.state[c] = "active" /\ (c \in spawned => pc[c] = "off")
      BY <1>3, <2>2 DEF Launched, Active, SchedulerTypes
    <3>2. c # next
      BY <1>3, <2>2
    <3>3. c < next'
      BY <1>3, <1>9, <3>1, Index
    <3> QED  BY <1>1, <1>2, <1>4, <3>1, <3>2, <3>3
  <2> QED  BY <1>5, <2>1, <2>2 DEF Launched
<1> QED  BY <1>2, <1>7, <1>8, <1>10, <1>11, <1>12

\* The steps that neither launch nor save nor remove anything.
LEMMA IdleInv ==
  ASSUME MultiInv, EndScheduling \/ CleanClusterFails \/ CancelRun
  PROVE  MultiInv'
<1> USE DEF MultiInv, MultiTypeOK
<1>1. UNCHANGED <<children, parentFile, run, spawned, persistFailed>>
      /\ (cancelled' = TRUE \/ UNCHANGED cancelled) /\ (Fault \/ UNCHANGED faults)
  BY DEF EndScheduling, CleanClusterFails, CancelRun, vars, children, scheduler
<1>2. /\ TypeOK' /\ (\A c \in Cluster : Sound(c)') /\ OutputKept' /\ pc' = pc
      /\ CompleteKept' /\ AbsentForCause' /\ ParentTypes' /\ ParentRemoved'
  BY <1>1, SilentStep DEF TypeOK, RunTypes
<1>3. CASE EndScheduling
  <2>1. ppc = "scheduling" /\ ppc' = "cleaning" /\ next' = 1 /\ UNCHANGED cleanupFailed
    BY <1>3 DEF EndScheduling
  <2>2. spawned = {} /\ \A c \in Cluster : pc[c] = "off"
    BY <1>3 DEF EndScheduling, Active
  <2>3. SchedulerTypes'
    BY <1>1, <2>1, Index DEF SchedulerTypes
  <2>4. ProcessControl' /\ Launched'
    BY <1>1, <1>2, <2>1, <2>2 DEF ProcessControl, Launched, parentFile
  <2> QED  BY <1>2, <2>3, <2>4
<1>4. CASE CleanClusterFails
  <2>1. ppc = "cleaning" /\ ppc' = ppc /\ next \in Cluster /\ next' = next + 1 /\ cleanupFailed' = TRUE
    BY <1>4 DEF CleanClusterFails
  <2>2. SchedulerTypes'
    BY <1>1, <2>1, Index DEF SchedulerTypes
  <2>3. ProcessControl' /\ Launched'
    BY <1>1, <1>2, <2>1 DEF ProcessControl, Launched, parentFile
  <2> QED  BY <1>2, <2>2, <2>3
<1>5. CASE CancelRun
  <2>1. UNCHANGED scheduler
    BY <1>5 DEF CancelRun
  <2>2. SchedulerTypes'
    BY <2>1 DEF SchedulerTypes, scheduler
  <2>3. ProcessControl' /\ Launched'
    BY <1>1, <1>2, <2>1 DEF ProcessControl, Launched, Active, parentFile, scheduler
  <2> QED  BY <1>2, <2>2, <2>3
<1> QED  BY <1>3, <1>4, <1>5

-----------------------------------------------------------------------------
(* The steps of one pipeline. *)

\* What each of them does to its own cluster and leaves of the others.
PipelineMoves(c) ==
  /\ TypeOK' /\ Unaffected(c) /\ Sound(c)' /\ OutputThere(c)'
  /\ Kept(c) => Kept(c)'
  /\ NoneCommitted(c) \/ \A p \in Parents : p.state[c] = "complete"

LEMMA PipelineFrame ==
  ASSUME MultiInv, NEW c \in Cluster, PipelineMoves(c), UNCHANGED <<parentFile, run>>
  PROVE  /\ TypeOK' /\ (\A d \in Cluster : Sound(d)') /\ OutputKept'
         /\ CompleteKept' /\ AbsentForCause' /\ ParentTypes' /\ ParentRemoved'
<1> USE DEF MultiInv, MultiTypeOK, PipelineMoves
<1>1. \A d \in Cluster : Sound(d)'
  BY OneSteps
<1>2. OutputKept'
  BY OthersFrame DEF OutputKept, OutputThere
<1>3. Parents' = Parents /\ ParentTypes' /\ ParentRemoved'
  BY ParentFrame
<1>4. \A d \in Cluster : Kept(d) => Kept(d)'
  BY OthersFrame
<1>5. \A d \in Cluster : NoneCommitted(d) \/ \A p \in Parents : p.state[d] = "complete"
  BY OthersFrame
<1>6. CompleteKept' /\ AbsentForCause'
  BY <1>3, <1>4, <1>5, FinishedFrame
<1> QED  BY <1>1, <1>2, <1>3, <1>6

\* In a scheduled run, or in the child resumed on its own.
LEMMA PipelineInv ==
  ASSUME MultiInv, NEW c \in Cluster, PipelineMoves(c), c \in Active,
         spawned' = spawned \ {c},
         UNCHANGED <<parentFile, run, ppc, next, persistFailed, cleanupFailed>>
  PROVE  MultiInv'
<1> USE DEF MultiInv, MultiTypeOK
<1>1. /\ TypeOK' /\ (\A d \in Cluster : Sound(d)') /\ OutputKept'
      /\ CompleteKept' /\ AbsentForCause' /\ ParentTypes' /\ ParentRemoved'
  BY PipelineFrame
<1>2. SchedulerTypes'
  BY DEF SchedulerTypes
<1>3. \A d \in Cluster \ {c} : pc'[d] = pc[d]
  BY DEF PipelineMoves, Unaffected, RunUnaffected
<1>4. ppc \in {"scheduling", "child"}
  BY DEF ProcessControl, Active, SchedulerTypes
<1>5. ProcessControl'
  BY <1>4 DEF ProcessControl, parentFile
<1>6. Launched'
  <2>1. ASSUME NEW d \in Active'
        PROVE  d \in Active /\ (d \in spawned' => pc'[d] = "off")
    <3>1. CASE d = c
      BY <3>1
    <3>2. CASE d # c
      <4>1. d \in Active
        BY <1>3, <2>1, <3>2 DEF Active, SchedulerTypes
      <4>2. ppc = "child" => spawned = {}
        BY DEF ProcessControl
      <4>3. d \in spawned => d \in Cluster /\ pc[d] = "off"
        BY <1>4, <4>1, <4>2 DEF Launched, SchedulerTypes
      <4> QED  BY <1>3, <3>2, <4>1, <4>3
    <3> QED  BY <3>1, <3>2
  <2> QED  BY <2>1 DEF Launched, parentFile
<1> QED  BY <1>1, <1>2, <1>5, <1>6

LEMMA LaunchMoves ==
  ASSUME MultiInv, NEW c \in Cluster, Launches(c)
  PROVE  PipelineMoves(c)
BY StartsBegin, KeptStarts, LaunchCommitsNothing
DEF MultiInv, MultiTypeOK, PipelineMoves, OutputKept, OutputThere

\* A pipeline ends with an error and has touched no file.
LEMMA GiveUpMoves ==
  ASSUME MultiInv, NEW c \in Cluster,
         NEW phase \in {"", "setup", "collecting", "collected", "parsed", "complete"},
         Return(c, phase, FALSE), Fault \/ UNCHANGED faults,
         UNCHANGED <<files, saved, cp, partial, cancelled>>
  PROVE  PipelineMoves(c)
<1> USE DEF MultiInv, MultiTypeOK
<1>1. TypeOK' /\ Unaffected(c)
  BY ReturnTypes DEF TypeOK, files, saved, FileTypes, SavedTypes, Unaffected, FilesUnaffected,
                     SavedUnaffected
<1>2. Sound(c)'
  <2>1. DiskPromises(c)'
    BY DEF Sound, DiskPromises, Promised, CanResume, Artifact, files, saved
  <2> QED  BY <2>1, ReturnSound DEF Sound, files
<1>3. Kept(c) => Kept(c)'
  BY KeptReturn
<1>4. NoneCommitted(c) /\ OutputThere(c)'
  BY SameKept DEF OutputKept, OutputThere
<1> QED  BY <1>1, <1>2, <1>3, <1>4 DEF PipelineMoves

LEMMA CollectMoves ==
  ASSUME MultiInv, NEW c \in Cluster, CollectStep(c)
  PROVE  PipelineMoves(c)
BY CollectTypes, CollectSound, KeptCollect, CollectCommitsNothing
DEF MultiInv, MultiTypeOK, PipelineMoves, OutputKept, OutputThere

\* A child without a parent removes its checkpoint: the parent, if one may come
\* back, knows every cluster complete.
LEMMA ProcessMoves ==
  ASSUME MultiInv, NEW c \in Cluster, ProcessStep(c, parent.exists)
  PROVE  PipelineMoves(c)
<1> USE DEF MultiInv, MultiTypeOK
<1>1. parent.exists \in BOOLEAN
  BY DEF ParentTypes, Run
<1>2. TypeOK' /\ Unaffected(c) /\ Sound(c)'
  BY <1>1, ProcessTypes, ProcessSound DEF Sound
<1>3. Kept(c) => Kept(c)'
  BY <1>1, KeptProcess
<1>4. (Absent \in ckptDisk'[c] => ~parent.exists) /\ OutputThere(c)'
  BY <1>1, ProcessCommitsNothing DEF OutputKept, OutputThere
<1>5. ~parent.exists => \A p \in Parents : p.state[c] = "complete"
  <2>1. pc[c] # "off"
    BY DEF ProcessStep, ProcessingCancelled, SkipParse, Parse, ParseFails, SaveParsed, SkipZip,
           Zip, ZipFails, ReturnPartial, SaveComplete, SavePhaseFails, Clean, CleanFails
  <2>2. ppc \in {"scheduling", "child"}
    BY <2>1 DEF ProcessControl, SchedulerTypes
  <2>3. ~parent.exists => ~run.exists
    BY <2>2, NewRuns DEF ProcessControl, ParentTypes
  <2> QED  BY <2>3 DEF Parents, ParentRemoved
<1> QED  BY <1>2, <1>3, <1>4, <1>5 DEF PipelineMoves, NoneCommitted

LEMMA GoroutineInv ==
  ASSUME MultiInv, NEW c \in Cluster, GoroutineStep(c)
  PROVE  MultiInv'
<1>1. CASE PrepareNew(c) \/ PrepareResume(c)
  <2>1. Launches(c)
    BY <1>1 DEF PrepareNew, PrepareResume, Refused, Launches, Begins, BeginNew, BeginResume,
                BeginResumeFinished, BeginResumeFinishedFails, CanResume
  <2> QED
    BY <1>1, <2>1, LaunchMoves, PipelineInv DEF PrepareNew, PrepareResume, Prepared, Active
<1>2. CASE PrepareRefused(c) \/ CredentialsFail(c)
  <2>1. PipelineMoves(c)
    BY <1>2, GiveUpMoves DEF PrepareRefused, CredentialsFail
  <2> QED
    BY <1>2, <2>1, PipelineInv DEF PrepareRefused, CredentialsFail, Prepared, Active
<1>3. pc[c] # "off" => c \in Active /\ c \notin spawned
  BY DEF Active, Launched, ProcessControl, MultiInv
<1>4. CASE Panic(c)
  <2>1. PipelineMoves(c)
    BY <1>4, GiveUpMoves DEF Panic
  <2> QED  BY <1>3, <1>4, <2>1, PipelineInv DEF Panic, Running, scheduler
<1>5. CASE ChildStep(c)
  <2>1. PipelineMoves(c)
    BY <1>5, CollectMoves, ProcessMoves DEF ChildStep
  <2>2. pc[c] # "off"
    BY <1>5
    DEF ChildStep, CollectStep, SetupFails, SetupCancelled, OpenOutput, SavePlan, SavePlanFails,
        AppendJob, CommitJob, CommitJobFails, CollectCancelled, CollectPartial, CollectComplete,
        CollectCompleteFails, ProcessStep, ProcessingCancelled, SkipParse, Parse, ParseFails,
        SaveParsed, SkipZip, Zip, ZipFails, ReturnPartial, SaveComplete, SavePhaseFails, Clean,
        CleanFails
  <2> QED  BY <1>3, <1>5, <2>1, <2>2, PipelineInv DEF ChildStep, scheduler
<1> QED  BY <1>1, <1>2, <1>4, <1>5 DEF GoroutineStep

LEMMA ResumeChildInv ==
  ASSUME MultiInv, NEW c \in Cluster, ResumeChild(c)
  PROVE  MultiInv'
<1> USE DEF MultiInv, MultiTypeOK
<1>1. Launches(c)
  BY DEF ResumeChild, Launches, Begins, BeginNew, BeginResume, BeginResumeFinished,
         BeginResumeFinishedFails, CanResume
<1>2. /\ ppc = "off" /\ ppc' = "child"
      /\ UNCHANGED <<run, next, spawned, persistFailed, cleanupFailed, parentFile>>
  BY DEF ResumeChild, Proceed
<1>3. /\ TypeOK' /\ (\A d \in Cluster : Sound(d)') /\ OutputKept'
      /\ CompleteKept' /\ AbsentForCause' /\ ParentTypes' /\ ParentRemoved'
  BY <1>1, <1>2, LaunchMoves, PipelineFrame
<1>4. SchedulerTypes'
  BY <1>2 DEF SchedulerTypes
<1>5. ProcessControl' /\ Launched'
  BY <1>2 DEF ProcessControl, Launched
<1> QED  BY <1>3, <1>4, <1>5

-----------------------------------------------------------------------------
(* The scheduler takes a report, and removes checkpoints. *)

LEMMA ReceiveChild ==
  ASSUME MultiInv, NEW c \in Cluster, Receive(c), cancelled' \in BOOLEAN,
         Fault \/ UNCHANGED faults
  PROVE  /\ TypeOK' /\ (\A d \in Cluster : Sound(d)') /\ OutputKept'
         /\ pc'[c] = "off" /\ \A d \in Cluster \ {c} : pc'[d] = pc[d]
         /\ \A d \in Cluster : NoneCommitted(d) /\ (Kept(d) => Kept(d)')
<1> USE DEF MultiInv, MultiTypeOK
<1>1. /\ UNCHANGED <<files, saved>>
      /\ pc' = [pc EXCEPT ![c] = "off"] /\ cp' = [cp EXCEPT ![c] = Absent]
      /\ partial' = [partial EXCEPT ![c] = FALSE] /\ result' = [result EXCEPT ![c] = NoResult]
  BY DEF Receive
<1>2. NoResult \in ResultType /\ ~NoResult.ok
  BY DEF NoResult, ResultType
<1>3. RunTypes' /\ RunUnaffected(c)
  <2>1. faults' \in 0..MaxFaults
    BY FaultTypes DEF TypeOK
  <2>2. /\ pc' \in [Cluster -> Label] /\ cp' \in [Cluster -> Checkpoint]
        /\ partial' \in [Cluster -> BOOLEAN] /\ result' \in [Cluster -> ResultType]
    BY <1>1, <1>2, AbsentType DEF TypeOK, RunTypes, Label
  <2>3. RunUnaffected(c)
    BY <1>1 DEF RunUnaffected, TypeOK, RunTypes
  <2> QED  BY <2>1, <2>2, <2>3 DEF RunTypes
<1>4. TypeOK' /\ Unaffected(c)
  BY <1>1, <1>3 DEF TypeOK, files, saved, FileTypes, SavedTypes, Unaffected, FilesUnaffected,
                    SavedUnaffected
<1>5. pc'[c] = "off" /\ ~result'[c].ok /\ \A d \in Cluster \ {c} : pc'[d] = pc[d]
  BY <1>1, <1>2 DEF TypeOK, RunTypes
<1>6. Sound(c)'
  <2>1. DiskPromises(c)'
    BY <1>1 DEF Sound, DiskPromises, Promised, CanResume, Artifact, files, saved
  <2> QED
    BY <1>1, <1>5, <2>1
    DEF Sound, Preparing, Collecting, Processing, Advancing, Succeeded, PostProcessing, files
<1>7. \A d \in Cluster : Sound(d)'
  BY <1>4, <1>6, OneSteps
<1>8. OutputKept'
  BY <1>1 DEF OutputKept, files
<1>9. ASSUME NEW d \in Cluster
      PROVE  NoneCommitted(d) /\ (Kept(d) => Kept(d)')
  <2>1. pc'[d] = "off" \/ (pc'[d] = pc[d] /\ cp'[d] = cp[d])
    BY <1>4, <1>5 DEF Unaffected, RunUnaffected
  <2> QED  BY <1>1, <2>1, SameKept
<1> QED  BY <1>4, <1>5, <1>7, <1>8, <1>9

\* A report of success comes from a finished cluster.
LEMMA ReceiveInv ==
  ASSUME MultiInv, NEW c \in Cluster, ReceiveEvent(c) \/ ReceiveEventFails(c)
  PROVE  MultiInv'
<1> USE DEF MultiInv, MultiTypeOK
<1>1. /\ Receive(c) /\ cancelled' \in BOOLEAN /\ (Fault \/ UNCHANGED faults)
      /\ ppc = "scheduling" /\ ppc' = ppc /\ pc[c] = "returned" /\ run' = Reported(c)
      /\ UNCHANGED <<next, spawned, cleanupFailed>>
  BY DEF ReceiveEvent, ReceiveEventFails, Receive, TypeOK, RunTypes
<1>2. /\ TypeOK' /\ (\A d \in Cluster : Sound(d)') /\ OutputKept'
      /\ pc'[c] = "off" /\ \A d \in Cluster \ {c} : pc'[d] = pc[d]
      /\ \A d \in Cluster : NoneCommitted(d) /\ (Kept(d) => Kept(d)')
  BY <1>1, ReceiveChild
<1>3. /\ run' \in Run /\ run'.exists = run.exists
      /\ run'.state[c] = "complete" => result[c].ok
      /\ result[c].ok /\ result[c].phase = "complete" => run'.phase[c] = "complete"
      /\ \A d \in Cluster \ {c} : run'.state[d] = run.state[d] /\ run'.phase[d] = run.phase[d]
  BY <1>1, ReportedRun DEF ParentTypes, TypeOK, RunTypes
<1>4. /\ c \in Active /\ c \notin spawned
      /\ \A p \in parentDisk \cup {run} : p.state[c] = "active"
      /\ run.exists /\ run \in Run /\ \A p \in parentDisk : p.exists
  BY <1>1 DEF Active, Launched, ProcessControl, ParentTypes
<1>5. /\ parentDisk' \subseteq parentDisk \cup {run'} /\ parent' \in parentDisk'
      /\ persistFailed' \in BOOLEAN /\ (~persistFailed' => parentDisk' = {run'})
  <2>1. CASE ReceiveEvent(c)
    <3>1. CASE persistFailed
      BY <2>1, <3>1 DEF ReceiveEvent, parentFile, ParentTypes
    <3>2. CASE ~persistFailed
      BY <2>1, <3>2 DEF ReceiveEvent, SaveRun, SchedulerTypes
    <3> QED  BY <3>1, <3>2
  <2>2. CASE ReceiveEventFails(c)
    BY <2>2 DEF ReceiveEventFails, SaveRunFails, parentFile, ParentTypes
  <2> QED  BY <2>1, <2>2
<1>6. result[c].ok => result[c].phase = "complete" /\ Kept(c)'
  <2>1. ASSUME result[c].ok
        PROVE  result[c].phase = "complete" /\ Kept(c)
    BY <1>1, <2>1 DEF Sound, Succeeded, Kept
  <2> QED  BY <1>2, <2>1
<1>7. \A p \in Parents' : p \in Parents \/ p = run'
  BY <1>5 DEF Parents
<1>8. run \in Parents
  BY <1>4 DEF Parents
<1>9. CompleteKept'
  <2>1. ASSUME NEW d \in Cluster, run'.state[d] = "complete"
        PROVE  run'.phase[d] = "complete" /\ Kept(d)'
    <3>1. CASE d = c
      BY <1>3, <1>6, <2>1, <3>1
    <3>2. CASE d # c
      BY <1>2, <1>3, <1>8, <2>1, <3>2 DEF CompleteKept
    <3> QED  BY <3>1, <3>2
  <2> QED  BY <1>2, <1>7, <2>1 DEF CompleteKept
<1>10. AbsentForCause'
  <2>1. ASSUME NEW d \in Cluster, Absent \in ckptDisk'[d], ~Untouched(d)'
        PROVE  \A p \in Parents' : p.state[d] = "complete"
    <3>1. \A p \in Parents : p.state[d] = "complete"
      BY <1>2, <2>1 DEF NoneCommitted, AbsentForCause
    <3>2. d # c
      BY <1>4, <1>8, <3>1
    <3> QED  BY <1>3, <1>7, <1>8, <3>1, <3>2
  <2> QED  BY <2>1 DEF AbsentForCause
<1>11. ParentTypes' /\ ParentRemoved'
  BY <1>3, <1>4, <1>5 DEF ParentTypes, ParentRemoved
<1>12. SchedulerTypes'
  BY <1>1, <1>5 DEF SchedulerTypes
<1>13. ProcessControl'
  BY <1>1, <1>3, <1>4, <1>5 DEF ProcessControl
<1>14. Launched'
  <2>1. ASSUME NEW d \in Active'
        PROVE  d \in Active \ {c}
    BY <1>1, <1>2, <1>4, <2>1 DEF Active, SchedulerTypes
  <2>2. ASSUME NEW d \in Active \ {c}
        PROVE  /\ d \in Cluster /\ d < next /\ (d \in spawned => pc'[d] = "off")
               /\ \A p \in parentDisk \cup {run, run'} : p.state[d] = "active"
    <3>1. /\ d \in Cluster /\ d < next /\ (d \in spawned => pc[d] = "off")
          /\ \A p \in parentDisk \cup {run} : p.state[d] = "active"
      BY <1>1 DEF Launched, Active, SchedulerTypes
    <3> QED  BY <1>2, <1>3, <3>1
  <2> QED  BY <1>1, <1>5, <2>1, <2>2 DEF Launched
<1> QED  BY <1>2, <1>9, <1>10, <1>11, <1>12, <1>13, <1>14

\* The parent is durable and knows the cluster complete.
LEMMA CleanClusterInv == ASSUME MultiInv, CleanCluster PROVE MultiInv'
<1> USE DEF MultiInv, MultiTypeOK
<1>1. /\ ppc = "cleaning" /\ next \in Cluster /\ next' = next + 1
      /\ UNCHANGED <<ppc, run, spawned, persistFailed, cleanupFailed, parentFile, files,
                     control, cancelled, faults>>
  BY DEF CleanCluster
<1>2. pc' = pc /\ \A c \in Cluster : pc[c] = "off" /\ ~result[c].ok
  BY <1>1 DEF control, ProcessControl, Sound, Succeeded
<1>3. UNCHANGED saved
      \/ /\ ckpt' = [ckpt EXCEPT ![next] = Absent]
         /\ ckptDisk' = [ckptDisk EXCEPT ![next] = @ \cup {Absent}]
         /\ \A p \in Parents : p.state[next] = "complete"
  BY <1>1 DEF CleanCluster, ProcessControl, Parents
<1>4. ASSUME NEW c \in Cluster
      PROVE  \/ ckpt'[c] = ckpt[c] /\ ckptDisk'[c] = ckptDisk[c]
             \/ /\ ckpt'[c] = Absent /\ ckptDisk'[c] = ckptDisk[c] \cup {Absent}
                /\ \A p \in Parents : p.state[c] = "complete"
  BY <1>1, <1>3 DEF saved, TypeOK, SavedTypes
<1>5. TypeOK'
  <2>1. SavedTypes'
    BY <1>1, <1>3, AbsentType DEF saved, TypeOK, SavedTypes
  <2> QED  BY <1>1, <2>1 DEF TypeOK, files, control, FileTypes, RunTypes
<1>6. ASSUME NEW c \in Cluster
      PROVE  Sound(c)'
  <2>1. DiskPromises(c)'
    <3>1. \A k \in Checkpoint : Promised(c, k) => Promised(c, k)'
      BY <1>1 DEF Promised, CanResume, Artifact, files
    <3>2. Promised(c, Absent)
      BY Shapes DEF Promised, Written, Processed
    <3>3. Absent \in Checkpoint /\ ckptDisk[c] \subseteq Checkpoint
      BY AbsentType DEF TypeOK, SavedTypes
    <3>4. CASE ckpt'[c] = ckpt[c] /\ ckptDisk'[c] = ckptDisk[c]
      BY <3>1, <3>3, <3>4 DEF Sound, DiskPromises
    <3>5. CASE ckpt'[c] = Absent /\ ckptDisk'[c] = ckptDisk[c] \cup {Absent}
      BY <3>1, <3>2, <3>3, <3>5 DEF Sound, DiskPromises
    <3> QED  BY <1>4, <3>4, <3>5
  <2>2. pc'[c] = "off" /\ ~result'[c].ok /\ ~json'[c].tail /\ ~zipped'[c].tail
    BY <1>1, <1>2 DEF control, files, Sound
  <2> QED
    BY <2>1, <2>2
    DEF Sound, Preparing, Collecting, Processing, Advancing, Succeeded, PostProcessing
<1>7. ASSUME NEW c \in Cluster, Kept(c)
      PROVE  Kept(c)'
  BY <1>1, <1>2, <1>4, <1>7, Shapes DEF Kept, FinalArtifact, files
<1>8. ASSUME NEW c \in Cluster
      PROVE  NoneCommitted(c) \/ \A p \in Parents : p.state[c] = "complete"
  BY <1>1, <1>4 DEF NoneCommitted, Untouched, files
<1>9. Parents' = Parents /\ ParentTypes' /\ ParentRemoved'
  BY <1>1, ParentFrame
<1>10. CompleteKept' /\ AbsentForCause'
  BY <1>7, <1>8, <1>9, FinishedFrame
<1>11. OutputKept'
  BY <1>1 DEF OutputKept, files
<1>12. SchedulerTypes'
  BY <1>1, Index DEF SchedulerTypes
<1>13. ProcessControl' /\ Launched'
  BY <1>1, <1>2 DEF ProcessControl, Launched, parentFile
<1> QED  BY <1>5, <1>6, <1>9, <1>10, <1>11, <1>12, <1>13

-----------------------------------------------------------------------------
(* The end of the process. *)

\* Nothing but files remains, and they only lose what was not durable.
LEMMA EndFrame ==
  ASSUME MultiInv, SchedulerEnds, Fault \/ UNCHANGED faults,
         UNCHANGED <<files, saved>> \/ DiskAfterPowerLoss,
         \A p \in parentDisk' : p.exists => p \in Parents
  PROVE  /\ TypeOK' /\ (\A c \in Cluster : Sound(c)') /\ OutputKept'
         /\ CompleteKept' /\ AbsentForCause'
         /\ SchedulerTypes' /\ ProcessControl' /\ Launched' /\ run' \in Run
<1> USE DEF MultiInv, MultiTypeOK
<1>1. /\ ProcessEnds /\ ppc' = "off" /\ run' = NoRun /\ next' = 1 /\ spawned' = {}
      /\ persistFailed' = FALSE /\ cleanupFailed' = FALSE
  BY DEF SchedulerEnds
<1>2. \A c \in Cluster : pc'[c] = "off"
  BY <1>1 DEF ProcessEnds
<1>3. TypeOK'
  <2>1. FileTypes' /\ SavedTypes'
    BY PowerLossTypes DEF TypeOK, FileTypes, SavedTypes, files, saved
  <2>2. RunTypes'
    BY <1>1, EndedTypes DEF TypeOK
  <2> QED  BY <2>1, <2>2 DEF TypeOK
<1>4. \A c \in Cluster : Sound(c)'
  BY <1>1, EndedSound, PowerLossSound
<1>5. /\ json' = json /\ zipped' = zipped
      /\ \A c \in Cluster : /\ ckptDisk'[c] \subseteq ckptDisk[c]
                            /\ output'[c].exists = output[c].exists
                            /\ output'[c].jobs = output[c].jobs
                            /\ output'[c].tail => output[c].tail
  <2>1. CASE UNCHANGED <<files, saved>>
    BY <2>1 DEF files, saved
  <2>2. CASE DiskAfterPowerLoss
    BY <2>2 DEF DiskAfterPowerLoss, TypeOK, FileTypes, FileType
  <2> QED  BY <2>1, <2>2
<1>6. OutputKept'
  BY <1>5 DEF OutputKept
<1>7. ASSUME NEW c \in Cluster
      PROVE  NoneCommitted(c) /\ (Kept(c) => Kept(c)')
  <2>1. NoneCommitted(c)
    BY <1>5 DEF NoneCommitted, Untouched
  <2>2. FullArtifact(FinalArtifact(c)) => FullArtifact(FinalArtifact(c))'
    BY <1>5 DEF FullArtifact, FinalArtifact
  <2> QED  BY <1>2, <1>5, <2>1, <2>2 DEF Kept
<1>8. \A p \in Parents' : p \in Parents
  BY <1>1, NewRuns DEF Parents
<1>9. CompleteKept' /\ AbsentForCause'
  BY <1>7, <1>8, FinishedFrame
<1>10. SchedulerTypes'
  BY <1>1, Index DEF SchedulerTypes
<1>11. ProcessControl' /\ Launched'
  BY <1>1, <1>2 DEF ProcessControl, Launched
<1> QED  BY <1>1, <1>3, <1>4, <1>6, <1>9, <1>10, <1>11, NewRuns

LEMMA EndInv ==
  ASSUME MultiInv,
         \/ SaveStartFails \/ Finish \/ KillRun \/ RunPowerLoss
         \/ \E c \in Cluster : ExitChild(c)
  PROVE  MultiInv'
<1> USE DEF MultiInv, MultiTypeOK
<1>1. CASE SaveStartFails
  <2>1. /\ SchedulerEnds /\ Fault /\ UNCHANGED <<files, saved>>
        /\ run.exists /\ run \in Run
        /\ UNCHANGED parentFile \/ (parent' = run /\ parentDisk' = parentDisk \cup {run})
    BY <1>1 DEF SaveStartFails, SaveRunFails, ProcessControl, ParentTypes
  <2>2. \A p \in parentDisk' : p.exists => p \in Parents
    BY <2>1 DEF Parents, parentFile
  <2>3. (ParentTypes /\ run' \in Run => ParentTypes') /\ ParentRemoved'
    BY <2>1 DEF ParentTypes, ParentRemoved, parentFile
  <2> QED  BY <2>1, <2>2, <2>3, EndFrame
<1>2. CASE Finish
  <2>1. /\ SchedulerEnds /\ (Fault \/ UNCHANGED faults) /\ UNCHANGED <<files, saved>>
        /\ \/ UNCHANGED parentFile
           \/ RunComplete /\ parent' = NoRun /\ parentDisk' = parentDisk \cup {NoRun}
    BY <1>2 DEF Finish
  <2>2. \A p \in parentDisk' : p.exists => p \in Parents
    BY <2>1, NewRuns DEF Parents, parentFile
  <2>3. RunComplete => parentDisk = {run}
    BY <1>2 DEF Finish, RunComplete, ProcessControl
  <2>4. (ParentTypes /\ run' \in Run => ParentTypes') /\ ParentRemoved'
    BY <2>1, <2>3, NewRuns DEF ParentTypes, ParentRemoved, RunComplete, parentFile
  <2> QED  BY <2>1, <2>2, <2>4, EndFrame
<1>3. CASE KillRun \/ \E c \in Cluster : ExitChild(c)
  <2>1. /\ SchedulerEnds /\ (Fault \/ UNCHANGED faults) /\ UNCHANGED <<files, saved, parentFile>>
    BY <1>3 DEF KillRun, ExitChild
  <2>2. \A p \in parentDisk' : p.exists => p \in Parents
    BY <2>1 DEF Parents, parentFile
  <2>3. (ParentTypes /\ run' \in Run => ParentTypes') /\ ParentRemoved'
    BY <2>1 DEF ParentTypes, ParentRemoved, parentFile
  <2> QED  BY <2>1, <2>2, <2>3, EndFrame
<1>4. CASE RunPowerLoss
  <2>1. /\ SchedulerEnds /\ Fault /\ DiskAfterPowerLoss
        /\ parent' \in parentDisk /\ parentDisk' = {parent'}
    BY <1>4 DEF RunPowerLoss
  <2>2. \A p \in parentDisk' : p.exists => p \in Parents
    BY <2>1 DEF Parents
  <2>3. (ParentTypes /\ run' \in Run => ParentTypes') /\ ParentRemoved'
    BY <2>1 DEF ParentTypes, ParentRemoved
  <2> QED  BY <2>1, <2>2, <2>3, EndFrame
<1> QED  BY <1>1, <1>2, <1>3, <1>4

-----------------------------------------------------------------------------
(* The theorems. *)

LEMMA MultiInitInv == MultiInit => MultiInv
<1> SUFFICES ASSUME MultiInit PROVE MultiInv
  OBVIOUS
<1>1. TypeOK /\ \A c \in Cluster : Sound(c)
  BY InitInv DEF MultiInit, IndInv
<1>2. /\ ppc = "off" /\ spawned = {} /\ run = NoRun /\ parent = NoRun /\ parentDisk = {NoRun}
      /\ next = 1 /\ persistFailed = FALSE /\ cleanupFailed = FALSE
  BY DEF MultiInit
<1>3. \A c \in Cluster : output[c] = NoFile /\ json[c] = NoFile /\ zipped[c] = NoFile /\ pc[c] = "off"
  BY DEF MultiInit, Init
<1>4. Parents = {}
  BY <1>2, NewRuns DEF Parents
<1>5. ParentTypes /\ SchedulerTypes
  BY <1>2, NewRuns, Index DEF ParentTypes, SchedulerTypes
<1>6. OutputKept /\ CompleteKept /\ AbsentForCause
  BY <1>3, <1>4 DEF OutputKept, CompleteKept, AbsentForCause, NoFile
<1>7. ProcessControl /\ ParentRemoved /\ Launched
  BY <1>2, <1>3, NewRuns DEF ProcessControl, ParentRemoved, Launched
<1> QED  BY <1>1, <1>5, <1>6, <1>7 DEF MultiInv, MultiTypeOK

LEMMA StutterInv == MultiInv /\ UNCHANGED multiVars => MultiInv'
<1> SUFFICES ASSUME MultiInv, UNCHANGED multiVars PROVE MultiInv'
  OBVIOUS
<1> USE DEF MultiInv, MultiTypeOK
<1>1. UNCHANGED <<children, parentFile, scheduler, cancelled, faults>>
  BY DEF multiVars, vars, children
<1>2. UNCHANGED <<run, ppc, next, spawned, persistFailed, cleanupFailed>>
  BY <1>1 DEF scheduler
<1>3. /\ TypeOK' /\ (\A c \in Cluster : Sound(c)') /\ OutputKept' /\ pc' = pc
      /\ CompleteKept' /\ AbsentForCause' /\ ParentTypes' /\ ParentRemoved'
  BY <1>1, <1>2, SilentStep DEF TypeOK, RunTypes
<1>4. SchedulerTypes' /\ ProcessControl' /\ Launched'
  BY <1>1, <1>2, <1>3 DEF SchedulerTypes, ProcessControl, Launched, Active, parentFile
<1> QED  BY <1>3, <1>4

LEMMA MultiStepInv == MultiInv /\ [MultiNext]_multiVars => MultiInv'
<1>1. MultiInv /\ SchedulerStep => MultiInv'
  BY SaveStartInv, EndInv, SkipCompleteInv, LaunchInv, LaunchFailsInv, ReceiveInv, IdleInv,
     CleanClusterInv
  DEF SchedulerStep
<1> QED
  BY <1>1, CreateInv, ResumeRunInv, GoroutineInv, ResumeChildInv, IdleInv, EndInv, StutterInv
  DEF MultiNext

\* The parent checkpoint, every child checkpoint and the scheduler agree always,
\* across any failures, kills and power losses.
THEOREM MultiInvariance == MultiSpec => []MultiInv
BY MultiInitInv, MultiStepInv, PTL DEF MultiSpec

\* loadMultiRun accepts whatever a crash leaves, and a cluster it calls complete
\* has its final artifact.
THEOREM CompleteMeansDoneAlways == MultiSpec => []CompleteMeansDone
<1>1. MultiInv => CompleteMeansDone
  BY DEF MultiInv, CompleteKept, Kept, Parents, CompleteMeansDone, ValidRun
<1> QED  BY <1>1, MultiInvariance, PTL

\* prepareRunCluster refuses an unfinished cluster only when nothing of it was
\* committed.
THEOREM NoCommittedWorkStrandedAlways == MultiSpec => []NoCommittedWorkStranded
<1>1. MultiInv => NoCommittedWorkStranded
  <2> SUFFICES ASSUME MultiInv, NEW p \in parentDisk, p.exists, NEW c \in Cluster,
                      NEW k \in ckptDisk[c], p.state[c] # "complete", Refused(p, c, k)
               PROVE  Untouched(c)
    BY DEF NoCommittedWorkStranded, Untouched
  <2>1. k = Absent
    BY DEF MultiInv, Sound, DiskPromises, Promised, Written, Refused
  <2> QED  BY <2>1 DEF MultiInv, AbsentForCause, Parents
<1> QED  BY <1>1, MultiInvariance, PTL

\* The scheduler skips a cluster every parent checkpoint calls complete.
THEOREM CompletedNotRelaunchedAlways == MultiSpec => CompletedNotRelaunched
<1>1. ASSUME MultiInv, [MultiNext]_multiVars, NEW c \in Cluster,
             \A p \in parentDisk : p.exists /\ p.state[c] = "complete"
      PROVE  c \notin spawned'
  <2>1. c \notin spawned
    BY <1>1 DEF MultiInv, MultiTypeOK, ParentTypes, ProcessControl, Launched, Active
  <2>2. CASE Launch
    <3>1. parentDisk = {run} /\ run.state[next] # "complete"
      BY <1>1, <2>2, Scheduling DEF Launch
    <3>2. spawned' = spawned \cup {next}
      BY <2>2 DEF Launch
    <3> QED  BY <1>1, <2>1, <3>1, <3>2
  <2>3. CASE ~Launch
    <3>1. spawned' \subseteq spawned
      BY <1>1, <2>3
      DEF MultiNext, SchedulerStep, GoroutineStep, Create, ResumeRun, SaveStart, SaveStartFails,
          SkipComplete, LaunchFails, ReceiveEvent, ReceiveEventFails, Receive, ExitChild,
          EndScheduling, CleanCluster, CleanClusterFails, Finish, PrepareNew, PrepareResume,
          PrepareRefused, CredentialsFail, Prepared, ChildStep, Panic, ResumeChild, Proceed,
          CancelRun, KillRun, RunPowerLoss, SchedulerEnds, scheduler, multiVars
    <3> QED  BY <2>1, <3>1
  <2> QED  BY <2>2, <2>3
<1>2. MultiInv /\ [MultiNext]_multiVars =>
        [\A c \in Cluster :
           (\A p \in parentDisk : p.exists /\ p.state[c] = "complete")
             => c \notin spawned']_multiVars
  BY <1>1
<1> QED  BY <1>2, MultiInvariance, PTL DEF MultiSpec, CompletedNotRelaunched

=============================================================================
