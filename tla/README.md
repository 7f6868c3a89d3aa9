# bloodhound-kube: a verification project

`bloodhound-kube` collects the objects of one or several Kubernetes clusters,
writes them to JSONL files, parses these into BloodHound graphs and uploads
them.  A collection can take hours on a large cluster, so it checkpoints: it can
be interrupted, killed or lose power at any moment and be resumed by a later
process.  Most of what is hard in this program is in that promise, and that is
where this project begins.

The modules are checked with TLC on small instances and proved with TLAPS where
this README says so.  `PROJECT.json` maps every definition to the lines it
translates.

## 1. The system

| part | state it keeps | operations | talks to |
|---|---|---|---|
| checkpointed collection (`internal/collector/execute.go`, `checkpoint.go`, `internal/utils/writer_json.go`, `atomic_file.go`) | JSONL output, checkpoint file, job and result channels, workers, progress in memory | start, resume, list a job page by page, write a batch, commit, save, finish | API server, disk, pipeline |
| single-cluster pipeline (`internal/cli/pipeline.go`, `collect.go`) | checkpoint phase, parsed graph, archive | collect, parse, zip, complete, resume at any phase | collection, parser, parent run |
| multi-cluster run (`internal/cli/run_checkpoint.go`, `run_resume.go`, `multi_pipeline.go`) | parent checkpoint, states and phases of clusters, goroutines, event channel | create, launch, receive an event, clean up, resume | pipelines, cluster configuration |
| resume of settings (`internal/cli/resume.go`) | saved request | which flags may change, which credentials are needed | pipeline, run |
| discovery, allowlist, plan (`internal/collector/discovery.go`, `allowlist.go`, `plan.go`, `config.go`) | discovered resources, targets | filter, name, select targets | collection |
| redaction (`internal/collector/helpers.go`) | none | strip an object before it is written | collection |
| parser (`internal/parser`) | facts, index, nodes, edges | decode, deduplicate, build nodes, build edges, enrich | node and edge builders |
| facts and index (`internal/model`) | facts, lookups by kind, name, namespace | add, finalize, look up | parser, builders |
| node builders (`internal/nodes`) | none | one object to its nodes and facts | parser |
| edge builders (`internal/edges`) | none | facts and index to edges: RBAC, networking, mounts, workloads, security, add-ons, containment | parser |
| upload (`internal/upload`, `internal/cli/upload.go`) | upload job on the server | start, send files, end; custom nodes; saved queries | BloodHound API |
| configuration (`config/merge.go`, `internal/multicluster`) | schema, queries, cluster entries | merge over defaults, validate | upload, run |
| command line (`cmd`, `main.go`) | flags | parse flags, signals | all of the above |

How they interact.  `cmd/collect.go` calls `PipelineService.Run` with a context
that Ctrl+C and SIGTERM end.  A single run calls `runSinglePipeline`, which calls
`CollectService.Run` (unless the saved phase says the collection is done), then
`ParseService.Run`, then `zipParsedOutput`, saving the phase in the same
checkpoint file the collector used.  A multi-cluster run calls `executeMultiRun`,
which starts one goroutine per cluster; each calls `runSinglePipeline` and
reports on a channel.  `CollectService.Run` calls `RunCollectionWithCheckpoint`,
whose workers and collector loop share two channels.  All that two processes ever
share is on disk: outputs, checkpoints and artifacts.

What is hard: a crash between any two steps of two files that must agree; a write
that fails halfway; a rename or removal that is visible and not yet durable;
cancellation racing a finished result; a loop that has to drain workers it no
longer listens to; a partial collection that goes on to be parsed; a child and a
parent that each decide when a checkpoint may go.  Section 7 relates each to the
properties that cover it (`hazards` in `PROJECT.json` gives the lines).

What makes each part correct:

* collection: every committed resource is in the output exactly once, whatever
  crash and resume come in between; progress is never given up; a run ends.
* pipeline: a saved phase keeps its word (its artifact exists and is whole);
  success means everything is in the final artifact; finished phases are not
  repeated.
* multi-cluster run: a cluster called complete is done; a resume takes up every
  other; no checkpoint goes before the parent knows it is not needed.
* resume of settings: the plan and the outputs cannot change, credentials can.
* discovery and plan: a job's name identifies it; every selected resource is
  listed by exactly one target.
* redaction: no secret value reaches the output of a `--redacted` run.
* parser, facts, builders: a graph has every object once, its edges end at nodes
  of the graph, and the order of the input lines does not matter.
* RBAC edges: a subject has an edge exactly where a rule bound to it gives it.
* other edges: a route is marked restricted exactly when a policy applies; what the
  node of a pod says of its environment and what the edges say agree.
* upload: a started job is ended; success means that what was asked for is on the
  server; a repetition after a failure gets there; a bad file costs nothing that was
  there before.
* configuration: the user's entries win, nothing is lost, defaults fill gaps.

## 2. Modules

| module | models |
|---|---|
| `Collection` | workers, collector loop, output, checkpoint, faults, resume |
| `CollectionInv` | its inductive invariant |
| `CollectionPromise` | what the operator is promised: atomic, single, final commits |
| `CollectionRefinement` | the mapping from `Collection` to the promise, and the invariant behind it |
| `Pipeline` | phases and artifacts of one cluster's run |
| `MultiRun` | scheduler and parent checkpoint over several `Pipeline`s |
| `Plan` | discovery, scope, allowlist, confirmation, names, aliases, namespaces, the saved plan |
| `ClustersConfig` | a clusters file to saved requests and paths, and what pipelines make of them |
| `Rbac` | the RBAC edge rules as operators on a set of facts |
| `Exposure` | the edge rules of networking, workloads, mounts and security, and a pod's environment |
| `Graph` | lines of a collection to nodes, facts, environment, permissions and edges |
| `Upload` | the upload command against a server, request by request |
| `ConfigMerge` | the loops that merge the operator's lists with the built-in ones |
| `CollectionProofs`, `MultiRunProofs`, `PlanProofs`, `ClustersConfigProofs`, `GraphProofs`, `UploadProofs`, `ConfigMergeProofs` | the theorems about the module each is named after; `CollectionProofs` also has the refinement of the promise, `MultiRunProofs` also `Pipeline`'s |
| `Recursion` | induction and recursion over numbers and over the subsets of a finite set, proved in a form that can be cited |
| `MC...` | small instances of the module named after `MC` |

`CollectionRefinement` composes the collector with its promise, `MultiRun` extends
`Pipeline`, `Graph` extends `Exposure`, which extends `Rbac`.  The other modules
stand alone.

### Collection

`out` is the JSONL file, a sequence of lines `[job, item]`; `synced` is how much
of it an fsync has made durable.  `ckpt` is the checkpoint file as the system
sees it and `ckptDisk` the set of files a power loss may leave: `AtomicWriteFile`
that succeeds (temporary file, sync, rename, sync of the directory) leaves one
candidate, one that fails between rename and directory sync leaves two, a removal
(which does not sync) adds "absent".  `queue` is the closed `jobs` channel,
`results` the buffered `results` channel, `worker[w]` a goroutine of
`checkpointWorker`, `mem` the `*Checkpoint` in memory, `current` the result the
loop has written and not yet committed.

One action per step of the code at which something else can happen: `StartNew`,
`Resume` (`CollectService.Run` up to the call), `SavePlan`, the worker's
`TakeJob`, `ListPage`, `PageFails`, `SendResult`, `DropResult`, `WorkerReturns`,
the loop's `ReceiveFailed`, `ReceiveBatch`, `CommitOutput`, `SaveProgress`,
`Drain`, `EndLoop`, `SaveCollected`, `RemoveCheckpoint`, and a failing variant of
each that can fail.  `Cancel`, `Kill` and `PowerLoss` come between any two steps.
A power loss keeps the synced lines and any number of further ones, the last of
them perhaps torn.

Abstracted: a job is a model value standing for a target and a namespace; its
resources are numbered; settings, identity and timestamps of the checkpoint are
left out.  `FailedJobs` is written and never read, so a failed job only marks
the run as failed and causes a save.  Every `MaxFaults`-bounded fault (failed
writes and requests, cancellations, kills, power losses) is one spent.

### Pipeline

Variables are functions over `Cluster`; one cluster is the stand-alone run.
Collecting is abstracted to what `Collection` shows of it: jobs are committed one
at a time and an uncommitted tail may follow them (`output[c]` is the set of
committed jobs and a flag).  `json` and `zipped` are published atomically and
remember what they were built from.  One action per step of `runSinglePipeline`
and per early return; `result` is the phase and success it returns.

### MultiRun

Extends `Pipeline` with the scheduler of `executeMultiRun`: `parent` and
`parentDisk` (as above), `run` in memory, the index `next`, the goroutines
`spawned` and not yet prepared, `persistFailed` for `persistenceErr`.  The event
channel has room for every cluster, so a report is the state `pc[c] = "returned"`
and the order of receiving is free.  `ResumeChild` is one child resumed on its
own while the parent waits on disk.

### Plan

The steps of `CollectService.Run` before the first checkpoint, as one actor with
three things out of its hands: what discovery returns (any set of groups may fail,
the definitions may not be listable), what the prompt is answered, which
namespaces exist.  Texts are sequences of tokens, so that the conversions that
matter are modelled by what they do: dots of a group become underscores in a name
(`NameOf`), dashes too in a resource type (`ResourceType`), separators and
capitals vanish in an alias (`normalizeTypeKey`, where "^" marks a capital).  `Word` is
the set of tokens.
`Curated` stands for `DefaultDiscoveryAllowlist`, `Catalogue` for what the API
server serves in the order discovery sorts it.  The order of targets is not
modelled.  `Jobs` is the set of pairs of a target's and a namespace's place in their lists,
whose text is `JobKey`.  `SetDefaults` has no definition: a built collection always has a fetch
mode and is exactly one of namespaced and cluster-scoped.

### ClustersConfig

`createMultiRun` with `Validate`, `ApplyDefaults` and `buildClusterPipelineRequest`,
one action per cluster, and after it the few steps of each pipeline that read the
saved request again: naming the output (`parseOutputPath`), the scope
(`resolveCollectScope`, `applyDiscoveryFilterByScope`), the prompt about custom
resources and its answer, the comparison in `prepareRunCluster`.  A path is a stem and
its suffixes, the directory left out.  Custom resources are of three classes, as the
filters tell them apart: "curated" ones are in the default allowlist, "listed" ones in
the cluster's own, "other" ones in neither; which of them a cluster serves is left
open, and so is whether discovery succeeds.  Scheduling is `MultiRun`'s, so clusters
start and stop freely.

### Rbac, Exposure and Graph

`Rbac` has no state: a rule of `internal/edges/rbac` is an operator from a set of
facts to a set of edges.  `Bonds` joins a binding with the role it refers to and
the identities it names, as every rule of the code does first; the rules then look
at a role's permissions the way the code does, through the text of
`BuildRbacRulesDisplay`, whose parts ("group/resource/name") are a sequence here.
`Exposure` has the other domains in the same form: services, policies, routes and
gateways, controllers, volumes, environment, tokens, host paths, capabilities,
escapes, SCCs and host ports, and `podEnv`, the environment on the node of a pod.
Labels and selectors are sets (of `matchLabels`, all the builders keep), a host
path is the sequence of its parts.
`Graph` is `ConvertToBloodHoundResultFromReader`: one action per outcome of a line
(new node, generic replaced by typed, duplicate, nothing, error), then one per pass
over what was read: environment, aggregates, users and groups, permissions, the
external node, edges, the cluster's name.

Abstracted: what the decoder and the builders make of a line is part of the line;
facts are a set, so the order of edges and the count of repeated subjects are left
out, and so are descriptions, ports and mount paths on edges, and the add-ons.
Where the code keeps the first of several in the order of a Go map
(`DeduplicateEdges`), every choice is allowed.  The properties speak of
Kubernetes' own meaning of a rule (`Allows`, `Names`, `RefersTo`), written
independently of the code's.

They are stated where code and meaning agree by design.  The exceptions: a rule of
the core group with resource "*" is read as every group's (`Claims` counts
workloads of the core group for that reason); a subresource and a resource name
look alike in the text (section 6), so no object of the instance is named like a
subresource; users and groups are not among the `Claims`, for a
namespaced role that impersonates them is shown although Kubernetes does not grant
it; `WorkloadCreate` and the role edges say what an identity may make, not which
object it reaches.

### Upload

`UploadService.Run` and `internal/upload`: `pc[c]` is the stage operator `c`'s run is
in, `todo` what a loop over a listing has left, `job` the upload job it started.
One action per request and per local step (`Local`: reading and merging files).
`Call` gives every request its outcomes: carried out and answered; failed,
whether the server carried it out or not (a refusal or a lost answer look alike to
the client); never answered because the process is stopped while it waits, carried out
or not; failed at once because the run's deadline has passed.  A failed request
ends the run, except within an upload job, where `UploadOutput`'s deferred call still
tries to end the job, with the context of the request that failed.  `Expire` and
`Kill` come between any two steps, `Start` repeats the command with the same flags.
Several operators share the server.  The server (flag, extensions, queries, graph,
jobs) is external and modelled by what the client relies on: toggling flips, an
extension replaces the one of its name, ending a job ingests its files.  `embedded`
says whether the program was built with its own schema and queries.

### ConfigMerge

`MergeQueries` and `mergeByName` (node types), one action per turn
of a loop: `TakeFirst`, `EndFirst`, then `TakeNew`, `SkipQuery` or `OverrideType`,
`EndSecond`.  `seen` is the map of names the loops keep: a set of them for queries,
the index in the merged list for types.

## 3. Runs

| run | what it asks | instance |
|---|---|---|
| `CollectionRetained` | `TypeOK`, `AlwaysResumable`, `WorkIsRecoverable`, `OneHolder`; the promise is implemented (`ImplementsPromise`); `RunEnds`, `EventuallyCollected` | 3 jobs of up to 2 resources, 2 workers, 1 result slot, 3 faults |
| `CollectionRemoved` | `ExactlyOnce` when a finished checkpoint is removed and the output reused | 2 jobs, 2 workers, 3 faults, checkpoint in another directory |
| `Pipeline` | `ArtifactBehindPhase`, `SuccessIsComplete`, `OnlyCommittedParsed`, `AlwaysResumable`, `NoRecollection`; `EventuallyComplete` | 2 jobs, parse and zip, 4 faults |
| `MultiRun` | `CompleteMeansDone`, `NoCommittedWorkStranded`, `CompletedNotRelaunched`; `RunReturns` | 2 clusters side by side or behind 1 slot (a resume may change it), zip, 2 faults |
| `MultiRunStranded` | `UnfinishedResumable`: expected violation, see section 6 | 2 clusters, 1 fault |
| `Plan` | `NamesIdentify`, `AliasesUnique`, `SavedPlanResumable`, `CRDsNeedConsent` | 7 resources in 5 groups that share plurals, kinds and a short name; 33 requests; every partial discovery |
| `ClustersConfig` | `ArtifactsDistinct`, `SeveralAskForCause`, `ExtendedResumable` | 343 files of at most 2 clusters, 17 command lines, 3 disks; every combination of consent, scope (blank ones included) and list in an entry and in the defaults |
| `ClustersConfigStranded` | `UnfinishedResumable`: expected violation, see section 6 | as `ClustersConfig` |
| `Graph` | `OneNodePerObject`, `EdgesJoinNodes`, `EveryBindingShown`, `PermissionsAgree`, `AccessGranted`, `PlainAccessShown`, `RoutesMarked`, `EnvTraced` | 25 sets of rules, 5 subjects, 5 ways to bind them over 15 objects of 2 namespaces; every sequence of 3 lines of 7 kinds, 2 flags, 2 cluster names; a pod amid 5 sets of policies and every route, or amid controllers and environments |
| `GraphWildcard` | `WildcardReadsSecrets`: expected violation, see section 6 | as `Graph` |
| `Upload` | `BadFileDeletesNothing`, `SuccessIsComplete`, `JobsEnded`, `DisabledIsReported`; `EventuallyDone` | one operator with every kind of file and flag, or two at once; 3 runs each, 2 faults |
| `ConfigMerge` | `NothingLost`, `UserWins` | every pair of lists of at most 3 entries |

The bounds.  Two workers and one result slot are the least that makes a worker
block on a full channel while another one sends, with a third job still queued.
Two resources make a batch that can be written in part.  Three faults allow a
failed save, the crash after it and a second one during the resume; four in the
pipeline add a partial collection before them.  Two are enough for the scheduler:
a failed parent save and the crash after it.  Three resources of one kind are
the least for which an alias can be taken again after it became ambiguous; two
groups that differ only in a dash are the least the duplicate check can refuse.
Rules do not interact except through the union of a role's, so one role and at most
two bindings of an identity show every combination of kinds and scopes; three lines
show a duplicate before, after and between others.
Two clusters are the least for
which events can be reordered or one queued behind the other.  Two faults leave an
upload job open (a failed request, then a failed end); three runs then recover from
each of them.  Lists of three entries repeat a name within one list and across two.
The theorems of section 5 remove the bounds wherever they reach.

Deadlock is checked in `CollectionRetained`, whose system must always be able to go
on.  It is off where the model really stops: after a completed stand-alone or
multi-cluster run whose paths may not be reused, once a plan is saved or refused, a
graph is built, the clusters of a file are complete, lists are merged or the operators
have used their runs, and in the removed-checkpoint run when a stale checkpoint
beside a truncated output can be neither resumed nor ignored.

## 4. Fairness

* `WF(WorkerStep(w))`, `WF(LoopStep)`, `WF(Step(c))`, `WF(GoroutineStep(c))`,
  `WF(SchedulerStep)`: the Go scheduler runs what can run, a listing has finitely
  many pages, and a request ends (`client.go:135` sets a timeout of 30 s), so a
  goroutine that can take a step takes one.
* `WF(Step(c))` of `Upload`: the run's context has a deadline, so each request ends
  with an answer or an error.
* `WF(Start)`, `WF(Begin(c))`, `WF(Start(c))` of `Upload`: the operator starts the
  collection or upload and repeats it while it is unfinished.  Only
  `EventuallyCollected`, `EventuallyComplete` and `EventuallyDone` use it; `RunEnds`
  and `RunReturns` do not need anyone to resume.
* Faults are bounded and never forced.

## 5. Proofs

Every theorem holds for all values of the constants that satisfy the named
assumptions, which TLC evaluates on its instances.

| module | theorem | statement |
|---|---|---|
| `CollectionProofs` | `TypeCorrect`, `TypeSafe` | `Spec => []TypeInv`, `Spec => []TypeOK` |
| | `Invariance` | `Spec => []IndInv` |
| | `ExactlyOnceAlways` | `Spec => []ExactlyOnce` |
| | `ResumableAlways` | `Spec => []AlwaysResumable` |
| | `RecoverableAlways` | `Spec => []WorkIsRecoverable` |
| | `OneHolderAlways` | `Spec => []OneHolder` |
| | `ProgressKeptAlways` | `Spec => ProgressKept` |
| | `Implementation` | `Retain` implies `Spec => ImplementsPromise` |
| `MultiRunProofs` | `Invariance` (of one `Pipeline`) | `Spec => []IndInv` |
| | `ArtifactBehindPhaseAlways`, `SuccessIsCompleteAlways`, `OnlyCommittedParsedAlways`, `AlwaysResumableAlways` | `Spec => []` of the property |
| | `NoRecollectionAlways` | `Spec => NoRecollection` |
| | `MultiInvariance` | `MultiSpec => []MultiInv` |
| | `CompleteMeansDoneAlways`, `NoCommittedWorkStrandedAlways` | `MultiSpec => []` of the property |
| | `CompletedNotRelaunchedAlways` | `MultiSpec => CompletedNotRelaunched` |
| `PlanProofs` | `TypeCorrect` | `Spec => []TypeOK` |
| | `NamesIdentifyAlways`, `AliasesUniqueAlways`, `SavedPlanResumableAlways`, `CRDsNeedConsentAlways` | `Spec => []` of the property |
| `ClustersConfigProofs` | `RequestInvariance`, `TypeSafe` | `Spec => []IndInv`, `Spec => []TypeOK` |
| | `ArtifactsDistinctAlways`, `SeveralAskForCauseAlways`, `ExtendedResumableAlways` | `Spec => []` of the property |
| `GraphProofs` | `GraphInvariance` | `Spec => []IndInv` |
| | `OneNodePerObjectAlways`, `EdgesJoinNodesAlways`, `EdgesJoinFactsAlways` | `Spec => []` of the property |
| | `EveryBindingShownAlways`, `PermissionsAgreeAlways`, `PlainAccessShownAlways` | `Spec => []` of the property |
| | `RoutesMarkedAlways`, `EnvTracedAlways` | `Spec => []` of the property |
| | `AccessGrantedAlways` | `Spec => [](Unambiguous => AccessGranted)` |
| `UploadProofs` | `UploadInvariance` | `Spec => []IndInv` |
| | `BadFileDeletesNothingAlways` | `Spec => []BadFileDeletesNothing` |
| | `SuccessIsCompleteAlways`, `JobsEndedAlways`, `DisabledIsReportedAlways` | `Spec =>` the property |
| `ConfigMergeProofs` | `MergeInvariance` | `Spec => []IndInv` |
| | `NothingLostAlways`, `UserWinsAlways`, `MergedDistinctAlways` | `Spec => []` of the property |
| `Recursion` | `SmallestOf`, `LargestOf`, `InductionOnNat`, `RecursionOnNat`, `InductionOnSubsets`, `RecursionOnSubsets` | see "Folds" below |

The assumptions, each named in the module that declares the constant:

* The plan of a collection is a finite, nonempty set (`JobAssumption`,
  `PlanAssumption`); parameters have their types (`BoundAssumption`, `FlagAssumption`,
  `ConcurrencyAssumption`, `InputAssumption`, `RequestAssumption` of `Upload` and of
  `Plan`); the clusters of a run are numbered in the order of the file
  (`ClusterAssumption`); a clusters file is a list of entries (`ConfigAssumption`).
* `Plan`: discovery keeps one resource for each group and plural
  (`DiscoverResources`, `resourcesByKey`), both are DNS names and so have no
  underscore, and no group is the single word "core" (`CatalogueAssumption`); there are
  finitely many namespaces, each with a name, and a context without one stands for
  "default" (`NamespaceAssumption`).
* `Graph`: what an API server serves and the decoder makes of it
  (`RequestAssumption`): cluster roles and SCCs have no namespace, namespaced objects
  have one, a rule names at least a verb, a resource and a group as the server's
  validation demands, builders make no users and groups, no custom resource has the
  kind of an aggregate.
* `Upload`: neither the queries built in nor those of a good file are none, and "old"
  names the data that was there before every client (`QueriesAssumption`,
  `ClientAssumption`).

The arguments.  None of these properties is inductive; each module has an `IndInv`
that is, with the reason named in its parts.

*Collection.*  `ExactlyOnce` speaks of checkpoints on disk; that the next one saved is
exact too follows only from what memory knows, and memory knows it only because no
job is committed twice.  The layers, each proved from the ones before:

1. `TypeInv`: types, and which goroutines exist at which point (`Control`).
2. `Holders`: the progress in memory is consistent (`remaining` counts the jobs
   without an entry), and each job is in one place: queued, with one worker, in
   one result, being committed, or done.
3. `DiskInv`: every candidate on disk whose position lies within the output is
   durable up to it and exact; with a retained checkpoint all of them are.
4. `MemInv`: between commits the output ends exactly where `mem` says, is synced
   and exact; while a batch is written the lines behind that point are that
   batch; while the loop waits, `mem` is the one candidate on disk.

Each layer has a step lemma (`TypeStep`, `HoldersStep`, `DiskStep`, `MemStep`)
with one step per action.

*The promise.*  A failed save leaves an old and a new checkpoint, and a power loss
picks one.  What is promised is what both agree on, so a promised step happens when
the choice ends, not when the save begins.  `StepByStep` says why each such choice is
worth at most one step: the disk holds the visible checkpoint and at most the one
before it (`Chain`), and memory is never more than one step ahead (`Upcoming`).
`Mapped` shows that the mapping then yields exactly what one checkpoint `d` says,
`PromisedStep` that moving on from it is `Begin`, `Commit`, `Finish` or a stutter.

*Pipeline.*  `Sound(c)` is about one cluster: every checkpoint a crash may leave keeps
its word (`DiskPromises`), and memory, disk and output agree at each stage
(`Preparing`, `Collecting`, `Processing`, `Advancing`, `Succeeded`).  After a partial
collection no checkpoint has advanced; that is what keeps a graph of half the jobs
from counting as the artifact.  Steps of one cluster leave the others `Unaffected`.

*MultiRun.*  The parent and the children are two stores.  `CompleteKept`: what a parent
checkpoint calls complete is final and no later step undoes it.  `AbsentForCause`: a
child's checkpoint is missing only while nothing was committed or once every parent
that may survive says complete.  `Launched` and `ProcessControl` tie the scheduler's
variables to them, `ParentRemoved` covers the end.  Steps of children are taken from
`PipelineProofs` through `Unaffected` and two frame lemmas.

*ClustersConfig.*  `Built`: a saved request is a function of the file and the flags, and
a run is only built from a file that was validated.  `Separate`: the paths that were
compared are distinct.  `Children`: a pipeline does what its saved request says; what it
asks about is within its scope.  `SeveralAskForCause` joins the two ends: a scope that
was validated raw is the one the pipeline resolves, blanks and defaults included, unless
one of the three causes holds (`ScopeAgrees`).

*Plan.*  `Inv` follows the steps: what was discovered has its own group and plural each,
and is called custom exactly when the definitions were listed and it is one (`Found`);
what was chosen was found, and allowed (`Chosen`); what needs consent has it
(`Consented`); the catalogue built from it has distinct names and aliases that lead to
one entry (`Built`); targets and namespaces are sound (`Selected`, `Named`), and so is
what is saved (`Saved`).  Two names differ because "_" separates the words of a group
from the plural and occurs in neither.  An alias that several entries share is refused
whatever order they come in: the fold over the entries is shown to depend on their set
only (`PlanOf`).  A saved plan is resumable because it has as many jobs as
pairs, which is counted by induction.  TLC checked `Inv` on the instance of `Plan`
before it was proved.

*Graph.*  While lines are read, rows and facts keep step: the list of nodes has, position
by position, what the facts require (`Rows`), each id once.  The passes over it change
one property each and no id (`Enriched`, `Aggregated`); every fact has its node
(`Represented`) and each comes from a line (`Origins`).  `Drawn` says what the edges are.
A lemma per rule, in every domain, shows that its edges join facts and are none of
`RoleBound` (`Between`), so only one rule draws those and deduplication cannot hide one
behind another (`BindingEdges`, `Deduplicated`); an identity or a role is one fact, so
one identity and one role have one edge.  `RoutesMarked` and `EnvTraced` relate an edge to
what was computed in another pass, through the same facts.  `PlainAccessShown` and
`AccessGranted` relate the text of a rule to its meaning, in both directions: what a
plain rule grants is found in its text, and what is found in a text is granted.  The
second is false of a text that can be read in two ways, which `Unambiguous` excludes:
a name that is also a subresource, a group that is also a resource.  That is a condition
on the cluster and not one the code establishes (section 6).

*Upload.*  `JobKnown`: a run within an upload job knows an open job that is no other
run's.  `PastAndFuture`: the deferred call follows a failure.  `BadFileDeletesNothing`
needs to know that a first run nothing disturbed, whose bad files are not `FoundLate`
(`Careful`), has read the file that brings back what it deletes, and where on its way
the server may be without extensions or queries (`FilesFirst`, with `Intact`, `Emptied`
and `NoQueries`).  `SuccessIsComplete` is about a run nobody disturbs; `Progress` says,
for each stage, which steps are behind it and that their effect is still on the server
(`Position`, `Effect`), and how far a loop has got (`Midway`).

*ConfigMerge.*  `Covered` (the names gone through are recorded), `Copied` (the first
list is where it was), `NoRepeat`, and `Replaced` (what the second loop has gone
through has replaced its namesake).

*Folds.*  The theorems of the library about induction take an operator as a parameter,
which the installed provers cannot instantiate.  `Recursion` proves the same with sets
and functions: a property is the set of the numbers (or finite subsets) it holds for, a
step is a function.  It rests on the smallest element of a set of numbers and on no
further assumption.  With it the value of a fold of the model is computed where a
theorem needs it (`PlanProofs`, `GraphProofs`); `UploadProofs` needs the smallest
element alone.

`TypeOK` of the other modules is part of their invariants, or was checked with TLC while
the module was written (`Graph`), and is not listed in a run.  `ProgressKept`,
`MergedDistinct` and `EdgesJoinFacts` are proved only.

Every safety invariant and action property a run expects to hold is proved, with
`AccessGranted` under the condition above and `ImplementsPromise` for a retained
checkpoint.  Only model-checked: liveness (`RunEnds`, `EventuallyCollected`,
`EventuallyComplete`, `RunReturns`, `EventuallyDone`), which TLAPS does not cover.

## 6. Findings

Each of the first three is the counterexample of a run that is expected to fail.

`UnfinishedResumable` of `MultiRun` states what the README says of a parent
resume: "Resume all unfinished clusters, including any that were still queued".
TLC finds a run that stops after `NewAsyncWriter` created a cluster's output and
before `RunCollectionWithCheckpoint` saved its first checkpoint.  The resume then
refuses that cluster (`prepareRunCluster`, "missing child checkpoint with existing
run artifact") each time.  Nothing committed is lost: `NoCommittedWorkStranded`
holds.

`UnfinishedResumable` of `ClustersConfig` fails for another reason: an `outputFile`
without extension is collected into a file with `.jsonl` appended, and the resume
compares the two names.  `ExtendedResumable` holds for every other name.

`WildcardReadsSecrets`: the rule of `cluster-admin` (group "*", resource "*") is
shown as "*/*" and compared with "*", so it gives no access edge at all.
`PlainAccessShown` holds for the rules it leaves: one group, no wildcard in front of
a group or subresource, no list of names beside the resource "*" (such a rule is shown
as "*/name", which nothing matches, `src/internal/edges/rbac/helpers.go:139`; the
proof needs the exception and no bounded instance had asked for it).

The rest was met while modelling and has no run of its own.

- Paths: for the same reason as above the overlap check lets "a" and "a.jsonl" pass
  when nothing else they derive collides (`--checkpoint-file` with `--no-parse`), and
  two clusters write one file; `ArtifactsDistinct` is therefore stated for names with
  an extension.
- Plan: an identity that cannot list the definitions collects custom resources
  without being asked.  `CRDsNeedConsent` is stated for the identity that can.
- Rbac: `BuildRbacRulesDisplay` (`src/internal/nodes/framework/helpers.go:254`) writes a
  resource name where a subresource is written, so the rule on the one node that is
  named "proxy" reads as `nodes/proxy` and gives `NodeProxyRCE` on every pod, while
  `docs/edges.md:159` asks for `nodes/proxy`.  This is why `AccessGrantedAlways` has a
  hypothesis: TLC shows the edge as soon as an instance has such a name.
- Rbac: a RoleBinding whose subject is a service account of another namespace gives
  permissions and no edge (`EveryBindingShown` leaves it out as `Foreign`), while
  `docs/edges.md:14` speaks of every binding; only the first of several groups of a
  rule is kept; `pods/exec` with `create` alone gives `WorkloadCreate` to every node
  (`docs/edges.md:123` lists the workloads only); `PodDebug` has an edge to
  `AllPods`, which `docs/edges.md:60` denies.
- Exposure, escapes: `docs/edges.md:261` gives `CE_HOST_NETWORK` to hostNetwork alone,
  the code asks for privileged, NET_ADMIN or NET_RAW as well; `CE_UMH` accepts any
  writable mount of any volume (`docs/edges.md:257`); `CE_VAR_LOG` takes `runAsUser` 0
  for privileged; the capability "ALL" gives no edge; a hostPath of "/" or "/var/lib"
  matches none of the sensitive roots below it.
- Exposure, environment: of two `EnvVars` edges of one secret, one for `envFrom` and
  one for `valueFrom`, the deduplication keeps one and loses the containers of the
  other, in the order of a map; init containers have none; a controller without
  `matchLabels` gives its environment to every pod and has no `ManagedBy` edge; a
  CronJob's selector is normally empty, so it manages nothing.
- Exposure, policies: a policy that selects by `matchExpressions` only counts as one
  for all pods; `automountServiceAccountToken` of a service account is not read.
- ClustersConfig: `README.md:216` says that a file with several clusters which would
  prompt is rejected, and that an allowlist or the scope core prevents prompts.
  Accepted files prompt all the same in three cases: an entry with
  `acceptCRDs: false` under a default of true (`Validate` takes either for consent,
  `ApplyDefaults` keeps the entry's); an allowlist, whose custom resources need
  consent like any other (`collect.go:381`), with the scope all every custom resource;
  the scope core (or blanks, which are core to the pipeline), when the cluster serves
  custom resources of the default allowlist.  `SeveralAskForCause` names the three and
  says that there is no fourth; TLC shows each of them to be needed.
- Upload: `--reset` is ignored when it comes with `--upload-file` (or `--reset-db`)
  alone, against the help at `src/cmd/upload.go:90`: `ResetIgnored` is the exception
  that `SuccessIsComplete` states, and without it TLC finds the property violated.
  `--reset-db` alone is refused.
- Upload: the deferred end of an upload job shares the context that may have
  expired, and a job whose number was lost with the answer is unknown to the run, so a
  job may stay open.  `JobsEnded` is stated for a job the run knows, with at most one
  failed request and time left.
- Upload: a bad template is found only after the reset, and outside the embedded
  build so is every file that is read but cannot be used, because there is nothing to
  merge it with and `loadAndMergeConfig` does not look into it.  `FoundLate` is the
  exception that `BadFileDeletesNothing` states.
- Upload: `ResetCustomData`
  (`src/internal/upload/client.go:161`) is never called.
- ConfigMerge: `README.md:299` says that user-provided entries appear first, which
  holds for queries; `mergeByName` keeps the embedded types first.  `MergeSchema`
  drops "environments" and "relationship_findings".

## 7. Hazards and the properties that cover them

`PROJECT.json` gives each at its line; here they are by subject.

| hazard | properties |
|---|---|
| crash between append, sync and save | `ExactlyOnce`, `AlwaysResumable`, `ImplementsPromise` |
| visible but not durable rename or removal | `ExactlyOnce`, `ImplementsPromise` |
| partial batch, failed save, failed sync | `ImplementsPromise`, `RunEnds` |
| blocked workers after a failed commit | `RunEnds` |
| result dropped on cancellation | `OneHolder`, `ExactlyOnce` |
| workers before a durable plan | `WorkIsRecoverable` |
| countdown beside a list | `AlwaysResumable`, `EventuallyCollected` |
| any number of failures and resumes | `EventuallyCollected`, `EventuallyComplete` |
| unparsed tail, partial graph, stale phase | `OnlyCommittedParsed`, `ArtifactBehindPhase`, `SuccessIsComplete` |
| retry that repeats finished phases | `NoRecollection`, `CompletedNotRelaunched` |
| parent and child checkpoints disagree | `NoCommittedWorkStranded`, `CompleteMeansDone` |
| scheduler waiting for nobody | `RunReturns` |
| an unfinished cluster that the resume refuses | `UnfinishedResumable`, `ExtendedResumable` |
| partial discovery, shared plurals, dots and dashes | `NamesIdentify`, `CRDsNeedConsent` |
| shared aliases | `AliasesUnique` |
| an accepted plan that cannot be resumed | `SavedPlanResumable` |
| prompts of several clusters at once | `SeveralAskForCause` |
| paths compared before they are final | `ArtifactsDistinct`, `ExtendedResumable` |
| duplicates of one object in any order | `OneNodePerObject` |
| edges renamed apart from nodes | `EdgesJoinNodes` |
| several bindings of one role | `EveryBindingShown`, `PermissionsAgree` |
| rules flattened to text and read back | `AccessGranted`, `PlainAccessShown`, `WildcardReadsSecrets` |
| policies and routes decided in two places | `RoutesMarked` |
| environment read twice, deduplicated edges | `EnvTraced` |
| the end of an upload job after a failure | `JobsEnded` |
| a request carried out, its answer lost | `EventuallyDone`, `SuccessIsComplete` |
| a flag read and toggled by two runs | `DisabledIsReported` |
| a reset before a bad file is found | `BadFileDeletesNothing` |
| an override by a recorded index | `UserWins` |
| two processes on one checkpoint | none: nothing locks it and no document says it is locked |

## 8. Not modelled, and what is left

- Resume of settings and credentials (`cli/resume.go` and the parts of
  `collect.go` around it).  A module `Settings` would state that a resume changes
  credentials and tuning and nothing else, that the connection stays on the saved API
  server, and that no token is saved.
- Redaction helpers.  A module `Redaction` would state that no secret value
  survives the conversion of any kind of object.
- Two processes that resume one checkpoint: every property of `Collection` would
  fail at once, and nothing in the code or the documents promises more.

Left out for good: add-on nodes and edges that repeat the shape of the core ones
field by field, client-go calls, flag parsing, printing, logging and generic JSONL
decoding, the text on nodes and edges that no rule reads back, generated and embedded
data (`config/*.json`), documentation and CI.

Corners met while modelling and not given a run: an early error that returns an empty
`PipelineResponse` makes the parent record the phase "setup" for a cluster that
had come further, which its next resume reads from the child's checkpoint anyway; the
core group's empty name in the curated set selects resources of every group with the
same version and plural (`matchesAllowlist`).
