--------------------------- MODULE ClustersConfig ---------------------------
(***************************************************************************)
(* From a clusters file to the pipelines of a multi-cluster run: raw       *)
(* validation, defaults, one saved request per cluster with all its paths, *)
(* and what each pipeline later does with that request: it names its       *)
(* output, may ask about custom resources, may be interrupted and is       *)
(* prepared again by the parent's resume.                                  *)
(*                                                                         *)
(* Scheduling and crashes are MultiRun's; here a cluster may start or stop *)
(* at any time.  Credentials are left out, and of the custom resources a   *)
(* cluster serves only how the filters of the scope tell them apart.       *)
(*                                                                         *)
(* Source: src/internal/multicluster/{config,load}.go and                  *)
(* src/internal/cli/{multi_pipeline,run_checkpoint,run_resume,collect}.go. *)
(***************************************************************************)
EXTENDS Integers, SequencesExt

CONSTANTS
  Config,    \* the clusters files of the instance
  Flags,     \* command lines: --checkpoint-file, parsing, --zip, --type; a terminal
  Existing   \* sets of files that may be on disk before

\* The fields of an entry that are modelled; an output file is compared as it is
\* spelled and written where its path says.
OutputFile == [spelling : STRING, path : [stem : Seq(STRING), suffixes : Seq(STRING)]]
ClusterEntry ==
  [name : STRING, scope : STRING, allNamespaces : STRING, namespace : STRING,
   acceptCRDs : {"", "true", "false"}, discoveryAllowlist : STRING, outputFile : OutputFile]

ASSUME ConfigAssumption ==
  \A cfg \in Config : cfg.clusters \in Seq(ClusterEntry)

VARIABLES
  stage,   \* createMultiRun
  config,  \* multicluster.Config
  flags,   \* the outer PipelineRequest
  files,   \* files on disk before the run
  run,     \* multiRunCheckpoint.Clusters: the requests saved for the clusters
  child    \* what the pipeline of each saved cluster is doing

vars == <<stage, config, flags, files, run, child>>
given == <<config, flags, files>>

-----------------------------------------------------------------------------
(* Paths, absolute, with the suffixes of the file name apart. *)

Path(stem, suffixes) == [stem |-> stem, suffixes |-> suffixes]
Ext(p) == IF p.suffixes = <<>> THEN "" ELSE Last(p.suffixes)
WithExt(p, ext) == [p EXCEPT !.suffixes = Append(Front(@), ext)]

\* ".stem.checkpoint.json" beside the output.
DefaultCheckpointPath(p) ==
  Path(<<".">> \o p.stem,
       (IF p.suffixes = <<>> THEN <<>> ELSE Front(p.suffixes)) \o <<"checkpoint">>)

deriveParsedOutputPath(p) ==
  IF Ext(p) = "jsonl" THEN WithExt(p, "json")
  ELSE [p EXCEPT !.suffixes = Append(@, "json")]

parsedZipPath(p) == WithExt(p, "zip")

\* Mutant: ".jsonl" is appended whatever the name ends in.
parseOutputPath_Always(p) == [p EXCEPT !.suffixes = Append(@, "jsonl")]

\* What CollectService makes of --output: a file without extension gets one.
parseOutputPath(p) == IF p.suffixes = <<>> THEN [p EXCEPT !.suffixes = <<"jsonl">>] ELSE p

ParentPath == IF flags.checkpointFile THEN Path(<<"run">>, <<"checkpoint">>)
              ELSE Path(<<".", "run", "id">>, <<"checkpoint">>)

-----------------------------------------------------------------------------
(* The clusters file.  A value that is not set is "". *)

OrDefault(value, default) == IF value = "" THEN default ELSE value

\* strings.TrimSpace; scopes are compared in lower case.
Trimmed(value) == IF value = " " THEN "" ELSE value

\* Mutant: the scope of the defaults goes before the cluster's own.
MayPrompt_DefaultsFirst(cfg, e) ==
  /\ e.acceptCRDs # "true" /\ cfg.defaults.acceptCRDs # "true"
  /\ OrDefault(e.discoveryAllowlist, cfg.defaults.discoveryAllowlist) = ""
  /\ OrDefault(Trimmed(cfg.defaults.scope), Trimmed(e.scope)) \in {"all", ""}

\* Validate: could one of several clusters need an interactive prompt?
MayPrompt(cfg, e) ==
  /\ e.acceptCRDs # "true" /\ cfg.defaults.acceptCRDs # "true"
  /\ OrDefault(e.discoveryAllowlist, cfg.defaults.discoveryAllowlist) = ""
  /\ OrDefault(Trimmed(e.scope), Trimmed(cfg.defaults.scope)) \in {"all", ""}

\* An output file is compared as it is spelled.
Validate(cfg) ==
  LET cs == cfg.clusters
  IN /\ cs # <<>>
     /\ \A i, k \in DOMAIN cs : i # k =>
          /\ cs[i].name # cs[k].name
          /\ cs[i].outputFile.spelling # "" => cs[i].outputFile # cs[k].outputFile
     /\ \A i \in DOMAIN cs : ~(cs[i].allNamespaces = "true" /\ cs[i].namespace # "")
     /\ Len(cs) > 1 => \A i \in DOMAIN cs : ~MayPrompt(cfg, cs[i])

ApplyDefaults(cfg, e) ==
  [e EXCEPT !.scope = OrDefault(@, cfg.defaults.scope),
            !.allNamespaces = OrDefault(@, cfg.defaults.allNamespaces),
            !.namespace = OrDefault(@, cfg.defaults.namespace),
            !.discoveryAllowlist = OrDefault(@, cfg.defaults.discoveryAllowlist),
            !.acceptCRDs = OrDefault(@, cfg.defaults.acceptCRDs)]

resolveClusterOutputPath(e) ==
  IF e.outputFile.spelling # "" THEN e.outputFile.path
  ELSE Path(<<e.name, "run", "id">>, <<"jsonl">>)

buildClusterPipelineRequest(e) ==
  LET output == resolveClusterOutputPath(e)
  IN [name |-> e.name,
      output |-> output,
      checkpoint |-> IF flags.checkpointFile THEN Path(<<"run">>, <<e.name, "checkpoint">>)
                     ELSE DefaultCheckpointPath(output),
      parsed |-> deriveParsedOutputPath(output),
      accept |-> e.acceptCRDs = "true",
      scope |-> e.scope,
      discoveryAllowlist |-> e.discoveryAllowlist,
      allNamespaces |-> e.allNamespaces = "true",
      namespaceFlagSet |-> e.namespace # ""]

\* Mutant: the artifacts of post-processing are not compared.
clusterRunPaths_CollectOnly(r) == {r.output, r.checkpoint}

clusterRunPaths(r) ==
  {r.output, r.checkpoint}
  \cup (IF flags.parse THEN {r.parsed} ELSE {})
  \cup (IF flags.parse /\ flags.zip THEN {parsedZipPath(r.parsed)} ELSE {})

-----------------------------------------------------------------------------
(* The scope of one pipeline: which of the custom resources its cluster serves it *)
(* takes.  A "curated" one is in the default allowlist, a "listed" one in the     *)
(* cluster's discovery allowlist, an "other" one in neither.                      *)

resolveCollectScope(r) ==
  LET scope == OrDefault(Trimmed(r.scope), "core")
  IN IF scope = "core" /\ r.discoveryAllowlist # "" THEN "allowlist" ELSE scope

ScopeValid(r) ==
  /\ resolveCollectScope(r) \in {"core", "all", "allowlist"}
  /\ resolveCollectScope(r) = "allowlist" => r.discoveryAllowlist # ""

applyDiscoveryFilterByScope(r) ==
  CASE resolveCollectScope(r) = "all" -> {"curated", "listed", "other"}
    [] resolveCollectScope(r) = "allowlist" -> {"curated", "listed"}
    [] OTHER -> {"curated"}

-----------------------------------------------------------------------------
(* createMultiRun. *)

TakenPaths == {ParentPath} \cup UNION {clusterRunPaths(run[i]) : i \in DOMAIN run}

\* asks: the custom resources the prompt on the terminal is about.
Idle == [state |-> "idle", output |-> Path(<<>>, <<>>), asks |-> {}]

Init ==
  /\ stage = "validate"
  /\ config \in Config /\ flags \in Flags /\ files \in Existing
  /\ run = <<>> /\ child = <<>>

ValidateConfig ==
  /\ stage = "validate"
  /\ stage' = IF Validate(config) THEN "building" ELSE "refused"
  /\ UNCHANGED <<given, run, child>>

NextRequest == buildClusterPipelineRequest(
                 ApplyDefaults(config, config.clusters[Len(run) + 1]))

AddCluster ==
  /\ stage = "building" /\ Len(run) < Len(config.clusters)
  /\ clusterRunPaths(NextRequest) \cap (TakenPaths \cup files) = {}
  /\ run' = Append(run, NextRequest)
  /\ UNCHANGED <<stage, given, child>>

\* "clusters have overlapping checkpoint/output paths", "run artifact already exists"
OverlappingPaths ==
  /\ stage = "building" /\ Len(run) < Len(config.clusters)
  /\ clusterRunPaths(NextRequest) \cap (TakenPaths \cup files) # {}
  /\ stage' = "refused"
  /\ UNCHANGED <<given, run, child>>

SaveRun ==
  /\ stage = "building" /\ Len(run) = Len(config.clusters)
  /\ IF ParentPath \in files
     THEN stage' = "refused" /\ UNCHANGED child
     ELSE stage' = "running" /\ child' = [i \in DOMAIN run |-> Idle]
  /\ UNCHANGED <<given, run>>

-----------------------------------------------------------------------------
(* The pipelines of the saved requests. *)

Become(i, state, asks) ==
  child' = [child EXCEPT ![i] = [state |-> state, output |-> @.output, asks |-> asks]]
Goto(i, state) == Become(i, state, {})
At(i, state) == stage = "running" /\ child[i].state = state

\* CollectService.Run names the output, then validates the request.  What failed
\* before its first checkpoint is started again by the parent's resume.
StartChild(i) ==
  /\ At(i, "idle") \/ At(i, "failed")
  /\ child' = [child EXCEPT
       ![i] = [state |-> IF run[i].allNamespaces /\ run[i].namespaceFlagSet
                         THEN "failed" ELSE "discovering",
               output |-> parseOutputPath(run[i].output), asks |-> {}]]
  /\ UNCHANGED <<stage, given, run>>

\* An invalid scope, a list that cannot be read, a cluster that does not answer.
DiscoveryFails(i) ==
  /\ At(i, "discovering")
  /\ Goto(i, "failed")
  /\ UNCHANGED <<stage, given, run>>

\* shouldIncludeCRDs: custom resources in scope, no --accept-crds, and a terminal on
\* standard input.  With --type the scope is not asked for.
AskAboutCRDs(i) ==
  /\ At(i, "discovering") /\ ScopeValid(run[i]) /\ ~flags.types
  /\ ~run[i].accept /\ flags.terminal
  /\ \E custom \in (SUBSET applyDiscoveryFilterByScope(run[i])) \ {{}} :
       Become(i, "asking", custom)
  /\ UNCHANGED <<stage, given, run>>

\* The answer, yes or no, or an error on standard input.
AnswerPrompt(i) ==
  /\ At(i, "asking")
  /\ \E state \in {"collecting", "failed"} : Goto(i, state)
  /\ UNCHANGED <<stage, given, run>>

\* No prompt is needed, as when no custom resource is in scope: the output and the
\* checkpoint with its path are written.
StartCollecting(i) ==
  /\ At(i, "discovering") /\ ScopeValid(run[i])
  /\ Goto(i, "collecting")
  /\ UNCHANGED <<stage, given, run>>

Interrupted(i) ==
  /\ At(i, "collecting")
  /\ Goto(i, "interrupted")
  /\ UNCHANGED <<stage, given, run>>

\* prepareRunCluster compares the checkpoint's output with the saved request.
ResumeChild(i) ==
  /\ At(i, "interrupted")
  /\ Goto(i, IF child[i].output = run[i].output THEN "collecting" ELSE "stranded")
  /\ UNCHANGED <<stage, given, run>>

Complete(i) ==
  /\ At(i, "collecting")
  /\ Goto(i, "complete")
  /\ UNCHANGED <<stage, given, run>>

Next ==
  \/ ValidateConfig \/ AddCluster \/ OverlappingPaths \/ SaveRun
  \/ \E i \in DOMAIN child :
       \/ StartChild(i) \/ DiscoveryFails(i) \/ AskAboutCRDs(i) \/ AnswerPrompt(i)
       \/ StartCollecting(i)
       \/ Interrupted(i) \/ ResumeChild(i) \/ Complete(i)

Spec == Init /\ [][Next]_vars

-----------------------------------------------------------------------------
(* Properties. *)

\* The variables have their types; a run is only started for all its clusters.
TypeOK ==
  /\ stage \in {"validate", "building", "running", "refused"}
  /\ config \in Config /\ flags \in Flags /\ files \in Existing
  /\ Len(run) <= Len(config.clusters)
  /\ stage = "running" => Len(run) = Len(config.clusters)
  /\ \A i \in DOMAIN run : run[i].name = config.clusters[i].name
  /\ DOMAIN child \subseteq DOMAIN run
  /\ \A i \in DOMAIN child :
       child[i].state \in {"idle", "discovering", "asking", "collecting",
                           "interrupted", "stranded", "failed", "complete"}

\* The files the pipeline of cluster i writes (collect.go, pipeline.go).
Artifacts(i) ==
  {child[i].output, run[i].checkpoint}
  \cup (IF flags.parse THEN {run[i].parsed} ELSE {})
  \cup (IF flags.parse /\ flags.zip THEN {parsedZipPath(run[i].parsed)} ELSE {})

Writes(i) == child[i].state \in {"collecting", "interrupted", "stranded", "complete"}
Extended(i) == run[i].output.suffixes # <<>>

\* No pipeline writes a file of another cluster, of the parent or of an earlier
\* run, as long as every output file has an extension.
ArtifactsDistinct ==
  \A i \in DOMAIN child : Writes(i) /\ Extended(i) =>
    /\ Artifacts(i) \cap (files \cup {ParentPath}) = {}
    /\ \A k \in DOMAIN child : i # k /\ Writes(k) /\ Extended(k) =>
         Artifacts(i) \cap Artifacts(k) = {}

\* Validate reads the raw file and lets either acceptCRDs stand for consent; the
\* pipeline reads its own entry after the defaults, resolves the scope again and
\* looks at what the cluster serves.  With several clusters the two may differ, and a
\* prompt come up, only where the custom resources were not accepted and
\*   - the entry refuses what the defaults accept, or
\*   - an allowlist is set, which Validate takes for the end of all prompts, or
\*   - the prompt is about resources of the default allowlist and no others.
\* README.md:216 says that such files are rejected.
SeveralAskForCause ==
  Len(config.clusters) > 1 =>
    \A i \in DOMAIN child : child[i].state = "asking" =>
      LET e == config.clusters[i]
          d == config.defaults
      IN /\ OrDefault(e.acceptCRDs, d.acceptCRDs) # "true"
         /\ \/ e.acceptCRDs = "false" /\ d.acceptCRDs = "true"
            \/ OrDefault(e.discoveryAllowlist, d.discoveryAllowlist) # ""
            \/ child[i].asks = {"curated"}

\* An interrupted cluster whose output file has an extension is resumed.
ExtendedResumable ==
  \A i \in DOMAIN child : Extended(i) => child[i].state # "stranded"

\* README.md:162: "Resume all unfinished clusters".
UnfinishedResumable == \A i \in DOMAIN child : child[i].state # "stranded"

-----------------------------------------------------------------------------
(* The inductive invariant. *)

\* The saved request of the i-th cluster follows from the file and the flags.
RequestOf(i) == buildClusterPipelineRequest(ApplyDefaults(config, config.clusters[i]))
Requests == {RequestOf(i) : i \in DOMAIN config.clusters}
Built ==
  /\ config \in Config /\ flags \in Flags /\ files \in Existing
  /\ run \in Seq(Requests) /\ Len(run) <= Len(config.clusters)
  /\ \A i \in DOMAIN run : run[i] = RequestOf(i)
  /\ stage \in {"validate", "building", "running", "refused"}
  /\ stage \in {"building", "running"} => Validate(config)

\* The paths that were compared are distinct.
Separate ==
  /\ \A i \in DOMAIN run : clusterRunPaths(run[i]) \cap (files \cup {ParentPath}) = {}
  /\ \A i, k \in DOMAIN run : i # k =>
       clusterRunPaths(run[i]) \cap clusterRunPaths(run[k]) = {}

\* A pipeline does what its saved request says.
ChildStates == {"idle", "discovering", "asking", "collecting", "interrupted", "stranded",
                "failed", "complete"}
Follows(i, c) ==
  /\ c = [state |-> c.state, output |-> c.output, asks |-> c.asks]
  /\ c.state \in ChildStates
  /\ c.state = "asking" =>
       /\ ~run[i].accept /\ ScopeValid(run[i])
       /\ c.asks # {} /\ c.asks \subseteq applyDiscoveryFilterByScope(run[i])
  /\ c.state # "idle" => c.output = parseOutputPath(run[i].output)
  /\ c.state = "stranded" => c.output # run[i].output
Children ==
  /\ IF stage = "running" THEN Len(run) = Len(config.clusters) /\ DOMAIN child = DOMAIN run
     ELSE child = <<>>
  /\ child = [i \in DOMAIN child |-> child[i]]
  /\ \A i \in DOMAIN child : Follows(i, child[i])

IndInv == Built /\ Separate /\ Children

=============================================================================
