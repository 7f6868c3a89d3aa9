------------------------ MODULE ClustersConfigProofs ------------------------
(***************************************************************************)
(* What createMultiRun accepts and saves holds for every clusters file,    *)
(* command line and set of files on disk, however many clusters there are. *)
(***************************************************************************)
EXTENDS ClustersConfig, TLAPS

\* What is given stays: so do the requests, the paths and the parent's path.
LEMMA Given ==
  ASSUME UNCHANGED given
  PROVE  /\ config' = config /\ flags' = flags /\ files' = files
         /\ ParentPath' = ParentPath
         /\ Requests' = Requests
         /\ \A i : RequestOf(i)' = RequestOf(i)
         /\ \A r : clusterRunPaths(r)' = clusterRunPaths(r)
         /\ NextRequest = RequestOf(Len(run) + 1)
<1>1. config' = config /\ flags' = flags /\ files' = files
  BY DEF given
<1>2. \A i : RequestOf(i)' = RequestOf(i)
  BY <1>1 DEF RequestOf, buildClusterPipelineRequest, ApplyDefaults
<1>3. Requests' = Requests
  BY <1>1, <1>2 DEF Requests
<1>4. ParentPath' = ParentPath /\ \A r : clusterRunPaths(r)' = clusterRunPaths(r)
  BY <1>1 DEF ParentPath, clusterRunPaths
<1>5. NextRequest = RequestOf(Len(run) + 1)
  BY DEF NextRequest, RequestOf
<1> QED  BY <1>1, <1>2, <1>3, <1>4, <1>5

\* At the start nothing is saved and no pipeline runs.
LEMMA InitInv == Init => IndInv
<1> SUFFICES ASSUME Init PROVE IndInv
  OBVIOUS
<1>1. config.clusters \in Seq(ClusterEntry)
  BY ConfigAssumption DEF Init
<1>2. Built
  BY <1>1 DEF Init, Built
<1>3. Separate
  BY DEF Init, Separate
<1>4. Children
  BY DEF Init, Children
<1> QED  BY <1>2, <1>3, <1>4 DEF IndInv

\* What leaves the saved requests alone keeps what is known of them.
LEMMA RunKept ==
  ASSUME IndInv, UNCHANGED given, run' = run,
         stage' \in {"validate", "building", "running", "refused"},
         stage' \in {"building", "running"} => Validate(config)
  PROVE  Built' /\ Separate'
<1>0. Validate(config)' = Validate(config)
  BY Given DEF Validate, MayPrompt
<1>1. Built'
  BY <1>0, Given DEF IndInv, Built
<1>2. Separate'
  BY Given DEF IndInv, Separate
<1> QED  BY <1>1, <1>2

\* A request is saved only after its paths were compared with those before it.
LEMMA AddClusterInv == IndInv /\ AddCluster => IndInv'
<1> SUFFICES ASSUME IndInv, AddCluster PROVE IndInv'
  OBVIOUS
<1> DEFINE r == NextRequest
           n == Len(run)
<1>1. /\ run \in Seq(Requests) /\ n \in Nat /\ UNCHANGED given /\ run' = Append(run, r)
      /\ config.clusters \in Seq(ClusterEntry) /\ stage = "building" /\ UNCHANGED <<stage, child>>
      /\ n < Len(config.clusters)
  BY ConfigAssumption DEF IndInv, Built, AddCluster
<1>2. r \in Requests /\ r = RequestOf(n + 1)
  BY <1>1, Given DEF Requests
<1>3. clusterRunPaths(r) \cap (files \cup {ParentPath}) = {}
      /\ \A i \in DOMAIN run : clusterRunPaths(r) \cap clusterRunPaths(run[i]) = {}
  BY DEF AddCluster, TakenPaths
<1> HIDE DEF r
<1>4. /\ run' \in Seq(Requests) /\ Len(run') = n + 1 /\ run'[n + 1] = r
      /\ \A i \in 1..n : run'[i] = run[i]
      /\ DOMAIN run = 1..n /\ DOMAIN run' = 1..(n + 1)
  BY <1>1, <1>2
<1>5. Built'
  <2>1. \A i \in DOMAIN run' : run'[i] = RequestOf(i)
    BY <1>1, <1>2, <1>4 DEF IndInv, Built
  <2>2. Validate(config)' = Validate(config)
    BY <1>1, Given DEF Validate, MayPrompt
  <2> QED  BY <1>1, <1>4, <2>1, <2>2, Given DEF IndInv, Built
<1>6. Separate'
  <2>1. ASSUME NEW i \in DOMAIN run'
        PROVE  clusterRunPaths(run'[i]) \cap (files \cup {ParentPath}) = {}
    BY <1>1, <1>3, <1>4 DEF IndInv, Separate
  <2>2. ASSUME NEW i \in DOMAIN run', NEW k \in DOMAIN run', i # k
        PROVE  clusterRunPaths(run'[i]) \cap clusterRunPaths(run'[k]) = {}
    <3>1. CASE i \in 1..n /\ k \in 1..n
      BY <1>4, <2>2, <3>1 DEF IndInv, Separate
    <3>2. CASE i = n + 1 /\ k \in 1..n
      BY <1>3, <1>4, <3>2
    <3>3. CASE i \in 1..n /\ k = n + 1
      <4>1. run'[i] = run[i] /\ run'[k] = r /\ i \in DOMAIN run
        BY <1>4, <3>3
      <4>2. clusterRunPaths(r) \cap clusterRunPaths(run[i]) = {}
        BY <1>3, <4>1
      <4> QED  BY <4>1, <4>2
    <3>4. n \in Nat /\ DOMAIN run' = 1..(n + 1)
      BY <1>1, <1>4
    <3> HIDE DEF n
    <3>5. i \in 1..n \/ i = n + 1
      BY <3>4
    <3>6. k \in 1..n \/ k = n + 1
      BY <3>4
    <3> QED  BY <2>2, <3>1, <3>2, <3>3, <3>5, <3>6
  <2>3. files' = files /\ ParentPath' = ParentPath
        /\ \A q : clusterRunPaths(q)' = clusterRunPaths(q)
    BY <1>1, Given
  <2> QED  BY <2>1, <2>2, <2>3 DEF Separate
<1>7. Children'
  BY <1>1 DEF IndInv, Children
<1> QED  BY <1>5, <1>6, <1>7 DEF IndInv

\* The pipelines start when all requests are saved.
LEMMA SaveRunInv == IndInv /\ SaveRun => IndInv'
<1> SUFFICES ASSUME IndInv, SaveRun PROVE IndInv'
  OBVIOUS
<1>1. Built' /\ Separate'
  BY RunKept DEF SaveRun, IndInv, Built
<1>2. Children'
  <2>1. CASE stage' = "refused" /\ UNCHANGED child
    BY <2>1 DEF SaveRun, IndInv, Children
  <2>2. CASE stage' = "running" /\ child' = [i \in DOMAIN run |-> Idle]
    <3>1. Idle = [state |-> Idle.state, output |-> Idle.output, asks |-> Idle.asks]
          /\ Idle.state = "idle"
      BY DEF Idle
    <3>2. run' = run /\ Len(run) = Len(config.clusters) /\ config' = config
      BY DEF SaveRun, given
    <3>3. DOMAIN child' = DOMAIN run /\ \A i \in DOMAIN run : child'[i] = Idle
      BY <2>2
    <3>4. \A i \in DOMAIN child' : Follows(i, child[i])'
      BY <3>1, <3>3 DEF Follows, ChildStates
    <3>5. child' = [i \in DOMAIN child' |-> child'[i]]
      BY <2>2
    <3> QED  BY <2>2, <3>2, <3>3, <3>4, <3>5 DEF Children
  <2> QED  BY <2>1, <2>2 DEF SaveRun
<1> QED  BY <1>1, <1>2 DEF IndInv

\* One pipeline moves and keeps to its saved request.
LEMMA OneChild ==
  ASSUME IndInv, stage = "running", UNCHANGED <<stage, given, run>>,
         NEW i \in DOMAIN child, NEW c, child' = [child EXCEPT ![i] = c],
         Follows(i, c)
  PROVE  IndInv'
<1>1. Built' /\ Separate'
  BY RunKept DEF IndInv, Built
<1>2. /\ DOMAIN child' = DOMAIN child /\ child'[i] = c
      /\ \A k \in DOMAIN child : k # i => child'[k] = child[k]
      /\ child' = [k \in DOMAIN child' |-> child'[k]]
  BY DEF IndInv, Children
<1>3. config' = config /\ run' = run
  BY DEF given
<1>4. \A k \in DOMAIN child' : Follows(k, child[k])'
  BY <1>2, <1>3 DEF IndInv, Children, Follows
<1>5. Children'
  BY <1>2, <1>3, <1>4 DEF IndInv, Children
<1> QED  BY <1>1, <1>5 DEF IndInv

\* Every step of a pipeline.
LEMMA ChildInv ==
  ASSUME IndInv, NEW i \in DOMAIN child,
         \/ StartChild(i) \/ DiscoveryFails(i) \/ AskAboutCRDs(i) \/ AnswerPrompt(i)
         \/ StartCollecting(i) \/ Interrupted(i) \/ ResumeChild(i) \/ Complete(i)
  PROVE  IndInv'
<1> DEFINE c == child[i]
           Moved(s) == [state |-> s, output |-> c.output, asks |-> {}]
<1>1. /\ c = [state |-> c.state, output |-> c.output, asks |-> c.asks] /\ Follows(i, c)
      /\ stage = "running" /\ UNCHANGED <<stage, given, run>>
  BY DEF IndInv, Children, Follows, StartChild, DiscoveryFails, AskAboutCRDs,
     AnswerPrompt, StartCollecting, Interrupted, ResumeChild, Complete, At
<1>2. ASSUME NEW s, Goto(i, s)
      PROVE  child' = [child EXCEPT ![i] = Moved(s)]
  BY <1>2 DEF Goto, Become
<1>3. CASE StartChild(i)
  <2> DEFINE s == IF run[i].allNamespaces /\ run[i].namespaceFlagSet
                  THEN "failed" ELSE "discovering"
             d == [state |-> s, output |-> parseOutputPath(run[i].output), asks |-> {}]
  <2>1. child' = [child EXCEPT ![i] = d]
    BY <1>3 DEF StartChild
  <2>2. Follows(i, d)
    BY DEF Follows, ChildStates
  <2> HIDE DEF d
  <2> QED  BY <1>1, <2>1, <2>2, OneChild
<1>4. CASE AskAboutCRDs(i)
  <2>1. PICK custom \in (SUBSET applyDiscoveryFilterByScope(run[i])) \ {{}} :
          Become(i, "asking", custom)
    BY <1>4 DEF AskAboutCRDs
  <2> DEFINE d == [state |-> "asking", output |-> c.output, asks |-> custom]
  <2>2. child' = [child EXCEPT ![i] = d]
    BY <2>1 DEF Become
  <2>3. ~run[i].accept /\ ScopeValid(run[i]) /\ c.state = "discovering"
    BY <1>4 DEF AskAboutCRDs, At
  <2>4. Follows(i, d)
    BY <1>1, <2>3 DEF Follows, ChildStates
  <2> HIDE DEF d
  <2> QED  BY <1>1, <2>2, <2>4, OneChild
<1>5. CASE DiscoveryFails(i) \/ AnswerPrompt(i) \/ StartCollecting(i)
  <2>1. PICK s \in {"collecting", "failed"} : Goto(i, s)
    BY <1>5 DEF DiscoveryFails, AnswerPrompt, StartCollecting
  <2>2. child' = [child EXCEPT ![i] = Moved(s)] /\ c.state \in {"discovering", "asking"}
    BY <1>2, <1>5, <2>1 DEF DiscoveryFails, AnswerPrompt, StartCollecting, At
  <2>3. Follows(i, Moved(s))
    BY <1>1, <2>2 DEF Follows, ChildStates
  <2> HIDE DEF Moved
  <2> QED  BY <1>1, <2>2, <2>3, OneChild
<1>6. CASE Interrupted(i)
  <2>1. child' = [child EXCEPT ![i] = Moved("interrupted")] /\ c.state = "collecting"
    BY <1>2, <1>6 DEF Interrupted, At
  <2>2. Follows(i, Moved("interrupted"))
    BY <1>1, <2>1 DEF Follows, ChildStates
  <2> HIDE DEF Moved
  <2> QED  BY <1>1, <2>1, <2>2, OneChild
<1>7. CASE ResumeChild(i)
  <2> DEFINE s == IF c.output = run[i].output THEN "collecting" ELSE "stranded"
  <2>1. child' = [child EXCEPT ![i] = Moved(s)] /\ c.state = "interrupted"
    BY <1>2, <1>7 DEF ResumeChild, At
  <2>2. Follows(i, Moved(s))
    BY <1>1, <2>1 DEF Follows, ChildStates
  <2> HIDE DEF Moved, s
  <2> QED  BY <1>1, <2>1, <2>2, OneChild
<1>8. CASE Complete(i)
  <2>1. child' = [child EXCEPT ![i] = Moved("complete")] /\ c.state = "collecting"
    BY <1>2, <1>8 DEF Complete, At
  <2>2. Follows(i, Moved("complete"))
    BY <1>1, <2>1 DEF Follows, ChildStates
  <2> HIDE DEF Moved
  <2> QED  BY <1>1, <2>1, <2>2, OneChild
<1> QED  BY <1>3, <1>4, <1>5, <1>6, <1>7, <1>8

\* The inductive invariant holds in every reachable state.
THEOREM RequestInvariance == Spec => []IndInv
<1>1. IndInv /\ [Next]_vars => IndInv'
  <2> SUFFICES ASSUME IndInv, [Next]_vars PROVE IndInv'
    OBVIOUS
  <2>1. CASE ValidateConfig \/ OverlappingPaths
    <3>1. Built' /\ Separate'
      BY <2>1, RunKept DEF ValidateConfig, OverlappingPaths, IndInv, Built
    <3>2. Children'
      BY <2>1 DEF ValidateConfig, OverlappingPaths, IndInv, Children
    <3> QED  BY <3>1, <3>2 DEF IndInv
  <2>2. CASE UNCHANGED vars
    <3>1. /\ UNCHANGED <<stage, given, run>>
          /\ stage \in {"validate", "building", "running", "refused"}
          /\ stage \in {"building", "running"} => Validate(config)
      BY <2>2 DEF vars, given, IndInv, Built
    <3>2. Built' /\ Separate'
      BY <3>1, RunKept
    <3>3. Children'
      BY <2>2 DEF vars, given, IndInv, Children, Follows
    <3> QED  BY <3>2, <3>3 DEF IndInv
  <2> QED  BY <2>1, <2>2, AddClusterInv, SaveRunInv, ChildInv DEF Next
<1> QED  BY <1>1, InitInv, PTL DEF Spec

\* The variables have their types, and a run is started for all its clusters.
THEOREM TypeSafe == Spec => []TypeOK
<1>1. IndInv => TypeOK
  <2> SUFFICES ASSUME IndInv PROVE TypeOK
    OBVIOUS
  <2>1. \A i \in DOMAIN run : run[i].name = config.clusters[i].name
    <3> SUFFICES ASSUME NEW i \in DOMAIN run
                 PROVE  run[i].name = config.clusters[i].name
      OBVIOUS
    <3>1. config.clusters[i] \in ClusterEntry
      BY ConfigAssumption DEF IndInv, Built
    <3>2. ApplyDefaults(config, config.clusters[i]).name = config.clusters[i].name
      BY <3>1 DEF ApplyDefaults, ClusterEntry
    <3>3. RequestOf(i).name = ApplyDefaults(config, config.clusters[i]).name
      BY DEF RequestOf, buildClusterPipelineRequest
    <3> QED  BY <3>2, <3>3 DEF IndInv, Built
  <2>2. DOMAIN child \subseteq DOMAIN run
    BY DEF IndInv, Children
  <2> QED  BY <2>1, <2>2 DEF IndInv, Built, Children, Follows, ChildStates, TypeOK
<1> QED  BY <1>1, RequestInvariance, PTL

\* A pipeline whose output file has an extension writes the files that were
\* compared, no others (parseOutputPath in collect.go).
LEMMA AsCompared ==
  ASSUME IndInv, NEW i \in DOMAIN child, Writes(i), Extended(i)
  PROVE  i \in DOMAIN run /\ Artifacts(i) = clusterRunPaths(run[i])
<1>1. i \in DOMAIN run
  BY DEF IndInv, Children
<1>2. child[i].output = run[i].output
  BY DEF IndInv, Children, Follows, Writes, Extended, parseOutputPath
<1> QED  BY <1>1, <1>2 DEF Artifacts, clusterRunPaths

\* No pipeline writes a file of another cluster, of the parent or of an earlier
\* run, as long as the output files have extensions.
THEOREM ArtifactsDistinctAlways == Spec => []ArtifactsDistinct
<1>1. IndInv => ArtifactsDistinct
  <2> SUFFICES ASSUME IndInv, NEW i \in DOMAIN child, Writes(i), Extended(i)
               PROVE  /\ Artifacts(i) \cap (files \cup {ParentPath}) = {}
                      /\ \A k \in DOMAIN child : i # k /\ Writes(k) /\ Extended(k) =>
                           Artifacts(i) \cap Artifacts(k) = {}
    BY DEF ArtifactsDistinct
  <2>1. i \in DOMAIN run /\ Artifacts(i) = clusterRunPaths(run[i])
    BY AsCompared
  <2>2. ASSUME NEW k \in DOMAIN child, i # k, Writes(k), Extended(k)
        PROVE  Artifacts(i) \cap Artifacts(k) = {}
    <3>1. k \in DOMAIN run /\ Artifacts(k) = clusterRunPaths(run[k])
      BY <2>2, AsCompared
    <3> QED  BY <2>1, <2>2, <3>1 DEF IndInv, Separate
  <2> QED  BY <2>1, <2>2 DEF IndInv, Separate
<1> QED  BY <1>1, RequestInvariance, PTL

\* Without an allowlist the pipeline resolves a scope other than "all" for an entry
\* that Validate takes for one that cannot prompt by its scope (resolveCollectScope).
LEMMA ScopeAgrees ==
  ASSUME NEW e \in ClusterEntry, NEW d, NEW r,
         OrDefault(Trimmed(e.scope), Trimmed(d.scope)) \notin {"all", ""},
         r.scope = OrDefault(e.scope, d.scope), r.discoveryAllowlist = "", ScopeValid(r)
  PROVE  applyDiscoveryFilterByScope(r) = {"curated"}
<1>1. resolveCollectScope(r) # "all"
  BY DEF resolveCollectScope, OrDefault, Trimmed
<1>2. resolveCollectScope(r) # "allowlist"
  BY DEF ScopeValid
<1> QED  BY <1>1, <1>2 DEF applyDiscoveryFilterByScope

\* Of several accepted clusters one may come to a prompt only for one of the three
\* reasons named in SeveralAskForCause, whatever the file sets where, whatever the
\* clusters serve, in the first run and in every resume.
THEOREM SeveralAskForCauseAlways == Spec => []SeveralAskForCause
<1>1. IndInv => SeveralAskForCause
  <2> SUFFICES ASSUME IndInv, Len(config.clusters) > 1,
                      NEW i \in DOMAIN child, child[i].state = "asking"
               PROVE  LET e == config.clusters[i]
                          d == config.defaults
                      IN /\ OrDefault(e.acceptCRDs, d.acceptCRDs) # "true"
                         /\ \/ e.acceptCRDs = "false" /\ d.acceptCRDs = "true"
                            \/ OrDefault(e.discoveryAllowlist, d.discoveryAllowlist) # ""
                            \/ child[i].asks = {"curated"}
    BY DEF SeveralAskForCause
  <2> DEFINE e == config.clusters[i]
             d == config.defaults
             a == ApplyDefaults(config, e)
  <2>1. /\ i \in DOMAIN run /\ ~run[i].accept /\ ScopeValid(run[i]) /\ stage = "running"
        /\ child[i].asks # {} /\ child[i].asks \subseteq applyDiscoveryFilterByScope(run[i])
    BY DEF IndInv, Children, Follows
  <2>2. i \in DOMAIN config.clusters /\ e \in ClusterEntry /\ ~MayPrompt(config, e)
    <3>1. /\ config.clusters \in Seq(ClusterEntry) /\ run \in Seq(Requests)
          /\ Len(run) <= Len(config.clusters) /\ Validate(config)
      BY <2>1, ConfigAssumption DEF IndInv, Built
    <3>2. i \in DOMAIN config.clusters /\ e \in ClusterEntry
      BY <2>1, <3>1
    <3> QED  BY <3>1, <3>2 DEF Validate
  <2>3. /\ a.acceptCRDs = OrDefault(e.acceptCRDs, d.acceptCRDs)
        /\ a.scope = OrDefault(e.scope, d.scope)
        /\ a.discoveryAllowlist = OrDefault(e.discoveryAllowlist, d.discoveryAllowlist)
    BY <2>2 DEF ApplyDefaults, ClusterEntry
  <2>4. /\ run[i].accept = (a.acceptCRDs = "true")
        /\ run[i].scope = a.scope /\ run[i].discoveryAllowlist = a.discoveryAllowlist
    <3>1. RequestOf(i).accept = (ApplyDefaults(config, config.clusters[i]).acceptCRDs = "true")
      BY DEF RequestOf, buildClusterPipelineRequest
    <3>2. /\ RequestOf(i).scope = a.scope
          /\ RequestOf(i).discoveryAllowlist = a.discoveryAllowlist
      BY DEF RequestOf, buildClusterPipelineRequest
    <3>3. run[i] = RequestOf(i)
      BY <2>1 DEF IndInv, Built
    <3> QED  BY <3>1, <3>2, <3>3
  <2> HIDE DEF a
  <2>5. OrDefault(e.acceptCRDs, d.acceptCRDs) # "true"
    BY <2>1, <2>3, <2>4
  <2>6. SUFFICES ASSUME ~(e.acceptCRDs = "false" /\ d.acceptCRDs = "true"),
                        OrDefault(e.discoveryAllowlist, d.discoveryAllowlist) = ""
                 PROVE  child[i].asks = {"curated"}
    BY <2>5
  <2>7. e.acceptCRDs # "true" /\ d.acceptCRDs # "true"
    BY <2>2, <2>5, <2>6 DEF OrDefault, ClusterEntry
  <2>8. OrDefault(Trimmed(e.scope), Trimmed(d.scope)) \notin {"all", ""}
    BY <2>2, <2>6, <2>7 DEF MayPrompt
  <2>9. applyDiscoveryFilterByScope(run[i]) = {"curated"}
    BY <2>1, <2>2, <2>3, <2>4, <2>6, <2>8, ScopeAgrees
  <2> QED  BY <2>1, <2>9
<1> QED  BY <1>1, RequestInvariance, PTL

\* An interrupted cluster whose output file has an extension is not refused by the
\* parent's resume (prepareRunCluster compares equal names).
THEOREM ExtendedResumableAlways == Spec => []ExtendedResumable
<1>1. IndInv => ExtendedResumable
  BY DEF IndInv, Children, Follows, ExtendedResumable, Extended, parseOutputPath
<1> QED  BY <1>1, RequestInvariance, PTL

=============================================================================
