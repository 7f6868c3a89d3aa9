------------------------------- MODULE Graph -------------------------------
(***************************************************************************)
(* From the lines a collection wrote to the graph: nodes without           *)
(* duplicates, the environment of pods, aggregates, users and groups       *)
(* nobody collects, the permissions of each identity, and the edges of     *)
(* Rbac, of Exposure and of the aggregates, renamed for the cluster.       *)
(*                                                                         *)
(* A line says what the decoder and the builders make of it: a typed       *)
(* object, a generic one, nothing, or an error.  Properties of nodes other *)
(* than "permissions" and "env", and the add-ons, are left out.            *)
(*                                                                         *)
(* Source: src/internal/parser, src/internal/nodes/platform,               *)
(* src/internal/edges/{framework,aggregates}, src/internal/model.          *)
(***************************************************************************)
EXTENDS Exposure

CONSTANT Request  \* the inputs of the instance: lines, parseUndefinedNodes, cluster

\* Kinds whose aggregate a namespace may have, and those the cluster has.
SpacedKinds == DOMAIN AggregateOf \ {"Node", "ClusterRole", "User", "Group"}
ClusterKinds == DOMAIN AggregateOf \ {"Role"}

\* Kinds of the nodes that no line describes.
AggregateKinds == {AggregateOf[k] : k \in DOMAIN AggregateOf}
NamedKinds == {"User", "Group", "External"}

\* The containers of a pod have names of their own, and what an environment takes from
\* an object is all of it or a key.
Contained(p) ==
  /\ \A c, d \in p.containers : c.name = d.name => c = d
  /\ \A c \in p.containers : \A v \in c.env :
       /\ v = [from |-> v.from, kind |-> v.kind, ref |-> v.ref]
       /\ v.kind \in {"Secret", "ConfigMap"} => v.from \in {"envFrom", "valueFrom"}

\* The API server asks for a group where there are resources, and for names that are not empty.
Valid(rule) ==
  /\ rule.groups \in Seq(ToSet(rule.groups)) /\ Unset \notin rule.names
  /\ \A s \in rule.resources : s \in Seq(ToSet(s)) /\ s # <<>> /\ rule.groups # <<>>

\* Typed objects are those a builder knows, and come from the API server: users and
\* groups are only named by bindings, and a kind is of namespaces or of the cluster.
Served(o) ==
  /\ o.kind \notin AggregateKinds \cup NamedKinds
  /\ o.kind \in {"ClusterRole", "SCC"} => o.ns = Unset
  /\ o.kind \in SpacedKinds \cup {"NetworkPolicy"} => o.ns # Unset
  /\ o.kind \in {"RoleBinding", "ClusterRoleBinding"} => IsFiniteSet(o.subjects)
  /\ o.kind \in RoleKinds => \A rule \in o.rules : Valid(rule)
  /\ o.kind = "Pod" => Contained(o)

\* No custom resource has the kind of an aggregate, and each has a group.
ASSUME RequestAssumption ==
  \A q \in Request :
    /\ q.undefined \in BOOLEAN
    /\ q.cluster \in Seq(ToSet(q.cluster))
    /\ q.lines \in Seq(ToSet(q.lines))
    /\ \A l \in ToSet(q.lines) :
         /\ l.form \in {"typed", "generic", "none", "bad"}
         /\ l.form = "typed" => Served(l.obj)
         /\ l.form = "generic" =>
              /\ l.obj.kind \notin AggregateKinds
              /\ l.obj.kind \in NamedKinds => l.obj.group # Unset

VARIABLES
  request,
  stage,
  lines,     \* what is left to read
  nodeList,  \* nodes so far
  facts,     \* CoreFacts
  edges

vars == <<request, stage, lines, nodeList, facts, edges>>

-----------------------------------------------------------------------------
(* Lines and nodes. *)

Line == Head(lines)

\* A generic node's kind carries its group.
LineID(l) ==
  IF l.form = "typed" THEN EdgeID(l.obj)
  ELSE BuildID(IF l.obj.group = Unset THEN <<l.obj.kind>> ELSE <<l.obj.kind, l.obj.group>>,
               l.obj.ns, l.obj.name)

IsBuilt(l) == l.form = "typed" \/ (l.form = "generic" /\ request.undefined)
Node(id, generic) == [id |-> id, generic |-> generic, permissions |-> {}, env |-> {}]
LineNode(l) == Node(LineID(l), l.form = "generic")

\* Facts of a line: no rule reads those of generic nodes.
CoreOf(l) == IF l.form = "typed" THEN {l.obj} ELSE {}

SeenAt(id) == {i \in DOMAIN nodeList : nodeList[i].id = id}

Init ==
  /\ request \in Request
  /\ stage = "reading"
  /\ lines = request.lines
  /\ nodeList = <<>>
  /\ facts = {}
  /\ edges = {}

Reading == stage = "reading" /\ lines # <<>>
Consume == lines' = Tail(lines) /\ UNCHANGED <<request, stage, edges>>

\* Mutant: what was seen before is not looked up.
AddNode_Again ==
  /\ Reading /\ IsBuilt(Line)
  /\ nodeList' = Append(nodeList, LineNode(Line))
  /\ facts' = facts \cup CoreOf(Line)
  /\ Consume

AddNode ==
  /\ Reading /\ IsBuilt(Line)
  /\ SeenAt(LineID(Line)) = {}
  /\ nodeList' = Append(nodeList, LineNode(Line))
  /\ facts' = facts \cup CoreOf(Line)
  /\ Consume

\* Mutant: the generic node keeps its place and the typed object is dropped.
ReplaceGeneric_Kept ==
  /\ Reading /\ Line.form = "typed"
  /\ \E i \in SeenAt(LineID(Line)) : nodeList[i].generic
  /\ UNCHANGED <<nodeList, facts>>
  /\ Consume

\* Typed wins over an earlier generic node.
ReplaceGeneric ==
  /\ Reading /\ Line.form = "typed"
  /\ \E i \in SeenAt(LineID(Line)) :
       /\ nodeList[i].generic
       /\ nodeList' = [nodeList EXCEPT ![i] = LineNode(Line)]
  /\ facts' = facts \cup CoreOf(Line)
  /\ Consume

SkipDuplicate ==
  /\ Reading /\ IsBuilt(Line)
  /\ \E i \in SeenAt(LineID(Line)) : Line.form = "generic" \/ ~nodeList[i].generic
  /\ UNCHANGED <<nodeList, facts>>
  /\ Consume

SkipLine ==
  /\ Reading /\ Line.form # "bad" /\ ~IsBuilt(Line)
  /\ UNCHANGED <<nodeList, facts>>
  /\ Consume

BadLine ==
  /\ Reading /\ Line.form = "bad"
  /\ stage' = "failed"
  /\ UNCHANGED <<request, lines, nodeList, facts, edges>>

-----------------------------------------------------------------------------
(* What is added to the objects that were read. *)

EnrichEnv ==
  /\ stage = "reading" /\ lines = <<>>
  /\ nodeList' = [i \in DOMAIN nodeList |->
                    [nodeList[i] EXCEPT !.env =
                       UNION {podEnv(facts, p) :
                              p \in {x \in Pods(facts) : EdgeID(x) = nodeList[i].id}}]]
  /\ stage' = "injected"
  /\ UNCHANGED <<request, lines, facts, edges>>

\* One after the other.
Listed(objects) == FoldSet(LAMBDA o, q : Append(q, o), <<>>, objects)

AppendNodes(objects) ==
  /\ nodeList' = nodeList \o LET list == Listed(objects)
                             IN [i \in DOMAIN list |-> Node(EdgeID(list[i]), FALSE)]
  /\ facts' = facts \cup objects

AggregateObject(k, ns) == [kind |-> AggregateOf[k], ns |-> ns, name |-> AggregateOf[k]]

\* Mutant: secrets are forgotten among the kinds of a namespace.
addAggregateNodes_NoSecrets ==
  {AggregateObject(k, Unset) : k \in ClusterKinds} \cup
  {AggregateObject(p[1], p[2]) :
     p \in {q \in (SpacedKinds \ {"Secret"}) \X Spaces(facts) : InSpace(facts, q[1], q[2]) # {}}}

addAggregateNodes ==
  {AggregateObject(k, Unset) : k \in ClusterKinds} \cup
  {AggregateObject(p[1], p[2]) :
     p \in {q \in SpacedKinds \X Spaces(facts) : InSpace(facts, q[1], q[2]) # {}}}

AddAggregates ==
  /\ stage = "injected"
  /\ AppendNodes(addAggregateNodes)
  /\ stage' = "aggregated"
  /\ UNCHANGED <<request, lines, edges>>

Subjects == UNION {b.subjects : b \in Bindings(facts)}

\* Users and groups exist only as subjects of bindings.
SynthesizeUsersAndGroups ==
  /\ stage = "aggregated"
  /\ AppendNodes({[kind |-> s.kind, ns |-> Unset, name |-> s.name] :
                s \in {x \in Subjects : x.kind \in {"User", "Group"}}})
  /\ stage' = "identified"
  /\ UNCHANGED <<request, lines, edges>>

\* The node a subject names, whether or not it was collected.
subjectNodeID(ns, s) ==
  LET space == IF s.ns = Unset THEN ns ELSE s.ns
  IN IF s.kind = "ServiceAccount"
     THEN IF space = Unset THEN {} ELSE {BuildID(<<s.kind>>, space, s.name)}
     ELSE IF s.kind \in Identities THEN {BuildID(<<s.kind>>, Unset, s.name)} ELSE {}

\* Mutant: only the bindings of namespaces are resolved.
PermissionsOf_NoCluster(id) ==
  UNION {UNION {BuildRbacRules(r.rules) : r \in BoundRole(facts, b)} :
           b \in {x \in OfKind(facts, "RoleBinding") :
                    id \in UNION {subjectNodeID(x.ns, s) : s \in x.subjects}}}

PermissionsOf(id) ==
  UNION {UNION {BuildRbacRules(r.rules) : r \in BoundRole(facts, b)} :
           b \in {x \in Bindings(facts) :
                    id \in UNION {subjectNodeID(x.ns, s) : s \in x.subjects}}}

EnrichPermissions ==
  /\ stage = "identified"
  /\ nodeList' = [i \in DOMAIN nodeList |->
                    [nodeList[i] EXCEPT !.permissions = PermissionsOf(nodeList[i].id)]]
  /\ stage' = "enriched"
  /\ UNCHANGED <<request, lines, facts, edges>>

AddExternal ==
  /\ stage = "enriched"
  /\ AppendNodes({[kind |-> "External", ns |-> Unset, name |-> "external"]})
  /\ stage' = "parsed"
  /\ UNCHANGED <<request, lines, edges>>

-----------------------------------------------------------------------------
(* Edges. *)

ContainsEdges(F) ==
  LET Holds(k, ns, members) ==
        UNION {CreateEdges(a, members, "Contains") : a \in Aggregate(F, k, ns)}
  IN (UNION {Holds(k, ns, InSpace(F, k, ns)) \cup Holds(k, Unset, Aggregate(F, k, ns)) :
             k \in SpacedKinds, ns \in Spaces(F)})
     \cup Holds("ClusterRole", Unset, OfKind(F, "ClusterRole"))

\* The first edge of a kind between two nodes is kept.  The order comes from maps:
\* the sets that may be left.
DeduplicateEdges(E) ==
  LET Same(e) == {f \in E : f.kind = e.kind /\ f.from = e.from /\ f.to = e.to}
      twice == {e \in E : Same(e) # {e}}
  IN {(E \ twice) \cup kept :
        kept \in {K \in SUBSET twice : \A e \in twice : Cardinality(K \cap Same(e)) = 1}}

BuildEdges ==
  /\ stage = "parsed"
  /\ edges' \in DeduplicateEdges(
       RbacEdges(facts) \cup ExposureEdges(facts) \cup ContainsEdges(facts))
  /\ stage' = "built"
  /\ UNCHANGED <<request, lines, nodeList, facts>>

defaultClusterName == <<"default">>

\* TrimSpace, and the default for what is blank.
normalizedCluster(name) ==
  LET ink == {i \in DOMAIN name : name[i] # " "}
  IN IF ink = {} THEN defaultClusterName ELSE SubSeq(name, Min(ink), Max(ink))

\* Mutant: the ends of edges are prefixed with the name as it was given.
ApplyCluster_RawEnds ==
  /\ stage = "built"
  /\ LET Scoped(id) == normalizedCluster(request.cluster) \o id
     IN /\ nodeList' = [i \in DOMAIN nodeList |-> [nodeList[i] EXCEPT !.id = Scoped(@)]]
        /\ edges' = {[e EXCEPT !.from = Scoped(@), !.to = request.cluster \o @] : e \in edges}
  /\ stage' = "done"
  /\ UNCHANGED <<request, lines, facts>>

ApplyCluster ==
  /\ stage = "built"
  /\ LET Scoped(id) == normalizedCluster(request.cluster) \o id
     IN /\ nodeList' = [i \in DOMAIN nodeList |-> [nodeList[i] EXCEPT !.id = Scoped(@)]]
        /\ edges' = {[e EXCEPT !.from = Scoped(@), !.to = Scoped(@)] : e \in edges}
  /\ stage' = "done"
  /\ UNCHANGED <<request, lines, facts>>

Next ==
  \/ AddNode \/ ReplaceGeneric \/ SkipDuplicate \/ SkipLine \/ BadLine
  \/ EnrichEnv \/ AddAggregates \/ SynthesizeUsersAndGroups \/ EnrichPermissions \/ AddExternal
  \/ BuildEdges \/ ApplyCluster

Spec == Init /\ [][Next]_vars

-----------------------------------------------------------------------------
(* Properties. *)

\* The types of the variables; nodes and edges carry sequences for ids, and
\* generic nodes appear only when they were asked for (parseUndefinedNodes).
TypeOK ==
  /\ request \in Request
  /\ stage \in {"reading", "failed", "injected", "aggregated", "identified", "enriched", "parsed",
                "built", "done"}
  /\ \A i \in DOMAIN nodeList :
       DOMAIN nodeList[i] = {"id", "generic", "permissions", "env"} /\ Len(nodeList[i].id) >= 2
       /\ nodeList[i].generic => request.undefined
  /\ \A e \in edges : DOMAIN e = {"kind", "from", "to", "props"}

IDs == {nodeList[i].id : i \in DOMAIN nodeList}
ReadLines == {l \in ToSet(request.lines) : IsBuilt(l)}
ReadDone == stage \notin {"reading", "failed"}

\* Whatever the order of the lines, an object served under several API groups
\* is one node with one fact, typed as soon as one of its lines is
\* (createNodesAndCoreFactsFromReader: "Typed-wins dedup").
OneNodePerObject ==
  /\ \A i, j \in DOMAIN nodeList : nodeList[i].id = nodeList[j].id => i = j
  /\ ReadDone /\ stage # "done" =>
       \A l \in ReadLines :
         LET typed == {k \in ReadLines : k.form = "typed" /\ LineID(k) = LineID(l)}
         IN /\ \E i \in SeenAt(LineID(l)) : nodeList[i].generic <=> typed = {}
            /\ typed # {} => Cardinality(facts \cap {k.obj : k \in typed}) = 1

\* Every edge of the graph joins two of its nodes: BloodHound would drop it,
\* or invent a node, otherwise.
EdgesJoinNodes == stage = "done" => \A e \in edges : {e.from, e.to} \subseteq IDs

\* What Kubernetes says of a binding: whom it names, what it refers to.
Names(b, w) ==
  \E s \in b.subjects :
    /\ s.kind = w.kind /\ s.name = w.name
    /\ w.kind = "ServiceAccount" => w.ns = (IF s.ns = Unset THEN b.ns ELSE s.ns)
RefersTo(b, r) ==
  b.roleKind = r.kind /\ b.roleName = r.name /\ (r.kind = "Role" => r.ns = b.ns)

\* A service account bound in a namespace that is not its own.
Foreign(b, w) == w.kind = "ServiceAccount" /\ b.ns \notin {Unset, w.ns}

Who == UNION {OfKind(facts, k) : k \in Identities}
Roles == UNION {OfKind(facts, k) : k \in RoleKinds}

\* Every binding of an identity to a role is on the one edge between them,
\* however many other bindings there are (docs/edges.md: "the full list is
\* exposed"), service accounts of other namespaces apart.
EveryBindingShown ==
  stage = "built" =>
    \A b \in Bindings(facts), w \in Who, r \in Roles :
      Names(b, w) /\ RefersTo(b, r) /\ ~Foreign(b, w) =>
        \E e \in edges : /\ e.kind = "RoleBound" /\ EdgeID(b) \in e.props
                         /\ e.from = EdgeID(w) /\ e.to = EdgeID(r)

\* enrichIdentityPermissions and rbac_base resolve bindings independently: an
\* identity's permissions hold the rules of every role it is bound to in the
\* graph, and nothing else unless a foreign binding names it.
PermissionsAgree ==
  stage = "built" =>
    \A w \in Who :
      LET bound == {r \in Roles : \E e \in edges :
                      e.kind = "RoleBound" /\ e.from = EdgeID(w) /\ e.to = EdgeID(r)}
          rules == UNION {BuildRbacRules(r.rules) : r \in bound}
          foreign == \E b \in Bindings(facts) : Names(b, w) /\ Foreign(b, w)
      IN \A i \in SeenAt(EdgeID(w)) :
           /\ rules \subseteq nodeList[i].permissions
           /\ foreign \/ rules = nodeList[i].permissions

\* What an edge of a kind to an object claims: one of the verbs on the resource
\* in one of the groups.
Claims == {
  [edge |-> "ReadSecret", target |-> "Secret", verbs |-> ReadVerbs, groups |-> {Unset},
   resource |-> <<"secrets">>],
  [edge |-> "PodExec", target |-> "Pod", verbs |-> {"create"}, groups |-> {Unset},
   resource |-> <<"pods", "exec">>],
  [edge |-> "PodDebug", target |-> "Pod", verbs |-> {"update"}, groups |-> {Unset},
   resource |-> <<"pods", "ephemeralcontainers">>],
  [edge |-> "SATokenRequest", target |-> "ServiceAccount", verbs |-> {"create"},
   groups |-> {Unset}, resource |-> <<"serviceaccounts", "token">>],
  [edge |-> "Impersonate", target |-> "ServiceAccount", verbs |-> {"impersonate"},
   groups |-> {Unset}, resource |-> <<"serviceaccounts">>],
  [edge |-> "WorkloadPatch", target |-> "Pod", verbs |-> {"patch", "update"},
   groups |-> {Unset}, resource |-> <<"pods">>],
  [edge |-> "WorkloadPatch", target |-> "Deployment", verbs |-> {"patch", "update"},
   groups |-> {Unset, "apps"}, resource |-> <<"deployments">>],
  [edge |-> "NodeProxyRCE", target |-> "Pod", verbs |-> {"get", "create", "proxy"},
   groups |-> {Unset}, resource |-> <<"nodes", "proxy">>],
  [edge |-> "SCCUse", target |-> "SCC", verbs |-> {"use"},
   groups |-> {Unset, "security.openshift.io"}, resource |-> <<"securitycontextconstraints">>]}

\* The object the API server is asked about: a pod is reached through its node.
Asked(c, t) == IF c.edge = "NodeProxyRCE" THEN [ns |-> Unset, name |-> t.node]
               ELSE [ns |-> t.ns, name |-> t.name]

\* How Kubernetes matches a request with a rule.
Allows(rule, c, name) ==
  /\ rule.verbs \cap (c.verbs \cup {"*"}) # {}
  /\ ToSet(rule.groups) \cap (c.groups \cup {"*"}) # {}
  /\ \E s \in rule.resources :
       \/ s \in {<<"*">>, c.resource}
       \/ Len(c.resource) = 2 /\ s = <<"*", c.resource[2]>>
  /\ rule.names = {} \/ name \in rule.names

\* The rules by which w has what c claims of t, foreign bindings among them or not.
GrantingRules(w, c, t, foreign) ==
  {rule \in UNION {r.rules : r \in {x \in Roles : \E b \in Bindings(facts) :
       /\ Names(b, w) /\ RefersTo(b, x)
       /\ b.ns \in {Unset, Asked(c, t).ns}
       /\ foreign \/ ~Foreign(b, w)}} : Allows(rule, c, Asked(c, t).name)}

\* An edge reaches a node directly or through the aggregates that contain it.
Reaches(e, id) ==
  LET Up(ids) == {f.from : f \in {g \in edges : g.kind = "Contains" /\ g.to \in ids}}
  IN e.to \in {id} \cup Up({id}) \cup Up(Up({id}))

Shown(w, c, t) ==
  \E e \in edges : e.kind = c.edge /\ e.from = EdgeID(w) /\ Reaches(e, EdgeID(t))

\* No edge claims, directly or through aggregates, what Kubernetes would refuse.
AccessGranted ==
  stage = "built" =>
    \A w \in Who, c \in Claims : \A t \in OfKind(facts, c.target) :
      Shown(w, c, t) => GrantingRules(w, c, t, TRUE) # {}

\* A rule of one group without wildcards in front of a subresource, group or name.
Plain(rule) ==
  /\ Len(rule.groups) = 1 /\ rule.groups # <<"*">>
  /\ \A s \in rule.resources :
       s[1] = "*" => s = <<"*">> /\ rule.groups = <<Unset>> /\ rule.names = {}

\* What a plain rule gives is in the graph: the edge leads to the object itself
\* or to an aggregate that contains it (docs/edges.md, "Aggregate Containment").
PlainAccessShown ==
  stage = "built" =>
    \A w \in Who, c \in Claims : \A t \in OfKind(facts, c.target) :
      (\E rule \in GrantingRules(w, c, t, FALSE) : Plain(rule)) => Shown(w, c, t)

\* A route from a service to a pod carries networkPolicyRestricted exactly when the
\* graph has a policy that applies to the pod, directly or through the aggregate of
\* its namespace: service.go and network_policy.go decide it separately.
RoutesMarked ==
  stage = "built" =>
    \A e \in edges, p \in Pods(facts) :
      e.kind = "RoutesTo" /\ e.to = EdgeID(p) =>
        (e.props = {<<"networkPolicyRestricted">>} <=>
           \E f \in edges : f.kind = "AppliesTo" /\ Reaches(f, EdgeID(p)))

\* The environment on the node of a pod and the edges tell one story, though they
\* come from two readings of the pod: every definition of the pod is shown; one
\* shown as a controller's has its ManagedBy edge (controllers without matchLabels
\* apart, which have none); and a secret or config map has its EnvVars edge exactly
\* when a definition of a container that stays names it.
EnvTraced ==
  stage = "built" =>
    \A p \in Pods(facts) : \A i \in SeenAt(EdgeID(p)) :
      LET env == nodeList[i].env
          Joined(kind, from) ==
            \E e \in edges : e.kind = kind /\ e.from = from /\ e.to = EdgeID(p)
          own == UNION {{x \in env : x.def.container = c.name} : c \in Containers(p)}
      IN /\ Definitions(p) \subseteq {x.def : x \in env}
         /\ \A x \in env :
              \/ x.source = EdgeID(p) \/ Joined("ManagedBy", x.source)
              \/ \E o \in Controllers(facts) : EdgeID(o) = x.source /\ o.selector = {}
         /\ \A o \in InSpace(facts, "Secret", p.ns) \cup InSpace(facts, "ConfigMap", p.ns) :
              Joined("EnvVars", EdgeID(o)) <=>
                \E x \in own : x.def \in Definitions(p) /\ x.def.kind = o.kind /\ x.def.ref = o.name

\* docs/edges.md: "ServiceAccount -> AllSecrets | Cluster-scoped, wildcard secret
\* access".  A rule with apiGroups "*" and resources "*" is such access.
WildcardReadsSecrets ==
  stage = "built" =>
    \A b \in OfKind(facts, "ClusterRoleBinding"), w \in OfKind(facts, "ServiceAccount") :
      (\E r \in Roles : Names(b, w) /\ RefersTo(b, r) /\
         \E rule \in r.rules : rule.names = {} /\
           \E c \in Claims : c.edge = "ReadSecret" /\ Allows(rule, c, Unset))
      => \E e \in edges : /\ e.kind = "ReadSecret" /\ e.from = EdgeID(w)
                         /\ e.to = BuildID(<<"AllSecrets">>, Unset, "AllSecrets")

=============================================================================
