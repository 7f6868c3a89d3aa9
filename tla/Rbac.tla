-------------------------------- MODULE Rbac --------------------------------
(***************************************************************************)
(* The RBAC edge rules: who is bound to which role, and what the rules of  *)
(* that role let him do to the nodes of the graph.                         *)
(*                                                                         *)
(* F is a set of core facts: records with a kind, a namespace (Unset for   *)
(* cluster-scoped ones), a name, and the fields of their kind: a role has  *)
(* the rules of the API object, a binding its roleRef and subjects, a pod  *)
(* the node it runs on.  Texts the code joins with ":" or "/" are          *)
(* sequences of the parts.  The edges of a rule are a set: their order and *)
(* descriptions are left out.                                              *)
(*                                                                         *)
(* Source: src/internal/edges/rbac, src/internal/nodes/rbac,               *)
(* src/internal/nodes/framework/helpers.go, src/internal/model.            *)
(***************************************************************************)
EXTENDS Naturals, SequencesExt

\* A field without a value, and the core API group.
Unset == ""

Identities == {"ServiceAccount", "User", "Group"}
RoleKinds == {"Role", "ClusterRole"}

OfKind(F, k) == {o \in F : o.kind = k}
InSpace(F, k, ns) == {o \in F : o.kind = k /\ o.ns = ns}
Spaces(F) == {o.ns : o \in F} \ {Unset}

-----------------------------------------------------------------------------
(* Nodes. *)

BuildID(kind, ns, name) == kind \o (IF ns = Unset THEN <<name>> ELSE <<ns, name>>)
EdgeID(o) == BuildID(<<o.kind>>, o.ns, o.name)

\* The aggregate that stands for every object of a kind.
AggregateOf == [
  Pod |-> "AllPods", Secret |-> "AllSecrets", ConfigMap |-> "AllConfigMaps",
  ServiceAccount |-> "AllServiceAccounts", Deployment |-> "AllDeployments",
  DaemonSet |-> "AllDaemonSets", StatefulSet |-> "AllStatefulSets",
  Job |-> "AllJobs", CronJob |-> "AllCronJobs", Role |-> "AllRoles",
  Node |-> "AllNodes", ClusterRole |-> "AllClusterRoles",
  User |-> "AllUsers", Group |-> "AllGroups"]

\* What FirstEdgeNode finds: the aggregate of a kind in a namespace or cluster.
Aggregate(F, k, ns) == InSpace(F, AggregateOf[k], ns)

CreateEdges(who, targets, kind) ==
  {[kind |-> kind, from |-> EdgeID(who), to |-> EdgeID(t), props |-> {}] : t \in targets}

-----------------------------------------------------------------------------
(* The rules of a role, and how they are read back from their display form. *)

\* Mutant: every group of a rule is taken for the core group.
BuildRbacRules_GroupLost(rules) ==
  UNION {{[group |-> Unset, resource |-> s, verbs |-> r.verbs, names |-> r.names] :
            s \in r.resources} : r \in rules}

\* Only the first group of a rule is kept.
BuildRbacRules(rules) ==
  UNION {{[group |-> IF r.groups = <<>> THEN Unset ELSE r.groups[1],
           resource |-> s, verbs |-> r.verbs, names |-> r.names] : s \in r.resources} :
         r \in rules}

Prefix(rule) == (IF rule.group = Unset THEN <<>> ELSE <<rule.group>>) \o rule.resource

\* Mutant: the names of a rule are not shown.
BuildRbacRulesDisplay_NoNames(rules) ==
  {[key |-> Prefix(r), verbs |-> r.verbs] : r \in rules}

BuildRbacRulesDisplay(rules) ==
  UNION {IF r.names = {}
         THEN {[key |-> Prefix(r), verbs |-> r.verbs]}
         ELSE {[key |-> Append(Prefix(r), n), verbs |-> r.verbs] : n \in r.names} : r \in rules}

PermsDisplay(role) == BuildRbacRulesDisplay(BuildRbacRules(role.rules))

\* Whether perms give one of the verbs on a resource, and else on which names.
accessForResource(perms, keys, verbs) ==
  LET usable == {p \in perms : p.verbs \cap (verbs \cup {"*"}) # {}}
      all == \E p \in usable : p.key \in keys \cup {<<"*">>}
  IN [all |-> all,
      names |-> IF all THEN {}
                ELSE {Last(p.key) : p \in {q \in usable : Len(q.key) > 1 /\ Front(q.key) \in keys}}]

SomeAccess(a) == a.all \/ a.names # {}
Named(objects, a) == {o \in objects : o.name \in a.names}

-----------------------------------------------------------------------------
(* Bindings. *)

BoundRole(F, b) ==
  {r \in F : /\ r.kind = b.roleKind /\ r.kind \in RoleKinds
             /\ r.name = b.roleName
             /\ r.ns = (IF r.kind = "Role" THEN b.ns ELSE Unset)}

\* Mutant: a service account of any namespace answers to the subject's name.
resolveSubject_AnySpace(F, ns, s) == {o \in OfKind(F, s.kind) : o.name = s.name}

\* resolveNamespacedSubject, and resolveClusterSubject when ns is Unset.
resolveSubject(F, ns, s) ==
  {o \in F : /\ o.kind = s.kind /\ o.kind \in Identities
             /\ o.name = s.name
             /\ o.kind = "ServiceAccount" =>
                  /\ o.ns = (IF s.ns = Unset THEN ns ELSE s.ns)
                  /\ ns \in {Unset, o.ns}}

Bindings(F) == OfKind(F, "RoleBinding") \cup OfKind(F, "ClusterRoleBinding")

\* A binding, a role it gives and an identity it gives it to.
Bonds(F) ==
  UNION {{[binding |-> EdgeID(b), ns |-> b.ns, role |-> r, who |-> w] :
            r \in BoundRole(F, b), w \in UNION {resolveSubject(F, b.ns, s) : s \in b.subjects}} :
         b \in Bindings(F)}

\* Mutant: one edge for each binding.
RoleBound_Unmerged(F) ==
  {[kind |-> "RoleBound", from |-> EdgeID(g.who), to |-> EdgeID(g.role),
    props |-> {g.binding}] : g \in Bonds(F)}

\* rbac_base: one edge for an identity and a role, naming every binding.
RoleBound(F) ==
  {[kind |-> "RoleBound", from |-> EdgeID(g.who), to |-> EdgeID(g.role),
    props |-> {h.binding : h \in {x \in Bonds(F) : x.who = g.who /\ x.role = g.role}}] :
     g \in Bonds(F)}

\* What the rules below look at: the permissions an identity holds in ns, or
\* in the whole cluster when ns is Unset.
Grants(F) == {[ns |-> g.ns, perms |-> PermsDisplay(g.role), who |-> g.who] : g \in Bonds(F)}

\* Objects of a kind a grant reaches: its namespace's, or everybody's.
InReach(F, k, ns) == IF ns = Unset THEN OfKind(F, k) ELSE InSpace(F, k, ns)

-----------------------------------------------------------------------------
(* simpleAccessRule: one resource, the aggregate or the named objects. *)

ReadVerbs == {"get", "list", "watch"}

SimpleAccess == {
  [edge |-> "ReadSecret", key |-> <<"secrets">>, verbs |-> ReadVerbs, target |-> "Secret"],
  [edge |-> "ReadConfigMap", key |-> <<"configmaps">>, verbs |-> ReadVerbs, target |-> "ConfigMap"],
  [edge |-> "PodExec", key |-> <<"pods", "exec">>, verbs |-> {"create"}, target |-> "Pod"],
  [edge |-> "PodPortForward", key |-> <<"pods", "portforward">>, verbs |-> {"create"},
   target |-> "Pod"],
  [edge |-> "PodAttach", key |-> <<"pods", "attach">>, verbs |-> {"create"}, target |-> "Pod"],
  [edge |-> "PodDebug", key |-> <<"pods", "ephemeralcontainers">>, verbs |-> {"update"},
   target |-> "Pod"],
  [edge |-> "ReadLogs", key |-> <<"pods", "log">>, verbs |-> ReadVerbs, target |-> "Pod"],
  [edge |-> "SATokenRequest", key |-> <<"serviceaccounts", "token">>, verbs |-> {"create"},
   target |-> "ServiceAccount"]}

\* Mutant: a grant of one namespace reaches the cluster's aggregate.
AllOrNamed_ClusterWide(F, k, ns, a) ==
  IF a.all THEN Aggregate(F, k, Unset) ELSE Named(InReach(F, k, ns), a)

AllOrNamed(F, k, ns, a) == IF a.all THEN Aggregate(F, k, ns) ELSE Named(InReach(F, k, ns), a)

simpleAccess(F, g) ==
  UNION {CreateEdges(g.who,
           AllOrNamed(F, r.target, g.ns, accessForResource(g.perms, {r.key}, r.verbs)),
           r.edge) : r \in SimpleAccess}

-----------------------------------------------------------------------------
(* Rules of other shapes. *)

\* In a namespace every account of it, in the cluster the aggregate.
Members(F, k, ns, a) ==
  IF a.all /\ ns # Unset THEN InSpace(F, k, ns) ELSE AllOrNamed(F, k, ns, a)

impersonate(F, g) ==
  LET May(key) == accessForResource(g.perms, {<<key>>}, {"impersonate"})
  IN CreateEdges(g.who,
       Members(F, "ServiceAccount", g.ns, May("serviceaccounts"))
         \cup AllOrNamed(F, "User", Unset, May("users"))
         \cup AllOrNamed(F, "Group", Unset, May("groups")), "Impersonate")

nodeProxy(F, g) ==
  LET a == accessForResource(g.perms, {<<"nodes", "proxy">>}, {"get", "create", "proxy"})
      pods == IF a.all THEN Aggregate(F, "Pod", Unset)
              ELSE {p \in OfKind(F, "Pod") : p.node # Unset /\ p.node \in a.names}
  IN IF g.ns # Unset THEN {}
     ELSE CreateEdges(g.who, pods \cup AllOrNamed(F, "Node", Unset, a), "NodeProxyRCE")

RbacGroup(key) == {<<key>>, <<"rbac.authorization.k8s.io", key>>}

escalateBind(F, g) ==
  LET Can(key, verb) == accessForResource(g.perms, RbacGroup(key), {verb}).all
      Edges(key, targets) ==
        IF Can(key, "escalate") THEN CreateEdges(g.who, targets, "RBACEscalate")
        ELSE IF Can(key, "bind") THEN CreateEdges(g.who, targets, "RBACBind") ELSE {}
      AllOrEach(k, ns) == IF Aggregate(F, k, ns) # {} THEN Aggregate(F, k, ns)
                          ELSE InSpace(F, k, ns)
      spaces == IF g.ns = Unset THEN Spaces(F) ELSE {g.ns}
  IN Edges("roles", UNION {AllOrEach("Role", ns) : ns \in spaces})
     \cup Edges("clusterroles", IF g.ns = Unset THEN AllOrEach("ClusterRole", Unset)
                                ELSE OfKind(F, "ClusterRole"))

sccUsage(F, g) ==
  LET sccs == OfKind(F, "SCC")
      a == accessForResource(g.perms, {<<"securitycontextconstraints">>,
             <<"security.openshift.io", "securitycontextconstraints">>}, {"use"})
  IN IF g.ns # Unset THEN {}
     ELSE CreateEdges(g.who, IF a.all THEN sccs ELSE Named(sccs, a), "SCCUse")

rbacCreate(F, g) ==
  LET key == IF g.ns = Unset THEN "clusterrolebindings" ELSE "rolebindings"
      spaces == IF g.ns = Unset THEN Spaces(F) ELSE {g.ns}
  IN IF SomeAccess(accessForResource(g.perms, RbacGroup(key), {"create"}))
     THEN CreateEdges(g.who, Aggregate(F, "ClusterRole", Unset)
            \cup UNION {Aggregate(F, "Role", ns) : ns \in spaces}, "RBACCreate")
     ELSE {}

\* The resource keys of each kind of workload.
WorkloadKeys == [
  Pod |-> {<<"pods">>},
  Deployment |-> {<<"deployments">>, <<"apps", "deployments">>},
  DaemonSet |-> {<<"daemonsets">>, <<"apps", "daemonsets">>},
  StatefulSet |-> {<<"statefulsets">>, <<"apps", "statefulsets">>},
  Job |-> {<<"jobs">>, <<"batch", "jobs">>},
  CronJob |-> {<<"cronjobs">>, <<"batch", "cronjobs">>}]

Workloads == DOMAIN WorkloadKeys

workloadCreate(F, g) ==
  LET keys == {<<"replicationcontrollers">>} \cup UNION {WorkloadKeys[k] : k \in Workloads}
  IN IF SomeAccess(accessForResource(g.perms, keys, {"create"}))
     THEN CreateEdges(g.who, OfKind(F, "Node"), "WorkloadCreate") ELSE {}

workloadPatch(F, g) ==
  UNION {CreateEdges(g.who,
           Members(F, k, g.ns, accessForResource(g.perms, WorkloadKeys[k], {"patch", "update"})),
           "WorkloadPatch") : k \in Workloads}

RbacEdges(F) ==
  RoleBound(F) \cup
  UNION {simpleAccess(F, g) \cup impersonate(F, g) \cup nodeProxy(F, g)
         \cup escalateBind(F, g) \cup sccUsage(F, g) \cup rbacCreate(F, g)
         \cup workloadCreate(F, g) \cup workloadPatch(F, g) : g \in Grants(F)}

=============================================================================
