------------------------------ MODULE MCGraph ------------------------------
(***************************************************************************)
(* Instances of Graph: a small collection of two namespaces, to which a    *)
(* role, a rule, a binding and a subject are added in every combination,   *)
(* or a pod with the network or the controllers around it, and collections *)
(* with duplicates, undecoded lines and cluster names.                     *)
(***************************************************************************)
EXTENDS Graph

Obj(kind, ns, name) == [kind |-> kind, ns |-> ns, name |-> name]
Pod(ns, name, node) ==
  [kind |-> "Pod", ns |-> ns, name |-> name, node |-> node, labels |-> {}, sa |-> "default",
   automount |-> "unset", scc |-> "", volumes |-> {}, containers |-> {}, caps |-> {},
   host |-> {}, shareProc |-> FALSE]
Secret(ns, name, type) == [kind |-> "Secret", ns |-> ns, name |-> name, type |-> type]
Account(ns, name, secrets) ==
  [kind |-> "ServiceAccount", ns |-> ns, name |-> name, secrets |-> secrets]
Controller(kind, ns, selector, containers) ==
  [kind |-> kind, ns |-> ns, name |-> "d", selector |-> selector, containers |-> containers]
Role(kind, ns, rules) == [kind |-> kind, ns |-> ns, name |-> "r", rules |-> rules]
Binding(kind, ns, name, roleKind, roleName, subjects) ==
  [kind |-> kind, ns |-> ns, name |-> name, roleKind |-> roleKind,
   roleName |-> roleName, subjects |-> subjects]
Rule(groups, resources, verbs, names) ==
  [groups |-> groups, resources |-> resources, verbs |-> verbs, names |-> names]
Subject(kind, ns, name) == [kind |-> kind, ns |-> ns, name |-> name]

\* One pod has no node yet, one secret shares its name with another's.
Base == <<
  Pod("a", "p", "n1"), Pod("a", "q", ""), Pod("b", "p", "n2"),
  Secret("a", "x", "Opaque"), Secret("b", "x", "Opaque"), Secret("b", "y", "Opaque"),
  Obj("ConfigMap", "a", "x"), Account("a", "s", {}), Account("b", "s", {}),
  Controller("Deployment", "a", {"web"}, {}), Controller("Deployment", "b", {"web"}, {}),
  Obj("Node", "", "n1"),
  Obj("Node", "", "n2"), Obj("SCC", "", "c1"), Obj("SCC", "", "c2")>>

Core == <<"">>
Rules == {
  {},
  {Rule(Core, {<<"secrets">>}, {"get"}, {})},
  {Rule(Core, {<<"secrets">>}, {"create"}, {}), Rule(Core, {<<"secrets">>}, {"list"}, {"x"})},
  {Rule(Core, {<<"secrets">>, <<"configmaps">>}, {"watch"}, {"x", "z"})},
  {Rule(<<"apps">>, {<<"secrets">>}, {"get"}, {})},
  {Rule(<<"apps", "">>, {<<"secrets">>, <<"deployments">>}, {"*"}, {})},
  {Rule(<<"", "apps">>, {<<"secrets">>, <<"deployments">>}, {"*"}, {})},
  {Rule(Core, {<<"*">>}, {"*"}, {})},
  {Rule(Core, {<<"*">>}, {"update"}, {})},
  {Rule(Core, {<<"*">>}, {"*"}, {"x", "p"})},
  {Rule(<<"*">>, {<<"*">>}, {"*"}, {})},
  {Rule(Core, {<<"*", "exec">>}, {"create"}, {})},
  {Rule(Core, {<<"pods", "exec">>, <<"pods", "ephemeralcontainers">>}, {"create", "update"}, {})},
  {Rule(Core, {<<"pods", "exec">>}, {"create"}, {"p"}), Rule(Core, {<<"pods">>}, {"patch"}, {"q"})},
  {Rule(Core, {<<"pods">>}, {"update"}, {})},
  {Rule(<<"apps">>, {<<"deployments">>}, {"patch"}, {"d"})},
  {Rule(Core, {<<"serviceaccounts", "token">>}, {"create"}, {})},
  {Rule(Core, {<<"serviceaccounts", "token">>}, {"create"}, {"s"})},
  {Rule(Core, {<<"serviceaccounts">>, <<"users">>}, {"impersonate"}, {})},
  {Rule(Core, {<<"serviceaccounts">>, <<"groups">>}, {"impersonate"}, {"s", "g"})},
  {Rule(Core, {<<"nodes", "proxy">>}, {"get"}, {})},
  {Rule(Core, {<<"nodes", "proxy">>}, {"create"}, {"n1"})},
  {Rule(<<"security.openshift.io">>, {<<"securitycontextconstraints">>}, {"use"}, {})},
  {Rule(<<"security.openshift.io">>, {<<"securitycontextconstraints">>}, {"use"}, {"c1"})},
  {Rule(<<"rbac.authorization.k8s.io">>, {<<"roles">>}, {"escalate"}, {}),
   Rule(<<"rbac.authorization.k8s.io">>, {<<"clusterroles">>}, {"bind"}, {})},
  {Rule(<<"rbac.authorization.k8s.io">>, {<<"rolebindings">>, <<"clusterrolebindings">>},
        {"create"}, {})}}

Subjects1 == {
  Subject("ServiceAccount", "", "s"), Subject("ServiceAccount", "a", "s"),
  Subject("ServiceAccount", "b", "s"), Subject("User", "", "u"), Subject("Group", "", "g")}

\* A role and its bindings: in a namespace, across namespaces, in the cluster,
\* to a role that is not there, and twice over.
Bound(rules, s) == {
  <<Role("Role", "a", rules), Binding("RoleBinding", "a", "k", "Role", "r", {s})>>,
  <<Role("ClusterRole", "", rules), Binding("RoleBinding", "a", "k", "ClusterRole", "r", {s})>>,
  <<Role("ClusterRole", "", rules),
    Binding("ClusterRoleBinding", "", "k", "ClusterRole", "r", {s})>>,
  <<Role("Role", "b", rules), Binding("RoleBinding", "a", "k", "Role", "r", {s})>>,
  <<Binding("RoleBinding", "a", "k", "Role", "r", {s}), Role("Role", "a", rules),
    Binding("RoleBinding", "a", "l", "Role", "r", {s, Subject("User", "", "u")}),
    Role("ClusterRole", "", rules),
    Binding("ClusterRoleBinding", "", "k", "ClusterRole", "r", {s})>>}

Typed(objects) == [i \in DOMAIN objects |-> [form |-> "typed", obj |-> objects[i]]]
Generic(kind, group, ns, name) ==
  [form |-> "generic", obj |-> [kind |-> kind, group |-> group, ns |-> ns, name |-> name]]

Grant == {[lines |-> Typed(Base \o b), undefined |-> FALSE, cluster |-> <<"c">>] :
            b \in UNION {Bound(rules, s) : rules \in Rules, s \in Subjects1}}

\* The lines of one resource: served under two groups, known under one of them
\* only, and a generic object whose id is a typed one's.
Policy(group) ==
  [kind |-> "NetworkPolicy", ns |-> "a", name |-> "np", group |-> group, selector |-> {}]
Duplicates == {
  [form |-> "typed", obj |-> Policy("v1")], [form |-> "typed", obj |-> Policy("v3")],
  [form |-> "typed", obj |-> Pod("a", "p", "n1")],
  Generic("Pod", "a", "", "p"), Generic("Widget", "example.org", "a", "w"),
  [form |-> "none", obj |-> Obj("List", "", "")], [form |-> "bad", obj |-> Obj("", "", "")]}

Repeated == {[lines |-> l, undefined |-> u, cluster |-> c] :
               l \in [1 .. 3 -> Duplicates], u \in BOOLEAN, c \in {<<>>, <<" ", "c", " ">>}}

\* A pod with everything the rules look at, beside one without labels.
Container(name, init, privileged, env) ==
  [name |-> name, init |-> init, privileged |-> privileged, user |-> "root",
   nonRoot |-> FALSE, env |-> env, hostPort |-> privileged,
   mounts |-> {[name |-> "v", readOnly |-> ~privileged]}]
Volume(name, type, ref, path) == [name |-> name, type |-> type, ref |-> ref, path |-> path]
Var(from, kind, ref) == [from |-> from, kind |-> kind, ref |-> ref]

Envs == {
  {}, {Var("literal", "", "MODE"), Var("envFrom", "Secret", "x")},
  {Var("envFrom", "Secret", "x"), Var("valueFrom", "Secret", "x"), Var("valueFrom", "ConfigMap", "x")}}

Web(ns, own, init, privileged, sa) ==
  [Pod(ns, "w", "n1") EXCEPT
     !.labels = {"web", "v1"}, !.sa = sa, !.scc = "c1", !.host = {"PID", "IPC", "Network"},
     !.caps = IF privileged THEN {} ELSE {"SYS_ADMIN", "NET_RAW"}, !.shareProc = TRUE,
     !.containers = {Container("main", FALSE, privileged, own),
                     Container("setup", TRUE, TRUE, init)},
     !.volumes = {Volume("v", "hostPath", "", <<"proc">>), Volume("u", "secret", "x", <<>>),
                  Volume("t", "hostPath", "", <<"run", "sock">>),
                  Volume("v", "hostPath", "", <<"var", "lib", "kubelet">>),
                  Volume("s", "persistentVolumeClaim", "pc", <<>>)}]

NetPolicy(ns, name, selector) ==
  [kind |-> "NetworkPolicy", ns |-> ns, name |-> name, selector |-> selector]
Policies == {
  <<>>, <<NetPolicy("b", "np", {})>>, <<NetPolicy("a", "np", {})>>,
  <<NetPolicy("a", "np", {"db"}), NetPolicy("a", "nq", {"web"})>>,
  <<NetPolicy("a", "np", {"web", "v2"})>>}

Service(type, selector) ==
  [kind |-> "Service", ns |-> "a", name |-> "svc", type |-> type, selector |-> selector]
Backend(ns, name) == [ns |-> ns, name |-> name]
Routing(type, selector) == <<
  Service(type, selector),
  [kind |-> "Ingress", ns |-> "a", name |-> "i", backends |-> {Backend("", "svc"), Backend("", "gone")}],
  [kind |-> "HTTPRoute", ns |-> "b", name |-> "h", backends |-> {Backend("a", "svc")},
   parents |-> {Backend("a", "gw")}],
  [kind |-> "Gateway", ns |-> "a", name |-> "gw"],
  [kind |-> "PersistentVolumeClaim", ns |-> "a", name |-> "pc"],
  [kind |-> "PersistentVolume", ns |-> "", name |-> "pv", claim |-> Backend("a", "pc")],
  Secret("a", "tok", "kubernetes.io/service-account-token"),
  Account("a", "default", {"tok"})>>

\* Every kind of controller in both namespaces, without labels or with the pod's.
Managing(kind, selector, env) == <<
  Controller(kind, "a", selector, {Container("main", FALSE, FALSE, env)}),
  Controller("DaemonSet", "a", {"v1"}, {Container("main", FALSE, FALSE, env)}),
  Controller("StatefulSet", "b", {"web"}, {Container("main", FALSE, FALSE, {Var("literal", "", "B")})})>>

Small == SelectSeq(Base, LAMBDA o : o.kind # "Deployment")
Exposed(objects) == [lines |-> Typed(Small \o objects), undefined |-> FALSE, cluster |-> <<"c">>]
Network == {
  Exposed(<<Web("a", {}, {}, p, "")>> \o np \o Routing(type, selector)) :
    np \in Policies, p \in BOOLEAN, type \in {"ClusterIP", "NodePort"},
    selector \in {{}, {"web"}, {"v1", "v2"}}}
Workload == {
  Exposed(<<Web("a", own, init, FALSE, "s")>> \o Managing(kind, selector, env)) :
    own \in Envs, init \in Envs, env \in Envs, selector \in {{}, {"web"}, {"db"}},
    kind \in {"Deployment", "Job"}}

MCRequest == Grant \cup Repeated \cup Network \cup Workload
=============================================================================
