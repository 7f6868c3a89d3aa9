---------------------------- MODULE GraphProofs ----------------------------
(***************************************************************************)
(* The graph of any collection: no rule draws an edge to something that is *)
(* not a fact, and every binding is on the edge it stands for.             *)
(***************************************************************************)
EXTENDS Graph, Recursion, SequenceTheorems, TLAPS

\* Edges of these kinds between facts.
Between(F, kinds, E) ==
  \A e \in E : /\ DOMAIN e = {"kind", "from", "to", "props"} /\ e.kind \in kinds
               /\ \E a, b \in F : e.from = EdgeID(a) /\ e.to = EdgeID(b)

-----------------------------------------------------------------------------
(* What the rules are built from. *)

LEMMA Created ==
  ASSUME NEW F, NEW who \in F, NEW targets \in SUBSET F, NEW kinds, NEW kind \in kinds
  PROVE  Between(F, kinds, CreateEdges(who, targets, kind))
<1> SUFFICES ASSUME NEW t \in targets,
                    NEW e, e = [kind |-> kind, from |-> EdgeID(who), to |-> EdgeID(t), props |-> {}]
             PROVE  /\ DOMAIN e = {"kind", "from", "to", "props"} /\ e.kind \in kinds
                    /\ \E a, b \in F : e.from = EdgeID(a) /\ e.to = EdgeID(b)
  BY DEF Between, CreateEdges
<1>1. /\ DOMAIN e = {"kind", "from", "to", "props"}
      /\ e.kind = kind /\ e.from = EdgeID(who) /\ e.to = EdgeID(t) /\ t \in F
  OBVIOUS
<1> QED  BY <1>1

LEMMA MarkedOne ==
  ASSUME NEW F, NEW from \in F, NEW to \in F, NEW kinds, NEW kind \in kinds, NEW props
  PROVE  Between(F, kinds, Marked(from, to, kind, props))
<1> SUFFICES ASSUME NEW e,
                    e = [kind |-> kind, from |-> EdgeID(from), to |-> EdgeID(to), props |-> props]
             PROVE  /\ DOMAIN e = {"kind", "from", "to", "props"} /\ e.kind \in kinds
                    /\ \E a, b \in F : e.from = EdgeID(a) /\ e.to = EdgeID(b)
  BY DEF Between, Marked
<1>1. /\ DOMAIN e = {"kind", "from", "to", "props"}
      /\ e.kind = kind /\ e.from = EdgeID(from) /\ e.to = EdgeID(to)
  OBVIOUS
<1> QED  BY <1>1

LEMMA OverAll ==
  ASSUME NEW F, NEW kinds, NEW S, \A E \in S : Between(F, kinds, E)
  PROVE  Between(F, kinds, UNION S)
BY DEF Between

LEMMA Together ==
  ASSUME NEW F, NEW kinds, NEW A, NEW B, Between(F, kinds, A), Between(F, kinds, B)
  PROVE  Between(F, kinds, A \cup B)
BY DEF Between

LEMMA Nothing == ASSUME NEW F, NEW kinds PROVE Between(F, kinds, {})
BY DEF Between

\* What a rule looks up is among the facts.
LEMMA LookedUp ==
  ASSUME NEW F, NEW k, NEW ns, NEW name, NEW a, NEW o
  PROVE  /\ OfKind(F, k) \subseteq F
         /\ InSpace(F, k, ns) \subseteq F
         /\ Aggregate(F, k, ns) \subseteq F
         /\ NamedIn(F, k, ns, name) \subseteq F
         /\ AllOrNamed(F, k, ns, a) \subseteq F
         /\ Members(F, k, ns, a) \subseteq F
         /\ Pods(F) \subseteq F
         /\ PodsOf(F, o) \subseteq F
         /\ NodeOf(F, o) \subseteq F
         /\ External(F) \subseteq F
BY DEF OfKind, InSpace, Aggregate, NamedIn, AllOrNamed, Members, Named, InReach, Pods, PodsOf,
       NodeOf, External

\* The identity and the role of a bond are facts.
LEMMA BondFacts ==
  ASSUME NEW F, NEW g \in Bonds(F)
  PROVE  g.who \in F /\ g.role \in F
<1>1. PICK b \in Bindings(F) :
        g \in {[binding |-> EdgeID(b), ns |-> b.ns, role |-> r, who |-> w] :
                 r \in BoundRole(F, b), w \in UNION {resolveSubject(F, b.ns, s) : s \in b.subjects}}
  BY DEF Bonds
<1>2. PICK r \in BoundRole(F, b), w \in UNION {resolveSubject(F, b.ns, s) : s \in b.subjects} :
        g = [binding |-> EdgeID(b), ns |-> b.ns, role |-> r, who |-> w]
  BY <1>1
<1>3. r \in F
  BY DEF BoundRole
<1>4. w \in F
  BY DEF resolveSubject
<1> QED  BY <1>2, <1>3, <1>4

LEMMA GrantFacts ==
  ASSUME NEW F, NEW g \in Grants(F)
  PROVE  g.who \in F
<1>1. PICK x \in Bonds(F) : g = [ns |-> x.ns, perms |-> PermsDisplay(x.role), who |-> x.who]
  BY DEF Grants
<1> QED  BY <1>1, BondFacts

-----------------------------------------------------------------------------
(* The rules of Rbac. *)

\* The kinds of these edges.
AccessKinds == {
  "ReadSecret", "ReadConfigMap", "PodExec", "PodPortForward", "PodAttach", "PodDebug", "ReadLogs",
  "SATokenRequest", "Impersonate", "NodeProxyRCE", "RBACEscalate", "RBACBind", "SCCUse",
  "RBACCreate", "WorkloadCreate", "WorkloadPatch"}

LEMMA SimpleAccessEdges ==
  ASSUME NEW F, NEW g, g.who \in F
  PROVE  Between(F, AccessKinds, simpleAccess(F, g))
<1> DEFINE Of(r) == CreateEdges(g.who,
             AllOrNamed(F, r.target, g.ns, accessForResource(g.perms, {r.key}, r.verbs)), r.edge)
<1>1. ASSUME NEW r \in SimpleAccess PROVE Between(F, AccessKinds, Of(r))
  <2>1. r.edge \in AccessKinds
    BY DEF SimpleAccess, AccessKinds
  <2>2. AllOrNamed(F, r.target, g.ns, accessForResource(g.perms, {r.key}, r.verbs)) \subseteq F
    BY LookedUp
  <2> QED  BY <2>1, <2>2, Created
<1>2. Between(F, AccessKinds, UNION {Of(r) : r \in SimpleAccess})
  <2> HIDE DEF Of
  <2> QED  BY <1>1, OverAll
<1> QED  BY <1>2 DEF simpleAccess

LEMMA ImpersonateEdges ==
  ASSUME NEW F, NEW g, g.who \in F
  PROVE  Between(F, AccessKinds, impersonate(F, g))
<1> DEFINE May(key) == accessForResource(g.perms, {<<key>>}, {"impersonate"})
<1>1. Members(F, "ServiceAccount", g.ns, May("serviceaccounts")) \subseteq F
  BY LookedUp
<1>2. AllOrNamed(F, "User", Unset, May("users")) \subseteq F
  BY LookedUp
<1>3. AllOrNamed(F, "Group", Unset, May("groups")) \subseteq F
  BY LookedUp
<1> QED  BY <1>1, <1>2, <1>3, Created DEF impersonate, AccessKinds

LEMMA NodeProxyEdges ==
  ASSUME NEW F, NEW g, g.who \in F
  PROVE  Between(F, AccessKinds, nodeProxy(F, g))
<1> DEFINE a == accessForResource(g.perms, {<<"nodes", "proxy">>}, {"get", "create", "proxy"})
           pods == IF a.all THEN Aggregate(F, "Pod", Unset)
                   ELSE {p \in OfKind(F, "Pod") : p.node # Unset /\ p.node \in a.names}
<1>1. pods \subseteq F
  BY LookedUp DEF OfKind
<1>2. AllOrNamed(F, "Node", Unset, a) \subseteq F
  BY LookedUp
<1>3. nodeProxy(F, g) = {} \/
      nodeProxy(F, g) = CreateEdges(g.who, pods \cup AllOrNamed(F, "Node", Unset, a), "NodeProxyRCE")
  BY DEF nodeProxy
<1> QED
  <2> HIDE DEF pods, a
  <2>1. pods \cup AllOrNamed(F, "Node", Unset, a) \subseteq F
    BY <1>1, <1>2
  <2> QED  BY <2>1, <1>3, Created, Nothing DEF AccessKinds

LEMMA EscalateBindEdges ==
  ASSUME NEW F, NEW g, g.who \in F
  PROVE  Between(F, AccessKinds, escalateBind(F, g))
<1> DEFINE Can(key, verb) == accessForResource(g.perms, RbacGroup(key), {verb}).all
           Edges(key, targets) ==
             IF Can(key, "escalate") THEN CreateEdges(g.who, targets, "RBACEscalate")
             ELSE IF Can(key, "bind") THEN CreateEdges(g.who, targets, "RBACBind") ELSE {}
           AllOrEach(k, ns) == IF Aggregate(F, k, ns) # {} THEN Aggregate(F, k, ns)
                               ELSE InSpace(F, k, ns)
           spaces == IF g.ns = Unset THEN Spaces(F) ELSE {g.ns}
           roles == UNION {AllOrEach("Role", ns) : ns \in spaces}
           cluster == IF g.ns = Unset THEN AllOrEach("ClusterRole", Unset) ELSE OfKind(F, "ClusterRole")
<1>1. ASSUME NEW key, NEW targets \in SUBSET F PROVE Between(F, AccessKinds, Edges(key, targets))
  BY Created, Nothing DEF AccessKinds
<1>2. \A k, ns : AllOrEach(k, ns) \subseteq F
  BY LookedUp
<1>3. roles \subseteq F
  <2> HIDE DEF AllOrEach, spaces
  <2> QED  BY <1>2
<1>4. cluster \subseteq F
  BY <1>2, LookedUp
<1>5. escalateBind(F, g) = Edges("roles", roles) \cup Edges("clusterroles", cluster)
  BY DEF escalateBind
<1> QED
  <2> HIDE DEF Edges, roles, cluster
  <2> QED  BY <1>1, <1>3, <1>4, <1>5, Together

LEMMA OtherGrantEdges ==
  ASSUME NEW F, NEW g, g.who \in F
  PROVE  /\ Between(F, AccessKinds, sccUsage(F, g))
         /\ Between(F, AccessKinds, rbacCreate(F, g))
         /\ Between(F, AccessKinds, workloadCreate(F, g))
<1>1. Between(F, AccessKinds, sccUsage(F, g))
  <2>1. OfKind(F, "SCC") \subseteq F
    BY LookedUp
  <2>2. \A a : Named(OfKind(F, "SCC"), a) \subseteq F
    BY <2>1 DEF Named
  <2> QED  BY <2>1, <2>2, Created, Nothing DEF sccUsage, AccessKinds
<1>2. Between(F, AccessKinds, rbacCreate(F, g))
  <2> DEFINE spaces == IF g.ns = Unset THEN Spaces(F) ELSE {g.ns}
             targets == Aggregate(F, "ClusterRole", Unset)
                        \cup UNION {Aggregate(F, "Role", ns) : ns \in spaces}
  <2>1. targets \subseteq F
    <3>1. Aggregate(F, "ClusterRole", Unset) \subseteq F /\ \A ns : Aggregate(F, "Role", ns) \subseteq F
      BY LookedUp
    <3> HIDE DEF spaces
    <3> QED  BY <3>1
  <2>2. rbacCreate(F, g) = {} \/ rbacCreate(F, g) = CreateEdges(g.who, targets, "RBACCreate")
    BY DEF rbacCreate
  <2> HIDE DEF targets
  <2> QED  BY <2>1, <2>2, Created, Nothing DEF AccessKinds
<1>3. Between(F, AccessKinds, workloadCreate(F, g))
  <2>1. workloadCreate(F, g) = {} \/
        workloadCreate(F, g) = CreateEdges(g.who, OfKind(F, "Node"), "WorkloadCreate")
    BY DEF workloadCreate
  <2> QED  BY <2>1, LookedUp, Created, Nothing DEF AccessKinds
<1> QED  BY <1>1, <1>2, <1>3

LEMMA WorkloadPatchEdges ==
  ASSUME NEW F, NEW g, g.who \in F
  PROVE  Between(F, AccessKinds, workloadPatch(F, g))
<1> DEFINE Of(k) == CreateEdges(g.who, Members(F, k, g.ns,
             accessForResource(g.perms, WorkloadKeys[k], {"patch", "update"})), "WorkloadPatch")
<1>1. \A k \in Workloads : Between(F, AccessKinds, Of(k))
  BY LookedUp, Created DEF AccessKinds
<1> HIDE DEF Of
<1>2. Between(F, AccessKinds, UNION {Of(k) : k \in Workloads})
  BY <1>1, OverAll
<1> QED  BY <1>2 DEF workloadPatch, Of

\* Every edge of a rule other than the first joins two facts.
AccessEdges(F, g) ==
  simpleAccess(F, g) \cup impersonate(F, g) \cup nodeProxy(F, g)
  \cup escalateBind(F, g) \cup sccUsage(F, g) \cup rbacCreate(F, g)
  \cup workloadCreate(F, g) \cup workloadPatch(F, g)

LEMMA AccessBetween ==
  ASSUME NEW F
  PROVE  Between(F, AccessKinds, UNION {AccessEdges(F, g) : g \in Grants(F)})
<1>1. ASSUME NEW g \in Grants(F) PROVE Between(F, AccessKinds, AccessEdges(F, g))
  <2>1. g.who \in F
    BY GrantFacts
  <2>2. /\ Between(F, AccessKinds, simpleAccess(F, g)) /\ Between(F, AccessKinds, impersonate(F, g))
        /\ Between(F, AccessKinds, nodeProxy(F, g)) /\ Between(F, AccessKinds, escalateBind(F, g))
        /\ Between(F, AccessKinds, sccUsage(F, g)) /\ Between(F, AccessKinds, rbacCreate(F, g))
        /\ Between(F, AccessKinds, workloadCreate(F, g)) /\ Between(F, AccessKinds, workloadPatch(F, g))
    BY <2>1, SimpleAccessEdges, ImpersonateEdges, NodeProxyEdges, EscalateBindEdges,
       OtherGrantEdges, WorkloadPatchEdges
  <2> QED  BY <2>2 DEF AccessEdges, Between
<1> QED  BY <1>1, OverAll

-----------------------------------------------------------------------------
(* The rules of Exposure. *)

LEMMA NetworkEdges ==
  ASSUME NEW F
  PROVE  /\ Between(F, {"RoutesTo"}, serviceRoutesTo(F))
         /\ Between(F, {"AppliesTo"}, networkPolicyEdges(F))
         /\ Between(F, {"RoutesTo"}, routeBackendsToServices(F))
         /\ Between(F, {"RoutesTo"}, gatewayRouteEdges(F))
         /\ Between(F, {"ExternalRoutesTo"}, externalRoutes(F))
<1>1. Between(F, {"RoutesTo"}, serviceRoutesTo(F))
  <2> DEFINE To(s, p) == Marked(s, p, "RoutesTo",
               IF podSelectedByNetworkPolicy(F, p) THEN {<<"networkPolicyRestricted">>} ELSE {})
             Of(s) == UNION {To(s, p) : p \in {x \in PodsOf(F, s) : LabelsMatchOnly(x.labels, s.selector)}}
  <2>1. ASSUME NEW s \in F, NEW p \in F PROVE Between(F, {"RoutesTo"}, To(s, p))
    BY MarkedOne
  <2> HIDE DEF To
  <2>2. ASSUME NEW s \in F PROVE Between(F, {"RoutesTo"}, Of(s))
    <3>1. PodsOf(F, s) \subseteq F
      BY LookedUp
    <3>2. \A E \in {To(s, p) : p \in {x \in PodsOf(F, s) : LabelsMatchOnly(x.labels, s.selector)}} :
            Between(F, {"RoutesTo"}, E)
      BY <2>1, <3>1
    <3> QED  BY <3>2, OverAll
  <2> HIDE DEF Of
  <2>3. \A E \in {Of(s) : s \in {x \in OfKind(F, "Service") : x.selector # {}}} : Between(F, {"RoutesTo"}, E)
    BY <2>2 DEF OfKind
  <2>4. Between(F, {"RoutesTo"}, UNION {Of(s) : s \in {x \in OfKind(F, "Service") : x.selector # {}}})
    BY <2>3, OverAll
  <2> QED  BY <2>4 DEF serviceRoutesTo, Of, To
<1>2. Between(F, {"AppliesTo"}, networkPolicyEdges(F))
  <2> DEFINE Of(np) == CreateEdges(np, IF np.selector = {} THEN Aggregate(F, "Pod", np.ns)
               ELSE {p \in PodsOf(F, np) : LabelsMatchOnly(p.labels, np.selector)}, "AppliesTo")
  <2>1. ASSUME NEW np \in F PROVE Between(F, {"AppliesTo"}, Of(np))
    BY LookedUp, Created
  <2> HIDE DEF Of
  <2>2. \A E \in {Of(np) : np \in OfKind(F, "NetworkPolicy")} : Between(F, {"AppliesTo"}, E)
    BY <2>1 DEF OfKind
  <2>3. Between(F, {"AppliesTo"}, UNION {Of(np) : np \in OfKind(F, "NetworkPolicy")})
    BY <2>2, OverAll
  <2> QED  BY <2>3 DEF networkPolicyEdges, Of
<1>3. Between(F, {"RoutesTo"}, routeBackendsToServices(F))
  <2> DEFINE services(r) == UNION {NamedIn(F, "Service", IF b.ns = Unset THEN r.ns ELSE b.ns, b.name) :
                              b \in {x \in r.backends : x.name # Unset}}
             Of(r) == CreateEdges(r, services(r), "RoutesTo")
             routes == UNION {OfKind(F, k) : k \in BackendKinds}
  <2>1. ASSUME NEW r \in F PROVE services(r) \subseteq F
    BY DEF NamedIn, InSpace
  <2>2. routes \subseteq F
    BY DEF OfKind
  <2> HIDE DEF services, routes
  <2>3. ASSUME NEW r \in F PROVE Between(F, {"RoutesTo"}, Of(r))
    BY <2>1, Created
  <2> HIDE DEF Of
  <2>4. \A E \in {Of(r) : r \in routes} : Between(F, {"RoutesTo"}, E)
    BY <2>2, <2>3
  <2>5. Between(F, {"RoutesTo"}, UNION {Of(r) : r \in routes})
    BY <2>4, OverAll
  <2> QED  BY <2>5 DEF routeBackendsToServices, Of, routes, services
<1>4. Between(F, {"RoutesTo"}, gatewayRouteEdges(F))
  <2> DEFINE routes == UNION {OfKind(F, k) : k \in RouteKinds}
             Of(g) == CreateEdges(g,
               {r \in routes : [ns |-> g.ns, name |-> g.name] \in r.parents}, "RoutesTo")
  <2>1. routes \subseteq F
    BY DEF OfKind
  <2> HIDE DEF routes
  <2>2. ASSUME NEW g \in F PROVE Between(F, {"RoutesTo"}, Of(g))
    BY <2>1, Created
  <2> HIDE DEF Of
  <2>3. \A E \in {Of(g) : g \in OfKind(F, "Gateway")} : Between(F, {"RoutesTo"}, E)
    BY <2>2 DEF OfKind
  <2>4. Between(F, {"RoutesTo"}, UNION {Of(g) : g \in OfKind(F, "Gateway")})
    BY <2>3, OverAll
  <2> QED  BY <2>4 DEF gatewayRouteEdges, Of, routes
<1>5. Between(F, {"ExternalRoutesTo"}, externalRoutes(F))
  <2> DEFINE open == {s \in OfKind(F, "Service") : s.type \in {"NodePort", "LoadBalancer"}}
             targets == open \cup UNION {OfKind(F, k) : k \in {"Ingress", "Route", "Gateway"}}
             Of(x) == CreateEdges(x, targets, "ExternalRoutesTo")
  <2>1. targets \subseteq F
    BY DEF OfKind
  <2> HIDE DEF targets
  <2>2. ASSUME NEW x \in F PROVE Between(F, {"ExternalRoutesTo"}, Of(x))
    BY <2>1, Created
  <2> HIDE DEF Of
  <2>3. \A E \in {Of(x) : x \in External(F)} : Between(F, {"ExternalRoutesTo"}, E)
    BY <2>2, LookedUp
  <2>4. Between(F, {"ExternalRoutesTo"}, UNION {Of(x) : x \in External(F)})
    BY <2>3, OverAll
  <2> QED  BY <2>4 DEF externalRoutes, Of, targets
<1> QED  BY <1>1, <1>2, <1>3, <1>4, <1>5

LEMMA PodEdges ==
  ASSUME NEW F
  PROVE  /\ Between(F, {"ManagedBy"}, controllerEdges(F))
         /\ \A p \in F : /\ Between(F, {"ScheduledOn"}, CreateEdges(p, NodeOf(F, p), "ScheduledOn"))
                        /\ Between(F, {"MountedBy"}, mountedBy(F, p))
                        /\ Between(F, {"EnvVars"}, envVars(F, p))
<1>1. Between(F, {"ManagedBy"}, controllerEdges(F))
  <2> DEFINE Of(o) == CreateEdges(o,
               {p \in PodsOf(F, o) : o.selector # {} /\ LabelsMatchOnly(p.labels, o.selector)},
               "ManagedBy")
  <2>1. ASSUME NEW o \in F PROVE Between(F, {"ManagedBy"}, Of(o))
    BY LookedUp, Created
  <2> HIDE DEF Of
  <2>2. \A E \in {Of(o) : o \in Controllers(F)} : Between(F, {"ManagedBy"}, E)
    BY <2>1 DEF Controllers, OfKind
  <2>3. Between(F, {"ManagedBy"}, UNION {Of(o) : o \in Controllers(F)})
    BY <2>2, OverAll
  <2> QED  BY <2>3 DEF controllerEdges, Of
<1>2. ASSUME NEW p \in F PROVE Between(F, {"MountedBy"}, mountedBy(F, p))
  <2> DEFINE mounted(k) == {x \in InSpace(F, k, p.ns) :
                              \E v \in p.volumes : v.type = VolumeKind[k] /\ v.ref = x.name}
             Of(k) == UNION {CreateEdges(o, {p}, "MountedBy") : o \in mounted(k)}
  <2>1. ASSUME NEW k PROVE Between(F, {"MountedBy"}, Of(k))
    <3>1. mounted(k) \subseteq F
      BY LookedUp
    <3> HIDE DEF mounted
    <3>2. \A E \in {CreateEdges(o, {p}, "MountedBy") : o \in mounted(k)} : Between(F, {"MountedBy"}, E)
      BY <3>1, Created
    <3> QED  BY <3>2, OverAll
  <2> HIDE DEF Of
  <2>2. \A E \in {Of(k) : k \in DOMAIN VolumeKind} : Between(F, {"MountedBy"}, E)
    BY <2>1
  <2>3. Between(F, {"MountedBy"}, UNION {Of(k) : k \in DOMAIN VolumeKind})
    BY <2>2, OverAll
  <2> QED  BY <2>3 DEF mountedBy, Of
<1>3. ASSUME NEW p \in F PROVE Between(F, {"EnvVars"}, envVars(F, p))
  <2> DEFINE sources == InSpace(F, "Secret", p.ns) \cup InSpace(F, "ConfigMap", p.ns)
             Of(o, way) == IF Users(p, o, way) = {} THEN {}
                           ELSE Marked(o, p, "EnvVars", {<<way, c>> : c \in Users(p, o, way)})
             each == {Of(o, way) : o \in sources, way \in {"envFrom", "valueFrom"}}
  <2>1. ASSUME NEW o \in F, NEW way PROVE Between(F, {"EnvVars"}, Of(o, way))
    BY MarkedOne, Nothing
  <2>2. sources \subseteq F
    BY LookedUp
  <2> HIDE DEF Of, sources
  <2>3. \A E \in each : Between(F, {"EnvVars"}, E)
    BY <2>1, <2>2
  <2>4. Between(F, {"EnvVars"}, UNION each)
    <3> HIDE DEF each
    <3> QED  BY <2>3, OverAll
  <2> QED  BY <2>4 DEF envVars, Of, sources
<1>4. ASSUME NEW p \in F PROVE Between(F, {"ScheduledOn"}, CreateEdges(p, NodeOf(F, p), "ScheduledOn"))
  BY LookedUp, Created
<1> QED  BY <1>1, <1>2, <1>3, <1>4

LEMMA MountEdges ==
  ASSUME NEW F
  PROVE  /\ Between(F, {"SAToken"}, secretEdges(F))
         /\ Between(F, {"mountSA"}, mountSA(F))
         /\ Between(F, {"BoundTo"}, pvBoundToPVC(F))
<1>1. Between(F, {"SAToken"}, secretEdges(F))
  <2> DEFINE Of(s) == CreateEdges(s,
               {a \in InSpace(F, "ServiceAccount", s.ns) : s.name \in a.secrets}, "SAToken")
             tokens == {x \in OfKind(F, "Secret") : x.type = "kubernetes.io/service-account-token"}
  <2>1. ASSUME NEW s \in F PROVE Between(F, {"SAToken"}, Of(s))
    BY LookedUp, Created
  <2>2. tokens \subseteq F
    BY LookedUp
  <2> HIDE DEF Of, tokens
  <2>3. \A E \in {Of(s) : s \in tokens} : Between(F, {"SAToken"}, E)
    BY <2>1, <2>2
  <2>4. Between(F, {"SAToken"}, UNION {Of(s) : s \in tokens})
    BY <2>3, OverAll
  <2> QED  BY <2>4 DEF secretEdges, Of, tokens
<1>2. Between(F, {"mountSA"}, mountSA(F))
  <2> DEFINE Of(p) == CreateEdges(p, NamedIn(F, "ServiceAccount", p.ns,
                                    IF p.sa = Unset THEN "default" ELSE p.sa), "mountSA")
             mounting == {x \in Pods(F) : podMountsServiceAccountToken(x)}
  <2>1. ASSUME NEW p \in F PROVE Between(F, {"mountSA"}, Of(p))
    BY LookedUp, Created
  <2>2. mounting \subseteq F
    BY LookedUp
  <2> HIDE DEF Of, mounting
  <2>3. \A E \in {Of(p) : p \in mounting} : Between(F, {"mountSA"}, E)
    BY <2>1, <2>2
  <2>4. Between(F, {"mountSA"}, UNION {Of(p) : p \in mounting})
    BY <2>3, OverAll
  <2> QED  BY <2>4 DEF mountSA, Of, mounting
<1>3. Between(F, {"BoundTo"}, pvBoundToPVC(F))
  <2> DEFINE Of(v) == CreateEdges(v, NamedIn(F, "PersistentVolumeClaim", v.claim.ns, v.claim.name),
                                  "BoundTo")
             bound == {x \in OfKind(F, "PersistentVolume") : x.claim.ns # Unset /\ x.claim.name # Unset}
  <2>1. ASSUME NEW v \in F PROVE Between(F, {"BoundTo"}, Of(v))
    BY LookedUp, Created
  <2>2. bound \subseteq F
    BY LookedUp
  <2> HIDE DEF Of, bound
  <2>3. \A E \in {Of(v) : v \in bound} : Between(F, {"BoundTo"}, E)
    BY <2>1, <2>2
  <2>4. Between(F, {"BoundTo"}, UNION {Of(v) : v \in bound})
    BY <2>3, OverAll
  <2> QED  BY <2>4 DEF pvBoundToPVC, Of, bound
<1> QED  BY <1>1, <1>2, <1>3

\* What a pod may do to its node.
HostKinds == {"hostMountSensitive", "mountedKubelet"} \cup capabilityDescriptions \cup {
  "CE_PRIV_MOUNT", "CE_NSENTER", "CE_SYS_PTRACE", "CE_UMH_CORE_PATTERN", "MOUNT_CONTAINER_SOCKET",
  "CE_VAR_LOG_SYMLINK", "CE_HOST_IPC", "CE_HOST_NETWORK", "CE_SHARE_PROC_NS"}

LEMMA HostEdges ==
  ASSUME NEW F
  PROVE  /\ Between(F, HostKinds, toNode(F))
         /\ Between(F, {"EnforcedSCC"}, sccEdges(F))
         /\ Between(F, {"HostPort", "ExternalHostPort"}, hostPorts(F))
<1>1. Between(F, HostKinds, toNode(F))
  <2> DEFINE kinds(p) == hostMount(p) \cup {e \in DOMAIN Escapes(p) : Escapes(p)[e]}
                         \cup {c \in capabilityDescriptions : HasCapability(p, c)}
             Of(p) == UNION {CreateEdges(p, NodeOf(F, p), k) : k \in kinds(p)}
  <2>1. ASSUME NEW p PROVE kinds(p) \subseteq HostKinds
    <3>1. hostMount(p) \subseteq HostKinds
      BY DEF hostMount, HostKinds
    <3>2. DOMAIN Escapes(p) \subseteq HostKinds
      BY DEF Escapes, HostKinds
    <3>3. capabilityDescriptions \subseteq HostKinds
      BY DEF HostKinds
    <3> QED  BY <3>1, <3>2, <3>3
  <2> HIDE DEF kinds
  <2>2. ASSUME NEW p \in F PROVE Between(F, HostKinds, Of(p))
    <3>1. NodeOf(F, p) \subseteq F
      BY LookedUp
    <3>2. ASSUME NEW k \in kinds(p) PROVE Between(F, HostKinds, CreateEdges(p, NodeOf(F, p), k))
      BY <2>1, <3>1, Created
    <3>3. \A E \in {CreateEdges(p, NodeOf(F, p), k) : k \in kinds(p)} : Between(F, HostKinds, E)
      BY <3>2
    <3> QED  BY <3>3, OverAll
  <2> HIDE DEF Of
  <2>3. \A E \in {Of(p) : p \in Pods(F)} : Between(F, HostKinds, E)
    BY <2>2, LookedUp
  <2>4. Between(F, HostKinds, UNION {Of(p) : p \in Pods(F)})
    BY <2>3, OverAll
  <2> QED  BY <2>4 DEF toNode, Of, kinds
<1>2. Between(F, {"EnforcedSCC"}, sccEdges(F))
  <2> DEFINE Of(s) == CreateEdges(s, {p \in Pods(F) : p.scc = s.name}, "EnforcedSCC")
  <2>1. ASSUME NEW s \in F PROVE Between(F, {"EnforcedSCC"}, Of(s))
    BY LookedUp, Created
  <2> HIDE DEF Of
  <2>2. \A E \in {Of(s) : s \in OfKind(F, "SCC")} : Between(F, {"EnforcedSCC"}, E)
    BY <2>1, LookedUp
  <2>3. Between(F, {"EnforcedSCC"}, UNION {Of(s) : s \in OfKind(F, "SCC")})
    BY <2>2, OverAll
  <2> QED  BY <2>3 DEF sccEdges, Of
<1>3. Between(F, {"HostPort", "ExternalHostPort"}, hostPorts(F))
  <2> DEFINE Outside(n) == UNION {CreateEdges(x, {n}, "ExternalHostPort") : x \in External(F)}
             At(n, p) == CreateEdges(n, {p}, "HostPort") \cup Outside(n)
             Of(p) == UNION {At(n, p) : n \in NodeOf(F, p)}
             open == {x \in Pods(F) : \E c \in Containers(x) : c.hostPort}
  <2>1. ASSUME NEW n \in F PROVE Between(F, {"HostPort", "ExternalHostPort"}, Outside(n))
    <3>1. ASSUME NEW x \in External(F) PROVE Between(F, {"HostPort", "ExternalHostPort"}, CreateEdges(x, {n}, "ExternalHostPort"))
      BY LookedUp, Created
    <3>2. \A E \in {CreateEdges(x, {n}, "ExternalHostPort") : x \in External(F)} : Between(F, {"HostPort", "ExternalHostPort"}, E)
      BY <3>1
    <3> QED  BY <3>2, OverAll
  <2> HIDE DEF Outside
  <2>2. ASSUME NEW n \in F, NEW p \in F PROVE Between(F, {"HostPort", "ExternalHostPort"}, At(n, p))
    <3>1. Between(F, {"HostPort", "ExternalHostPort"}, CreateEdges(n, {p}, "HostPort"))
      BY Created
    <3> QED  BY <3>1, <2>1, Together
  <2> HIDE DEF At
  <2>3. ASSUME NEW p \in F PROVE Between(F, {"HostPort", "ExternalHostPort"}, Of(p))
    <3>1. \A E \in {At(n, p) : n \in NodeOf(F, p)} : Between(F, {"HostPort", "ExternalHostPort"}, E)
      BY <2>2, LookedUp
    <3> QED  BY <3>1, OverAll
  <2>4. open \subseteq F
    BY LookedUp
  <2> HIDE DEF Of, open
  <2>5. \A E \in {Of(p) : p \in open} : Between(F, {"HostPort", "ExternalHostPort"}, E)
    BY <2>3, <2>4
  <2>6. Between(F, {"HostPort", "ExternalHostPort"}, UNION {Of(p) : p \in open})
    BY <2>5, OverAll
  <2> QED  BY <2>6 DEF hostPorts, Of, At, Outside, open
<1> QED  BY <1>1, <1>2, <1>3

LEMMA ContainsBetween ==
  ASSUME NEW F
  PROVE  Between(F, {"Contains"}, ContainsEdges(F))
<1> DEFINE Holds(k, ns, members) ==
             UNION {CreateEdges(a, members, "Contains") : a \in Aggregate(F, k, ns)}
           Of(k, ns) == Holds(k, ns, InSpace(F, k, ns)) \cup Holds(k, Unset, Aggregate(F, k, ns))
<1>1. ASSUME NEW k, NEW ns, NEW members \in SUBSET F PROVE Between(F, {"Contains"}, Holds(k, ns, members))
  <2>1. ASSUME NEW a \in Aggregate(F, k, ns) PROVE Between(F, {"Contains"}, CreateEdges(a, members, "Contains"))
    BY LookedUp, Created
  <2>2. \A E \in {CreateEdges(a, members, "Contains") : a \in Aggregate(F, k, ns)} : Between(F, {"Contains"}, E)
    BY <2>1
  <2> QED  BY <2>2, OverAll
<1> HIDE DEF Holds
<1>2. ASSUME NEW k, NEW ns PROVE Between(F, {"Contains"}, Of(k, ns))
  <2>1. InSpace(F, k, ns) \subseteq F /\ Aggregate(F, k, ns) \subseteq F
    BY LookedUp
  <2> QED  BY <1>1, <2>1, Together
<1> HIDE DEF Of
<1> DEFINE each == {Of(k, ns) : k \in SpacedKinds, ns \in Spaces(F)}
           roles == Holds("ClusterRole", Unset, OfKind(F, "ClusterRole"))
<1>3. \A E \in each : Between(F, {"Contains"}, E)
  BY <1>2
<1>4. Between(F, {"Contains"}, roles)
  BY <1>1, LookedUp
<1>5. ContainsEdges(F) = (UNION each) \cup roles
  BY DEF ContainsEdges, Of, Holds
<1> HIDE DEF each, roles
<1>6. Between(F, {"Contains"}, UNION each)
  BY <1>3, OverAll
<1> QED  BY <1>4, <1>5, <1>6 DEF Between

-----------------------------------------------------------------------------
(* All the rules together. *)

RuleEdges(F) == RbacEdges(F) \cup ExposureEdges(F) \cup ContainsEdges(F)

\* The rule an edge comes from, by its kind.
FromRule(F, e) ==
  /\ e.kind = "RoleBound" <=> e \in RoleBound(F)
  /\ e.kind = "RoutesTo" <=>
       e \in serviceRoutesTo(F) \cup routeBackendsToServices(F) \cup gatewayRouteEdges(F)
  /\ e.kind = "AppliesTo" <=> e \in networkPolicyEdges(F)
  /\ e.kind = "ManagedBy" <=> e \in controllerEdges(F)
  /\ e.kind = "EnvVars" <=> \E p \in Pods(F) : e \in envVars(F, p)
  /\ e.kind = "Contains" <=> e \in ContainsEdges(F)
  /\ e.kind \in AccessKinds <=> \E g \in Grants(F) : e \in AccessEdges(F, g)

\* No rule draws an edge to what is not a fact, and each draws its kinds.
LEMMA RulesJoinFacts ==
  ASSUME NEW F, NEW e \in RuleEdges(F)
  PROVE  /\ DOMAIN e = {"kind", "from", "to", "props"}
         /\ \E a, b \in F : e.from = EdgeID(a) /\ e.to = EdgeID(b)
         /\ FromRule(F, e)
<1> DEFINE access == UNION {AccessEdges(F, g) : g \in Grants(F)}
           scheduled == UNION {CreateEdges(p, NodeOf(F, p), "ScheduledOn") : p \in Pods(F)}
           mounted == UNION {mountedBy(F, p) : p \in Pods(F)}
           env == UNION {envVars(F, p) : p \in Pods(F)}
<1>1. Between(F, {"RoleBound"}, RoleBound(F))
  <2> SUFFICES ASSUME NEW x \in RoleBound(F)
               PROVE  /\ DOMAIN x = {"kind", "from", "to", "props"} /\ x.kind = "RoleBound"
                      /\ \E a, b \in F : x.from = EdgeID(a) /\ x.to = EdgeID(b)
    BY DEF Between
  <2>1. PICK g \in Bonds(F) : /\ DOMAIN x = {"kind", "from", "to", "props"} /\ x.kind = "RoleBound"
                              /\ x.from = EdgeID(g.who) /\ x.to = EdgeID(g.role)
    BY DEF RoleBound
  <2> QED  BY <2>1, BondFacts
<1>2. Between(F, AccessKinds, access)
  BY AccessBetween
<1>3. /\ Between(F, {"ScheduledOn"}, scheduled) /\ Between(F, {"MountedBy"}, mounted)
      /\ Between(F, {"EnvVars"}, env)
  <2>1. Pods(F) \subseteq F
    BY LookedUp
  <2>2. Between(F, {"ScheduledOn"}, scheduled)
    <3> DEFINE each == {CreateEdges(p, NodeOf(F, p), "ScheduledOn") : p \in Pods(F)}
    <3>1. \A E \in each : Between(F, {"ScheduledOn"}, E)
      BY <2>1, PodEdges
    <3> HIDE DEF each
    <3>2. Between(F, {"ScheduledOn"}, UNION each)
      BY <3>1, OverAll
    <3> QED  BY <3>2 DEF each
  <2>3. Between(F, {"MountedBy"}, mounted)
    BY <2>1, PodEdges DEF Between
  <2>4. Between(F, {"EnvVars"}, env)
    BY <2>1, PodEdges DEF Between
  <2> QED  BY <2>2, <2>3, <2>4
<1>4. podEdges(F) = scheduled \cup mounted \cup env
  BY DEF podEdges
<1>5. RuleEdges(F) = RoleBound(F) \cup access \cup ExposureEdges(F) \cup ContainsEdges(F)
  BY DEF RuleEdges, RbacEdges, AccessEdges
<1>6. /\ \A x : x \in env <=> \E p \in Pods(F) : x \in envVars(F, p)
      /\ \A x : x \in access <=> \E g \in Grants(F) : x \in AccessEdges(F, g)
  OBVIOUS
<1> HIDE DEF access, scheduled, mounted, env
<1> DEFINE network == serviceRoutesTo(F) \cup routeBackendsToServices(F) \cup gatewayRouteEdges(F)
           host == secretEdges(F) \cup mountSA(F) \cup pvBoundToPVC(F) \cup toNode(F)
                   \cup sccEdges(F) \cup hostPorts(F) \cup externalRoutes(F)
           hostKinds == HostKinds \cup {"SAToken", "mountSA", "BoundTo", "EnforcedSCC", "HostPort",
                          "ExternalHostPort", "ExternalRoutesTo"}
<1>7. Between(F, {"RoutesTo"}, network) /\ Between(F, hostKinds, host)
  BY NetworkEdges, MountEdges, HostEdges DEF Between
<1>8. RuleEdges(F) = RoleBound(F) \cup access \cup network \cup networkPolicyEdges(F) \cup host
        \cup controllerEdges(F) \cup scheduled \cup mounted \cup env \cup ContainsEdges(F)
  BY <1>4, <1>5 DEF ExposureEdges
<1>9. hostKinds \cap (AccessKinds \cup {"RoleBound", "RoutesTo", "AppliesTo", "ManagedBy", "EnvVars",
        "Contains"}) = {}
  BY DEF HostKinds, AccessKinds, capabilityDescriptions
<1>10. AccessKinds \cap {"RoleBound", "RoutesTo", "AppliesTo", "ManagedBy", "EnvVars", "Contains",
         "ScheduledOn", "MountedBy"} = {}
  BY DEF AccessKinds
<1> HIDE DEF network, host, hostKinds
<1>11. /\ Between(F, {"AppliesTo"}, networkPolicyEdges(F)) /\ Between(F, {"ManagedBy"}, controllerEdges(F))
       /\ Between(F, {"Contains"}, ContainsEdges(F))
  BY NetworkEdges, PodEdges, ContainsBetween
<1>12. /\ DOMAIN e = {"kind", "from", "to", "props"}
       /\ \E a, b \in F : e.from = EdgeID(a) /\ e.to = EdgeID(b)
  BY <1>1, <1>2, <1>3, <1>7, <1>8, <1>11 DEF Between
<1>13. /\ e.kind = "RoleBound" <=> e \in RoleBound(F)
       /\ e.kind = "RoutesTo" <=> e \in network
       /\ e.kind = "AppliesTo" <=> e \in networkPolicyEdges(F)
       /\ e.kind = "ManagedBy" <=> e \in controllerEdges(F)
       /\ e.kind = "EnvVars" <=> e \in env
       /\ e.kind = "Contains" <=> e \in ContainsEdges(F)
       /\ e.kind \in AccessKinds <=> e \in access
  BY <1>1, <1>2, <1>3, <1>7, <1>8, <1>9, <1>10, <1>11 DEF Between
<1> QED  BY <1>6, <1>12, <1>13 DEF FromRule, network

\* What deduplication leaves: edges of E, each that has no twin among them.
LEMMA Deduplicated ==
  ASSUME NEW E, NEW D \in DeduplicateEdges(E)
  PROVE  /\ D \subseteq E
         /\ \A e \in E : (\A f \in E : f.kind = e.kind /\ f.from = e.from /\ f.to = e.to => f = e)
                           => e \in D
<1> DEFINE Same(e) == {f \in E : f.kind = e.kind /\ f.from = e.from /\ f.to = e.to}
           twice == {e \in E : Same(e) # {e}}
<1>1. PICK K \in SUBSET twice : D = (E \ twice) \cup K
  BY DEF DeduplicateEdges
<1>2. \A e \in E : (\A f \in E : f.kind = e.kind /\ f.from = e.from /\ f.to = e.to => f = e)
                     => e \notin twice
  OBVIOUS
<1> QED  BY <1>1, <1>2

-----------------------------------------------------------------------------
(* The edge of a binding. *)

\* An identity or a role is one fact.
Distinct(F) ==
  \A a, b \in F : a.kind \in Identities \cup RoleKinds /\ EdgeID(a) = EdgeID(b) => a = b
ClusterWide(F) == \A o \in F : o.kind = "ClusterRole" => o.ns = Unset

LEMMA BondOf ==
  ASSUME NEW F, ClusterWide(F), NEW b \in Bindings(F), NEW w \in F, NEW r \in F,
         w.kind \in Identities, r.kind \in RoleKinds,
         Names(b, w), RefersTo(b, r), ~Foreign(b, w)
  PROVE  [binding |-> EdgeID(b), ns |-> b.ns, role |-> r, who |-> w] \in Bonds(F)
<1>1. r \in BoundRole(F, b)
  BY DEF RefersTo, BoundRole, ClusterWide, RoleKinds
<1>2. PICK s \in b.subjects :
        /\ s.kind = w.kind /\ s.name = w.name
        /\ w.kind = "ServiceAccount" => w.ns = (IF s.ns = Unset THEN b.ns ELSE s.ns)
  BY DEF Names
<1>3. w \in resolveSubject(F, b.ns, s)
  BY <1>2 DEF resolveSubject, Foreign
<1>4. w \in UNION {resolveSubject(F, b.ns, x) : x \in b.subjects}
  BY <1>3
<1> QED  BY <1>1, <1>4 DEF Bonds

LEMMA BindingShown ==
  ASSUME NEW F, ClusterWide(F), Distinct(F), NEW D \in DeduplicateEdges(RuleEdges(F)),
         NEW b \in Bindings(F), NEW w \in F, NEW r \in F,
         w.kind \in Identities, r.kind \in RoleKinds,
         Names(b, w), RefersTo(b, r), ~Foreign(b, w)
  PROVE  \E e \in D : /\ e.kind = "RoleBound" /\ EdgeID(b) \in e.props
                      /\ e.from = EdgeID(w) /\ e.to = EdgeID(r)
<1> DEFINE g == [binding |-> EdgeID(b), ns |-> b.ns, role |-> r, who |-> w]
           EdgeOf(x) == [kind |-> "RoleBound", from |-> EdgeID(x.who), to |-> EdgeID(x.role),
             props |-> {h.binding : h \in {y \in Bonds(F) : y.who = x.who /\ y.role = x.role}}]
           e == EdgeOf(g)
<1>1. g \in Bonds(F) /\ g.who = w /\ g.role = r /\ g.binding = EdgeID(b)
  BY BondOf
<1>2. RoleBound(F) = {EdgeOf(x) : x \in Bonds(F)}
  BY DEF RoleBound
<1>3. \A x : /\ EdgeOf(x).kind = "RoleBound"
             /\ EdgeOf(x).from = EdgeID(x.who) /\ EdgeOf(x).to = EdgeID(x.role)
  OBVIOUS
<1>4. EdgeID(b) \in e.props
  BY <1>1
<1>5. \A x \in Bonds(F) : x.who = w /\ x.role = r => EdgeOf(x) = e
  BY <1>1
<1> HIDE DEF EdgeOf, g
<1>6. e \in RuleEdges(F)
  BY <1>1, <1>2 DEF RuleEdges, RbacEdges
<1>7. ASSUME NEW f \in RuleEdges(F), f.kind = e.kind, f.from = e.from, f.to = e.to
      PROVE  f = e
  <2>1. f \in RoleBound(F)
    BY <1>3, <1>7, RulesJoinFacts DEF FromRule
  <2>2. PICK x \in Bonds(F) : f = EdgeOf(x)
    BY <2>1, <1>2
  <2>3. EdgeID(x.who) = EdgeID(w) /\ EdgeID(x.role) = EdgeID(r)
    BY <1>1, <1>3, <1>7, <2>2
  <2>4. x.who = w /\ x.role = r
    BY <2>3, BondFacts DEF Distinct
  <2> QED  BY <2>2, <2>4, <1>5
<1>8. e \in D
  BY <1>6, <1>7, Deduplicated
<1> QED  BY <1>8, <1>4, <1>3, <1>1

-----------------------------------------------------------------------------
(* Sequences of nodes. *)

LEMMA OwnRange ==
  ASSUME NEW S, NEW s \in Seq(S)
  PROVE  /\ s \in Seq(ToSet(s))
         /\ Len(s) \in Nat /\ DOMAIN s = 1 .. Len(s)
         /\ ToSet(s) = {s[i] : i \in 1 .. Len(s)}
<1>1. ToSet(s) = {s[i] : i \in 1 .. Len(s)} /\ DOMAIN s = 1 .. Len(s) /\ Len(s) \in Nat
  BY DEF ToSet
<1> QED  BY <1>1, SeqDef, LenProperties

LEMMA FunctionSeq ==
  ASSUME NEW S, NEW s \in Seq(S), NEW f, f = [i \in DOMAIN f |-> f[i]], DOMAIN f = DOMAIN s
  PROVE  f \in Seq(ToSet(f)) /\ Len(f) = Len(s)
<1>1. DOMAIN f = 1 .. Len(s) /\ Len(s) \in Nat
  BY LenProperties
<1>2. f \in [1 .. Len(s) -> ToSet(f)]
  BY <1>1 DEF ToSet
<1>3. f \in Seq(ToSet(f))
  BY <1>1, <1>2, SeqDef
<1> QED  BY <1>1, <1>3, LenProperties

\* u is s followed by t.
Joins(u, s, t) ==
  /\ u \in Seq(ToSet(u))
  /\ Len(s) \in Nat /\ Len(t) \in Nat /\ Len(u) = Len(s) + Len(t)
  /\ \A i \in 1 .. Len(s) : u[i] = s[i]
  /\ \A i \in 1 .. Len(t) : u[Len(s) + i] = t[i]
  /\ \A i \in 1 .. Len(u) :
       i \notin 1 .. Len(s) => i - Len(s) \in 1 .. Len(t) /\ u[i] = t[i - Len(s)]

LEMMA Concatenated ==
  ASSUME NEW S, NEW T, NEW s \in Seq(S), NEW t \in Seq(T), NEW u, u = s \o t
  PROVE  Joins(u, s, t)
<1> DEFINE U == S \cup T
<1>1. s \in Seq(U) /\ t \in Seq(U) /\ Len(s) \in Nat /\ Len(t) \in Nat
  OBVIOUS
<1>2. /\ u \in Seq(U) /\ Len(u) = Len(s) + Len(t)
      /\ \A i \in 1 .. Len(s) + Len(t) : u[i] = IF i <= Len(s) THEN s[i] ELSE t[i - Len(s)]
  <2> HIDE DEF U
  <2> QED  BY <1>1, ConcatProperties
<1>3. u \in Seq(ToSet(u))
  BY <1>2, OwnRange
<1>4. \A i \in 1 .. Len(s) : u[i] = s[i]
  BY <1>1, <1>2
<1>5. ASSUME NEW i \in 1 .. Len(t) PROVE u[Len(s) + i] = t[i]
  <2>1. Len(s) + i \in 1 .. Len(s) + Len(t) /\ ~(Len(s) + i <= Len(s)) /\ (Len(s) + i) - Len(s) = i
    BY <1>1
  <2> QED  BY <1>2, <2>1
<1>6. ASSUME NEW i \in 1 .. (Len(s) + Len(t)), i \notin 1 .. Len(s)
      PROVE  i - Len(s) \in 1 .. Len(t) /\ u[i] = t[i - Len(s)]
  BY <1>1, <1>2, <1>6
<1> QED  BY <1>1, <1>2, <1>3, <1>4, <1>5, <1>6 DEF Joins

-----------------------------------------------------------------------------
(* The order in which objects are appended. *)

\* Every object once.
LEMMA ListedOnce ==
  ASSUME NEW S, IsFiniteSet(S)
  PROVE  /\ Listed(S) \in Seq(S)
         /\ \A x \in S : \E i \in DOMAIN Listed(S) : Listed(S)[i] = x
         /\ \A i, j \in DOMAIN Listed(S) : Listed(S)[i] = Listed(S)[j] => i = j
<1> DEFINE one(s) == CHOOSE x \in s : TRUE
           pick == [s \in SUBSET S |-> one(s)]
           step == [p \in S \X Seq(S) |-> Append(p[2], p[1])]
           Is(g) == g = [s \in SUBSET S |-> IF s = {} THEN <<>> ELSE Append(g[s \ {one(s)}], one(s))]
           T == Seq(S)
<1>1. Picks(pick, S)
  BY DEF Picks
<1>2. \A x \in S, t \in T : step[<<x, t>>] = Append(t, x) /\ step[<<x, t>>] \in T
  OBVIOUS
<1>3. <<>> \in T
  OBVIOUS
<1>4. \A s \in SUBSET S : pick[s] = one(s)
  OBVIOUS
<1> HIDE DEF pick, step, one
<1>5. PICK g \in [SUBSET S -> T] : Gathers(g, S, <<>>, step, pick)
  <2> HIDE DEF T
  <2> QED  BY <1>1, <1>2, <1>3, RecursionOnSubsets
<1>6. ASSUME NEW s \in SUBSET S, s # {}
      PROVE  /\ g[s] = Append(g[s \ {one(s)}], one(s))
             /\ one(s) \in s /\ s \ {one(s)} \in SUBSET S
  <2>1. pick[s] = one(s) /\ one(s) \in s /\ s \ {one(s)} \in SUBSET S
    BY <1>1, <1>6, <1>4 DEF Picks
  <2>2. g[s] = step[<<one(s), g[s \ {one(s)}]>>]
    BY <1>5, <1>6, <2>1 DEF Gathers
  <2>3. g[s \ {one(s)}] \in T /\ one(s) \in S
    BY <1>5, <2>1
  <2> QED  BY <1>2, <2>1, <2>2, <2>3
<1>7. Is(g)
  BY <1>5, <1>6 DEF Gathers
<1>8. ASSUME NEW h, Is(h) PROVE h = g
  <2> DEFINE U == {s \in SUBSET S : h[s] = g[s]}
  <2>1. {} \in U
    BY <1>8, <1>5 DEF Gathers
  <2>2. ASSUME NEW s \in SUBSET S, s # {} /\ s \ {pick[s]} \in U PROVE s \in U
    <3>1. h[s] = Append(h[s \ {one(s)}], one(s))
      BY <1>8, <2>2
    <3> QED  BY <3>1, <2>2, <1>6, <1>4
  <2> HIDE DEF U, Is
  <2>3. SUBSET S \subseteq U
    BY <1>1, <2>1, <2>2, InductionOnSubsets
  <2> QED  BY <2>3, <1>5, <1>8 DEF U, Is
<1>9. Listed(S) = g[S]
  <2>1. Listed(S) = (CHOOSE h : Is(h))[S]
    BY DEF Listed, FoldSet, MapThenFoldSet, one
  <2> HIDE DEF Is
  <2> QED  BY <1>7, <1>8, <2>1
<1> DEFINE V == {s \in SUBSET S :
             /\ \A i \in DOMAIN g[s] : g[s][i] \in s
             /\ \A x \in s : \E i \in DOMAIN g[s] : g[s][i] = x
             /\ \A i, j \in DOMAIN g[s] : g[s][i] = g[s][j] => i = j}
<1>10. {} \in V
  <2>1. g[{}] = <<>> /\ DOMAIN <<>> = {}
    BY <1>5 DEF Gathers
  <2> QED  BY <2>1
<1>11. ASSUME NEW s \in SUBSET S, s # {} /\ s \ {pick[s]} \in V PROVE s \in V
  <2> DEFINE x == one(s)
             t == s \ {x}
             q == g[t]
             n == Len(q)
  <2>1. /\ x \in s /\ g[s] = Append(q, x) /\ q \in Seq(S) /\ x \in S
        /\ t \in V
    BY <1>11, <1>6, <1>5, <1>4
  <2> HIDE DEF x, q
  <2>2. /\ n \in Nat /\ DOMAIN q = 1 .. n /\ DOMAIN g[s] = 1 .. (n + 1)
        /\ g[s][n + 1] = x /\ \A i \in 1 .. n : g[s][i] = q[i]
    BY <2>1, AppendProperties, LenProperties
  <2>3. /\ \A i \in 1 .. n : q[i] \in s /\ q[i] # x
        /\ \A y \in s \ {x} : \E i \in 1 .. n : q[i] = y
        /\ \A i, j \in 1 .. n : q[i] = q[j] => i = j
    BY <2>1, <2>2 DEF q
  <2> HIDE DEF n
  <2>4. \A i \in 1 .. (n + 1) : i = n + 1 \/ i \in 1 .. n
    BY <2>2
  <2>5. n + 1 \in 1 .. (n + 1) /\ 1 .. n \subseteq 1 .. (n + 1)
    BY <2>2
  <2>6. \A i \in 1 .. (n + 1) : g[s][i] \in s
    BY <2>1, <2>2, <2>3, <2>4
  <2>7. \A y \in s : \E i \in 1 .. (n + 1) : g[s][i] = y
    BY <2>1, <2>2, <2>3, <2>5
  <2>8. \A i, j \in 1 .. (n + 1) : g[s][i] = g[s][j] => i = j
    BY <2>2, <2>3, <2>4
  <2> QED  BY <2>2, <2>6, <2>7, <2>8
<1> HIDE DEF V
<1>12. SUBSET S \subseteq V
  BY <1>1, <1>10, <1>11, InductionOnSubsets
<1>13. S \in V /\ g[S] \in Seq(S)
  BY <1>12, <1>5
<1> QED  BY <1>9, <1>13 DEF V

-----------------------------------------------------------------------------
(* Ids. *)

\* The parts of an id, with and without a namespace.
Identifies(id, s, ns, name) ==
  /\ id \in Seq(ToSet(id))
  /\ Len(s) \in Nat /\ Len(id) = IF ns = Unset THEN Len(s) + 1 ELSE Len(s) + 2
  /\ \A i \in 1 .. Len(s) : id[i] = s[i]
  /\ id[Len(id)] = name
  /\ ns # Unset => id[Len(s) + 1] = ns

LEMMA BuiltID ==
  ASSUME NEW S, NEW s \in Seq(S), NEW ns, NEW name, NEW id, id = BuildID(s, ns, name)
  PROVE  Identifies(id, s, ns, name)
<1>0. Len(s) \in Nat
  OBVIOUS
<1>1. CASE ns = Unset
  <2> DEFINE t == <<name>>
             T == {name}
  <2>1. id = s \o t
    BY <1>1 DEF BuildID
  <2>2. t \in Seq(T) /\ Len(t) = 1 /\ t[1] = name /\ 1 \in 1 .. 1
    OBVIOUS
  <2> HIDE DEF t, T
  <2>3. Joins(id, s, t)
    BY <2>1, <2>2, Concatenated
  <2> QED  BY <1>0, <1>1, <2>2, <2>3 DEF Joins, Identifies
<1>2. CASE ns # Unset
  <2> DEFINE t == <<ns, name>>
             T == {ns, name}
  <2>1. id = s \o t
    BY <1>2 DEF BuildID
  <2>2. /\ t \in Seq(T) /\ Len(t) = 2 /\ t[1] = ns /\ t[2] = name
        /\ 1 \in 1 .. 2 /\ 2 \in 1 .. 2
    OBVIOUS
  <2> HIDE DEF t, T
  <2>3. Joins(id, s, t)
    BY <2>1, <2>2, Concatenated
  <2> QED  BY <1>0, <1>2, <2>2, <2>3 DEF Joins, Identifies
<1> QED  BY <1>1, <1>2

LEMMA IDParts ==
  ASSUME NEW o
  PROVE  /\ EdgeID(o) \in Seq(ToSet(EdgeID(o)))
         /\ EdgeID(o)[1] = o.kind
         /\ Len(EdgeID(o)) = IF o.ns = Unset THEN 2 ELSE 3
         /\ EdgeID(o)[IF o.ns = Unset THEN 2 ELSE 3] = o.name
         /\ o.ns # Unset => EdgeID(o)[2] = o.ns
<1> DEFINE kind == o.kind
           ns == o.ns
           name == o.name
           id == EdgeID(o)
           s == <<kind>>
           S == {kind}
<1>1. id = BuildID(s, ns, name)
  BY DEF EdgeID
<1>2. s \in Seq(S) /\ Len(s) = 1 /\ s[1] = kind /\ 1 \in 1 .. 1
  OBVIOUS
<1> HIDE DEF kind, ns, name, id, s, S
<1>3. Identifies(id, s, ns, name)
  BY <1>1, <1>2, BuiltID
<1>4. id \in Seq(ToSet(id)) /\ id[1] = kind
  BY <1>2, <1>3 DEF Identifies
<1>5. /\ Len(id) = IF ns = Unset THEN 2 ELSE 3
      /\ id[IF ns = Unset THEN 2 ELSE 3] = name
      /\ ns # Unset => id[2] = ns
  BY <1>2, <1>3 DEF Identifies
<1> QED  BY <1>4, <1>5 DEF kind, ns, name, id

\* An id says the kind, the namespace and the name of an object.
LEMMA SameID ==
  ASSUME NEW a, NEW b, EdgeID(a) = EdgeID(b)
  PROVE  a.kind = b.kind /\ a.ns = b.ns /\ a.name = b.name
<1>1. a.kind = b.kind
  BY IDParts
<1>2. a.ns = Unset <=> b.ns = Unset
  <2>1. Len(EdgeID(a)) = (IF a.ns = Unset THEN 2 ELSE 3) /\ Len(EdgeID(b)) = (IF b.ns = Unset THEN 2 ELSE 3)
    BY IDParts
  <2> QED  BY <2>1
<1>3. a.ns = b.ns /\ a.name = b.name
  BY <1>2, IDParts
<1> QED  BY <1>1, <1>3

\* The id of a line is that of an object, or says that it is a custom resource.
LEMMA LineIDs ==
  ASSUME NEW l, l.form \in {"typed", "generic"}
  PROVE  /\ LineID(l) \in Seq(ToSet(LineID(l)))
         /\ LineID(l)[1] = l.obj.kind
         /\ l.form = "generic" /\ l.obj.group # Unset => Len(LineID(l)) >= 3
<1> DEFINE o == l.obj
<1>1. CASE l.form = "typed"
  BY <1>1, IDParts DEF LineID
<1>2. CASE l.form = "generic" /\ o.group = Unset
  <2>1. LineID(l) = EdgeID(o)
    BY <1>2 DEF LineID, EdgeID
  <2> HIDE DEF o
  <2>2. EdgeID(o) \in Seq(ToSet(EdgeID(o))) /\ EdgeID(o)[1] = o.kind
    BY IDParts
  <2> QED  BY <1>2, <2>1, <2>2 DEF o
<1>3. CASE l.form = "generic" /\ o.group # Unset
  <2> DEFINE s == <<o.kind, o.group>>
             S == {o.kind, o.group}
             ns == o.ns
             name == o.name
             id == LineID(l)
  <2>1. id = BuildID(s, ns, name)
    BY <1>3 DEF LineID
  <2>2. s \in Seq(S) /\ Len(s) = 2 /\ s[1] = o.kind /\ 1 \in 1 .. 2
    OBVIOUS
  <2> HIDE DEF s, ns, name, S, o, id
  <2>3. Identifies(id, s, ns, name)
    BY <2>1, <2>2, BuiltID
  <2>4. id \in Seq(ToSet(id)) /\ id[1] = o.kind /\ Len(id) >= 3
    BY <2>2, <2>3 DEF Identifies
  <2> QED  BY <2>4 DEF o, id
<1> QED  BY <1>1, <1>2, <1>3

\* No line has the id of an object that only the parser makes.
MadeKinds == AggregateKinds \cup NamedKinds

LEMMA MadeIDs ==
  ASSUME NEW q \in Request, NEW l \in ToSet(q.lines), l.form \in {"typed", "generic"},
         NEW o, o.kind \in MadeKinds, o.kind \in NamedKinds => o.ns = Unset
  PROVE  LineID(l) # EdgeID(o)
<1> SUFFICES ASSUME LineID(l) = EdgeID(o) PROVE FALSE
  OBVIOUS
<1>1. l.obj.kind = o.kind
  <2>1. LineID(l)[1] = l.obj.kind
    BY LineIDs
  <2> QED  BY <2>1, IDParts
<1>2. /\ l.form = "typed" => Served(l.obj)
      /\ l.form = "generic" => /\ l.obj.kind \notin AggregateKinds
                               /\ l.obj.kind \in NamedKinds => l.obj.group # Unset
  BY RequestAssumption
<1>3. l.form = "generic" /\ o.kind \in NamedKinds /\ l.obj.group # Unset
  BY <1>1, <1>2 DEF MadeKinds, Served
<1>4. Len(LineID(l)) >= 3
  BY <1>3, LineIDs
<1>5. Len(EdgeID(o)) = 2
  BY <1>3, IDParts
<1> QED  BY <1>4, <1>5

-----------------------------------------------------------------------------
(* What is known of the nodes and the facts at every stage. *)

Past == {request.lines[i] : i \in 1 .. (Len(request.lines) - Len(lines))}

\* What is left to read is the end of the lines.
Unread ==
  /\ lines \in Seq(ToSet(request.lines))
  /\ Len(lines) <= Len(request.lines)
  /\ \A i \in 1 .. Len(lines) : lines[i] = request.lines[Len(request.lines) - Len(lines) + i]
  /\ ReadDone => lines = <<>>

\* An id is one node's.
Rows ==
  /\ nodeList \in Seq(ToSet(nodeList))
  /\ \A i \in DOMAIN nodeList : DOMAIN nodeList[i] = {"id", "generic", "permissions", "env"}
  /\ \A i, j \in DOMAIN nodeList : nodeList[i].id = nodeList[j].id => i = j

\* A fact is the object of a line, or one the parser makes once it has come to that,
\* and an id is one fact's.
Early == {"reading", "failed", "injected"}

Origins ==
  /\ IsFiniteSet(facts)
  /\ \A a, b \in facts : EdgeID(a) = EdgeID(b) => a = b
  /\ \A f \in facts :
       /\ f.kind \notin MadeKinds => \E l \in Past : l.form = "typed" /\ l.obj = f
       /\ f.kind \in AggregateKinds => stage \notin Early
       /\ f.kind \in {"User", "Group"} => stage \notin Early \cup {"aggregated"}
       /\ f.kind = "External" => stage \in {"parsed", "built", "done"}
       /\ f.kind \in NamedKinds => f.ns = Unset

\* A line that was read has its node and, if one of that id was typed, its fact, and
\* nothing else has one but the facts.
TypedAs(id) == {l \in Past : l.form = "typed" /\ LineID(l) = id}

Represented ==
  stage # "done" =>
    /\ \A l \in Past : IsBuilt(l) =>
         \E i \in SeenAt(LineID(l)) : nodeList[i].generic <=> TypedAs(LineID(l)) = {}
    /\ \A l \in Past : l.form = "typed" => \E k \in TypedAs(LineID(l)) : k.obj \in facts
    /\ \A f \in facts : \E i \in SeenAt(EdgeID(f)) : ~nodeList[i].generic
    /\ \A i \in DOMAIN nodeList :
         \/ \E l \in Past : IsBuilt(l) /\ nodeList[i].id = LineID(l)
         \/ \E f \in facts : nodeList[i].id = EdgeID(f)

\* Permissions and environments are those of the facts.
Enriched ==
  /\ stage \in {"enriched", "parsed", "built"} =>
       \A w \in Who : \A i \in SeenAt(EdgeID(w)) :
         nodeList[i].permissions = PermissionsOf(EdgeID(w))
  /\ ReadDone /\ stage # "done" =>
       \A p \in Pods(facts) : \A i \in SeenAt(EdgeID(p)) : nodeList[i].env = podEnv(facts, p)

\* Every kind has its aggregate in the cluster and where there is one of it.
Aggregated ==
  stage \notin Early =>
    /\ \A k \in ClusterKinds : AggregateObject(k, Unset) \in facts
    /\ \A k \in SpacedKinds, o \in facts :
         o.kind = k => AggregateObject(k, o.ns) \in facts

Drawn == stage = "built" => edges \in DeduplicateEdges(RuleEdges(facts))

IndInv ==
  /\ request \in Request
  /\ Unread /\ Rows /\ Origins /\ Represented /\ Enriched /\ Aggregated /\ Drawn
  /\ EdgesJoinNodes

LEMMA InitInv == Init => IndInv
<1> SUFFICES ASSUME Init PROVE IndInv
  OBVIOUS
<1>1. /\ facts = {} /\ nodeList = <<>> /\ stage = "reading" /\ request \in Request
      /\ lines = request.lines
  BY DEF Init
<1>2. lines \in Seq(ToSet(request.lines)) /\ Len(lines) \in Nat
  BY <1>1, RequestAssumption, LenProperties
<1>3. Len(request.lines) - Len(lines) = 0 /\ 1 .. 0 = {}
  BY <1>1, <1>2
<1>4. Past = {}
  BY <1>3 DEF Past
<1>5. Unread
  BY <1>1, <1>2, <1>3 DEF Unread, ReadDone
<1>6. DOMAIN nodeList = {}
  BY <1>1
<1>7. Rows
  <2>1. nodeList \in Seq(ToSet(nodeList))
    <3> DEFINE S == ToSet(nodeList)
    <3> HIDE DEF S
    <3>1. nodeList \in Seq(S)
      BY <1>1, EmptySeq
    <3> QED  BY <3>1 DEF S
  <2> QED  BY <1>6, <2>1 DEF Rows
<1>8. Origins
  BY <1>1, FS_EmptySet DEF Origins
<1>9. Represented
  BY <1>1, <1>4, <1>6 DEF Represented
<1>10. Enriched /\ Aggregated /\ Drawn /\ EdgesJoinNodes
  BY <1>1 DEF Enriched, Aggregated, Early, Drawn, EdgesJoinNodes, ReadDone
<1> QED  BY <1>1, <1>5, <1>7, <1>8, <1>9, <1>10 DEF IndInv

\* Reading a line makes it one of those that were read.
LEMMA Advance ==
  ASSUME IndInv, Reading, Consume
  PROVE  /\ Unread'
         /\ Past' = Past \cup {Line}
         /\ Line \in ToSet(request.lines)
         /\ request' = request /\ stage = "reading" /\ stage' = "reading"
<1>1. /\ request' = request /\ stage = "reading" /\ stage' = "reading"
      /\ lines' = Tail(lines) /\ lines # <<>>
  BY DEF Reading, Consume
<1> DEFINE S == ToSet(request.lines)
           n == Len(request.lines)
           m == Len(lines)
<1>2. /\ lines \in Seq(S) /\ m <= n
      /\ \A i \in 1 .. m : lines[i] = request.lines[n - m + i]
  BY DEF IndInv, Unread
<1>3. request.lines \in Seq(S) /\ n \in Nat
  BY RequestAssumption, LenProperties DEF IndInv
<1> HIDE DEF S
<1>4. m \in Nat /\ m # 0
  BY <1>1, <1>2, EmptySeq, LenProperties
<1>5. /\ Head(lines) \in S /\ Tail(lines) \in Seq(S) /\ Len(Tail(lines)) = m - 1
      /\ \A i \in 1 .. m - 1 : Tail(lines)[i] = lines[i + 1]
      /\ Head(lines) = lines[1]
  BY <1>1, <1>2, HeadTailProperties
<1> DEFINE k == Len(lines')
<1>6. k = m - 1 /\ Line = lines[1]
  BY <1>1, <1>5 DEF Line
<1>7. Line = request.lines[n - m + 1]
  <2>1. 1 \in 1 .. m
    BY <1>4
  <2> QED  BY <1>2, <1>6, <2>1
<1>8. \A i \in 1 .. k : lines'[i] = request.lines[n - k + i]
  <2> SUFFICES ASSUME NEW i \in 1 .. k PROVE lines'[i] = request.lines[n - k + i]
    OBVIOUS
  <2>1. i + 1 \in 1 .. m /\ i \in 1 .. m - 1 /\ n - m + (i + 1) = n - k + i
    <3> HIDE DEF n, m, k
    <3> QED  BY <1>3, <1>4, <1>6
  <2>2. lines'[i] = lines[i + 1]
    BY <1>1, <1>5, <2>1
  <2> QED  BY <1>2, <2>1, <2>2
<1>9. Unread'
  <2>1. lines' \in Seq(ToSet(request'.lines))
    BY <1>1, <1>5 DEF S
  <2>2. Len(lines') <= Len(request'.lines)
    BY <1>1, <1>2, <1>3, <1>4, <1>6
  <2>3. \A i \in 1 .. Len(lines') :
          lines'[i] = request'.lines[Len(request'.lines) - Len(lines') + i]
    BY <1>1, <1>8
  <2>4. ~ReadDone'
    BY <1>1 DEF ReadDone
  <2> HIDE DEF n, m, k
  <2> QED  BY <2>1, <2>2, <2>3, <2>4 DEF Unread
<1>10. Past' = Past \cup {Line}
  <2>1. Past = {request.lines[i] : i \in 1 .. (n - m)}
    BY DEF Past
  <2>2. Past' = {request.lines[i] : i \in 1 .. (n - k)}
    BY <1>1 DEF Past
  <2>3. 1 .. (n - k) = (1 .. (n - m)) \cup {n - m + 1}
    BY <1>2, <1>3, <1>4, <1>6
  <2> HIDE DEF n, m, k
  <2> QED  BY <2>1, <2>2, <2>3, <1>7
<1>11. Line \in S
  BY <1>5, <1>6
<1> QED  BY <1>1, <1>9, <1>10, <1>11 DEF S

Appends(u, s, x) ==
  /\ u \in Seq(ToSet(u))
  /\ Len(s) \in Nat /\ DOMAIN s = 1 .. Len(s) /\ DOMAIN u = 1 .. (Len(s) + 1)
  /\ \A i \in 1 .. Len(s) : u[i] = s[i]
  /\ u[Len(s) + 1] = x

LEMMA Appended ==
  ASSUME NEW S, NEW s \in Seq(S), NEW x, NEW u, u = Append(s, x)
  PROVE  Appends(u, s, x)
<1> DEFINE U == S \cup {x}
<1>1. s \in Seq(U) /\ x \in U
  OBVIOUS
<1> HIDE DEF U
<1>2. /\ u \in Seq(U) /\ Len(u) = Len(s) + 1
      /\ \A i \in 1 .. Len(s) : u[i] = s[i]
      /\ u[Len(s) + 1] = x
  BY <1>1, AppendProperties
<1>3. /\ u \in Seq(ToSet(u)) /\ DOMAIN u = 1 .. Len(u)
      /\ Len(s) \in Nat /\ DOMAIN s = 1 .. Len(s)
  BY <1>1, <1>2, OwnRange
<1> QED  BY <1>2, <1>3 DEF Appends

LEMMA NodeFields ==
  ASSUME NEW id, NEW generic, NEW x, x = Node(id, generic)
  PROVE  /\ x.id = id /\ x.generic = generic /\ x.permissions = {} /\ x.env = {}
         /\ DOMAIN x = {"id", "generic", "permissions", "env"}
BY DEF Node

LEMMA TypedLine ==
  ASSUME IndInv, NEW l \in ToSet(request.lines), l.form = "typed"
  PROVE  /\ Served(l.obj) /\ l.obj.kind \notin MadeKinds
         /\ LineID(l) = EdgeID(l.obj) /\ IsBuilt(l)
BY RequestAssumption DEF IndInv, Served, MadeKinds, LineID, IsBuilt

LEMMA PastLines ==
  ASSUME IndInv
  PROVE  Past \subseteq ToSet(request.lines)
<1>1. /\ request.lines \in Seq(ToSet(request.lines)) /\ Len(request.lines) \in Nat
      /\ DOMAIN request.lines = 1 .. Len(request.lines)
  BY RequestAssumption, LenProperties DEF IndInv
<1>2. Len(lines) \in Nat
  BY LenProperties DEF IndInv, Unread
<1>3. 1 .. (Len(request.lines) - Len(lines)) \subseteq DOMAIN request.lines
  BY <1>1, <1>2
<1> QED  BY <1>3 DEF Past, ToSet

\* The object of a line that nobody had read becomes a fact.
LEMMA FactOfLine ==
  ASSUME IndInv, Reading, Consume, facts' = facts \cup CoreOf(Line),
         \A f \in facts : EdgeID(f) # LineID(Line)
  PROVE  Origins'
<1>1. /\ Past' = Past \cup {Line} /\ Line \in ToSet(request.lines)
      /\ request' = request /\ stage = "reading" /\ stage' = "reading"
  BY Advance
<1>2. CoreOf(Line) = (IF Line.form = "typed" THEN {Line.obj} ELSE {})
  BY DEF CoreOf
<1>3. IsFiniteSet(facts')
  BY <1>2, FS_EmptySet, FS_Singleton, FS_Union DEF IndInv, Origins
<1>4. \A o \in CoreOf(Line) : /\ o = Line.obj /\ Line.form = "typed"
                              /\ o.kind \notin MadeKinds /\ EdgeID(o) = LineID(Line)
  BY <1>1, <1>2, TypedLine
<1>5. \A a, b \in facts' : EdgeID(a) = EdgeID(b) => a = b
  BY <1>4 DEF IndInv, Origins
<1>6. ASSUME NEW f \in facts'
      PROVE  /\ f.kind \notin MadeKinds => \E l \in Past' : l.form = "typed" /\ l.obj = f
             /\ f.kind \in AggregateKinds => stage' \notin Early
             /\ f.kind \in {"User", "Group"} => stage' \notin Early \cup {"aggregated"}
             /\ f.kind = "External" => stage' \in {"parsed", "built", "done"}
             /\ f.kind \in NamedKinds => f.ns = Unset
  <2>1. CASE f \in facts
    BY <1>1, <2>1 DEF IndInv, Origins
  <2>2. CASE f \in CoreOf(Line)
    <3>1. f.kind \notin MadeKinds /\ \E l \in Past' : l.form = "typed" /\ l.obj = f
      BY <1>1, <1>4, <2>2
    <3> QED  BY <3>1 DEF MadeKinds, NamedKinds
  <2> QED  BY <2>1, <2>2
<1> QED  BY <1>3, <1>5, <1>6 DEF Origins

LEMMA AddNodeInv == IndInv /\ AddNode => IndInv'
<1> SUFFICES ASSUME IndInv, AddNode PROVE IndInv'
  OBVIOUS
<1>1. /\ Reading /\ Consume /\ IsBuilt(Line) /\ SeenAt(LineID(Line)) = {}
      /\ nodeList' = Append(nodeList, LineNode(Line))
      /\ facts' = facts \cup CoreOf(Line)
  BY DEF AddNode
<1>2. /\ Unread' /\ Past' = Past \cup {Line} /\ Line \in ToSet(request.lines)
      /\ request' = request /\ stage = "reading" /\ stage' = "reading"
  BY <1>1, Advance
<1> DEFINE n == Len(nodeList)
           node == LineNode(Line)
           id == LineID(Line)
<1>3. Rows /\ Represented
  BY DEF IndInv
<1>4. Appends(nodeList', nodeList, node)
  BY <1>1, <1>3, Appended DEF Rows
<1>5. /\ node.id = id /\ node.generic = (Line.form = "generic")
      /\ DOMAIN node = {"id", "generic", "permissions", "env"}
  BY NodeFields DEF LineNode
<1> HIDE DEF node, n
<1>6. /\ n \in Nat /\ DOMAIN nodeList = 1 .. n /\ DOMAIN nodeList' = 1 .. (n + 1)
      /\ \A i \in 1 .. n : nodeList'[i] = nodeList[i] /\ i \in 1 .. (n + 1)
      /\ nodeList'[n + 1] = node /\ n + 1 \in 1 .. (n + 1)
      /\ \A i \in 1 .. (n + 1) : i \in 1 .. n \/ i = n + 1
  BY <1>4 DEF Appends, n
<1>7. \A i \in 1 .. n : nodeList[i].id # id
  BY <1>1, <1>6 DEF SeenAt
<1>8. Rows'
  <2>1. nodeList' \in Seq(ToSet(nodeList'))
    BY <1>4 DEF Appends
  <2>2. \A i \in DOMAIN nodeList' : DOMAIN nodeList'[i] = {"id", "generic", "permissions", "env"}
    BY <1>3, <1>5, <1>6 DEF Rows
  <2>3. \A i, j \in DOMAIN nodeList' : nodeList'[i].id = nodeList'[j].id => i = j
    BY <1>3, <1>5, <1>6, <1>7 DEF Rows
  <2> QED  BY <2>1, <2>2, <2>3 DEF Rows
<1>9. \A f \in facts : EdgeID(f) # id
  BY <1>2, <1>3, <1>6, <1>7 DEF Represented, SeenAt
<1>10. Origins'
  BY <1>1, <1>9, FactOfLine
<1>11. /\ Line.form \in {"typed", "generic"} /\ \A l : IsBuilt(l)' = IsBuilt(l)
       /\ \A l : l.form = "typed" => IsBuilt(l)
  BY <1>1, <1>2 DEF IsBuilt
<1>12. \A l \in Past : IsBuilt(l) => LineID(l) # id
  BY <1>2, <1>3, <1>6, <1>7 DEF Represented, SeenAt
<1>13. \A x : TypedAs(x)' = TypedAs(x) \cup {l \in {Line} : l.form = "typed" /\ LineID(l) = x}
  <2>1. \A x : TypedAs(x)' = {l \in Past' : l.form = "typed" /\ LineID(l) = x}
    BY DEF TypedAs, LineID
  <2> QED  BY <1>2, <2>1 DEF TypedAs
<1>14. TypedAs(id) = {}
  BY <1>11, <1>12 DEF TypedAs
<1>15. Represented'
  <2>1. ASSUME NEW l \in Past', IsBuilt(l)
        PROVE  \E i \in DOMAIN nodeList' : /\ nodeList'[i].id = LineID(l)
                                           /\ nodeList'[i].generic <=> TypedAs(LineID(l))' = {}
    <3>1. CASE l = Line
      <4>1. nodeList'[n + 1].id = LineID(l) /\ nodeList'[n + 1].generic = (Line.form = "generic")
        BY <1>5, <1>6, <3>1
      <4>2. Line.form = "generic" <=> TypedAs(LineID(l))' = {}
        BY <1>11, <1>13, <1>14, <3>1
      <4> QED  BY <1>6, <4>1, <4>2
    <3>2. CASE l \in Past
      <4>1. PICK i \in DOMAIN nodeList : /\ nodeList[i].id = LineID(l)
                                         /\ nodeList[i].generic <=> TypedAs(LineID(l)) = {}
        BY <1>2, <1>3, <2>1, <3>2 DEF Represented, SeenAt
      <4>2. TypedAs(LineID(l))' = TypedAs(LineID(l))
        BY <1>12, <1>13, <2>1, <3>2
      <4> QED  BY <1>6, <4>1, <4>2
    <3> QED  BY <1>2, <3>1, <3>2
  <2>2. ASSUME NEW l \in Past', l.form = "typed"
        PROVE  \E k \in TypedAs(LineID(l))' : k.obj \in facts'
    <3>1. CASE l = Line
      BY <1>1, <1>13, <2>2, <3>1 DEF CoreOf
    <3>2. CASE l \in Past
      BY <1>1, <1>2, <1>3, <1>13, <2>2, <3>2 DEF Represented
    <3> QED  BY <1>2, <3>1, <3>2
  <2>3. ASSUME NEW f \in facts'
        PROVE  \E i \in DOMAIN nodeList' : nodeList'[i].id = EdgeID(f) /\ ~nodeList'[i].generic
    <3>1. CASE f \in facts
      <4>1. PICK i \in DOMAIN nodeList : nodeList[i].id = EdgeID(f) /\ ~nodeList[i].generic
        BY <1>2, <1>3, <3>1 DEF Represented, SeenAt
      <4> QED  BY <1>6, <4>1
    <3>2. CASE f \in CoreOf(Line)
      <4>1. Line.form = "typed" /\ EdgeID(f) = id
        BY <3>2 DEF CoreOf, LineID
      <4> QED  BY <1>5, <1>6, <4>1
    <3> QED  BY <1>1, <3>1, <3>2
  <2>4. ASSUME NEW i \in DOMAIN nodeList'
        PROVE  \/ \E l \in Past' : IsBuilt(l) /\ nodeList'[i].id = LineID(l)
               \/ \E f \in facts' : nodeList'[i].id = EdgeID(f)
    BY <1>1, <1>2, <1>3, <1>5, <1>6 DEF Represented
  <2> QED  BY <1>11, <2>1, <2>2, <2>3, <2>4 DEF Represented, SeenAt, LineID
<1>16. Enriched' /\ Aggregated' /\ Drawn' /\ EdgesJoinNodes'
  BY <1>2 DEF Enriched, Aggregated, Early, Drawn, EdgesJoinNodes, ReadDone
<1> QED  BY <1>2, <1>8, <1>10, <1>15, <1>16 DEF IndInv

LEMMA ReplaceGenericInv == IndInv /\ ReplaceGeneric => IndInv'
<1> SUFFICES ASSUME IndInv, ReplaceGeneric PROVE IndInv'
  OBVIOUS
<1> DEFINE node == LineNode(Line)
<1>0. PICK id : id = LineID(Line)
  OBVIOUS
<1>1. /\ Reading /\ Consume /\ Line.form = "typed"
      /\ facts' = facts \cup CoreOf(Line)
  BY DEF ReplaceGeneric
<1>2. /\ Unread' /\ Past' = Past \cup {Line} /\ Line \in ToSet(request.lines)
      /\ request' = request /\ stage = "reading" /\ stage' = "reading"
  BY <1>1, Advance
<1>3. Rows /\ Represented
  BY DEF IndInv
<1>4. PICK c \in DOMAIN nodeList :
        /\ nodeList[c].id = id /\ nodeList[c].generic
        /\ nodeList' = [nodeList EXCEPT ![c] = node]
  BY <1>0 DEF ReplaceGeneric, SeenAt
<1>5. /\ node.id = id /\ ~node.generic
      /\ DOMAIN node = {"id", "generic", "permissions", "env"}
  <2>1. /\ node.id = LineID(Line) /\ node.generic = (Line.form = "generic")
        /\ DOMAIN node = {"id", "generic", "permissions", "env"}
    BY NodeFields DEF LineNode
  <2> QED  BY <1>0, <1>1, <2>1
<1> HIDE DEF node
<1> DEFINE list == nodeList'
<1>6. /\ DOMAIN nodeList' = DOMAIN nodeList /\ nodeList'[c] = node
      /\ \A i \in DOMAIN nodeList : i # c => nodeList'[i] = nodeList[i]
      /\ list = [i \in DOMAIN list |-> list[i]]
  <2>1. list = [nodeList EXCEPT ![c] = node]
    BY <1>4
  <2> HIDE DEF list
  <2>2. /\ DOMAIN list = DOMAIN nodeList /\ list[c] = node
        /\ \A i \in DOMAIN nodeList : i # c => list[i] = nodeList[i]
    BY <1>4, <2>1
  <2>3. list = [i \in DOMAIN list |-> list[i]]
    BY <2>1
  <2> QED  BY <2>2, <2>3 DEF list
<1>7. \A i \in DOMAIN nodeList : nodeList'[i].id = nodeList[i].id
  BY <1>4, <1>5, <1>6
<1>8. Rows'
  <2>1. nodeList' \in Seq(ToSet(nodeList'))
    <3> DEFINE S == ToSet(nodeList)
    <3>1. list = [i \in DOMAIN list |-> list[i]] /\ DOMAIN list = DOMAIN nodeList
      BY <1>6
    <3>2. nodeList \in Seq(S)
      BY <1>3 DEF Rows
    <3> HIDE DEF list, S
    <3>3. list \in Seq(ToSet(list))
      BY <3>1, <3>2, FunctionSeq
    <3> QED  BY <3>3 DEF list
  <2>2. \A i \in DOMAIN nodeList' : DOMAIN nodeList'[i] = {"id", "generic", "permissions", "env"}
    BY <1>3, <1>5, <1>6 DEF Rows
  <2>3. \A i, j \in DOMAIN nodeList' : nodeList'[i].id = nodeList'[j].id => i = j
    BY <1>3, <1>6, <1>7 DEF Rows
  <2> QED  BY <2>1, <2>2, <2>3 DEF Rows
<1>9. \A i \in DOMAIN nodeList : nodeList[i].id = id => i = c
  BY <1>3, <1>4 DEF Rows
<1>10. \A f \in facts : EdgeID(f) # id
  <2> SUFFICES ASSUME NEW f \in facts, EdgeID(f) = id PROVE FALSE
    OBVIOUS
  <2>1. PICK i \in DOMAIN nodeList : nodeList[i].id = EdgeID(f) /\ ~nodeList[i].generic
    BY <1>2, <1>3 DEF Represented, SeenAt
  <2> QED  BY <1>4, <1>9, <2>1
<1>11. Origins'
  BY <1>0, <1>1, <1>10, FactOfLine
<1>12. /\ \A l : IsBuilt(l)' = IsBuilt(l)
       /\ \A l : l.form = "typed" => IsBuilt(l)
       /\ \A x : TypedAs(x)' = {l \in Past' : l.form = "typed" /\ LineID(l) = x}
       /\ \A l : CoreOf(l) = IF l.form = "typed" THEN {l.obj} ELSE {}
  BY <1>2 DEF IsBuilt, TypedAs, LineID, CoreOf
<1>13. /\ \A x : TypedAs(x) \subseteq TypedAs(x)'
       /\ \A x : x # id => TypedAs(x)' = TypedAs(x)
       /\ Line \in TypedAs(id)'
  BY <1>0, <1>1, <1>2, <1>12 DEF TypedAs
<1>14. Represented'
  <2>1. ASSUME NEW l \in Past', IsBuilt(l)
        PROVE  \E i \in DOMAIN nodeList' : /\ nodeList'[i].id = LineID(l)
                                           /\ nodeList'[i].generic <=> TypedAs(LineID(l))' = {}
    <3>1. CASE LineID(l) = id
      <4>1. nodeList'[c].id = LineID(l) /\ ~nodeList'[c].generic /\ TypedAs(LineID(l))' # {}
        BY <1>5, <1>6, <1>13, <3>1
      <4> QED  BY <1>4, <1>6, <4>1
    <3>2. CASE LineID(l) # id
      <4>1. l \in Past
        BY <1>0, <1>2, <3>2
      <4>2. PICK i \in DOMAIN nodeList : /\ nodeList[i].id = LineID(l)
                                         /\ nodeList[i].generic <=> TypedAs(LineID(l)) = {}
        BY <1>2, <1>3, <2>1, <4>1 DEF Represented, SeenAt
      <4>3. i # c /\ TypedAs(LineID(l))' = TypedAs(LineID(l))
        BY <1>4, <1>13, <3>2, <4>2
      <4> QED  BY <1>6, <4>2, <4>3
    <3> QED  BY <3>1, <3>2
  <2>2. ASSUME NEW l \in Past', l.form = "typed"
        PROVE  \E k \in TypedAs(LineID(l))' : k.obj \in facts'
    <3>1. CASE l = Line
      BY <1>1, <1>12, <1>13, <3>1
    <3>2. CASE l \in Past
      BY <1>1, <1>2, <1>3, <1>13, <2>2, <3>2 DEF Represented
    <3> QED  BY <1>2, <3>1, <3>2
  <2>3. ASSUME NEW f \in facts'
        PROVE  \E i \in DOMAIN nodeList' : nodeList'[i].id = EdgeID(f) /\ ~nodeList'[i].generic
    <3>1. CASE f \in facts
      <4>1. PICK i \in DOMAIN nodeList : nodeList[i].id = EdgeID(f) /\ ~nodeList[i].generic
        BY <1>2, <1>3, <3>1 DEF Represented, SeenAt
      <4> QED  BY <1>4, <1>6, <1>10, <3>1, <4>1
    <3>2. CASE f \in CoreOf(Line)
      <4>1. EdgeID(f) = id
        BY <1>0, <1>1, <1>12, <3>2 DEF LineID
      <4> QED  BY <1>4, <1>5, <1>6, <4>1
    <3> QED  BY <1>1, <3>1, <3>2
  <2>4. ASSUME NEW i \in DOMAIN nodeList'
        PROVE  \/ \E l \in Past' : IsBuilt(l) /\ nodeList'[i].id = LineID(l)
               \/ \E f \in facts' : nodeList'[i].id = EdgeID(f)
    BY <1>1, <1>2, <1>3, <1>6, <1>7 DEF Represented
  <2> QED  BY <1>12, <2>1, <2>2, <2>3, <2>4 DEF Represented, SeenAt, LineID
<1>15. Enriched' /\ Aggregated' /\ Drawn' /\ EdgesJoinNodes'
  BY <1>2 DEF Enriched, Aggregated, Early, Drawn, EdgesJoinNodes, ReadDone
<1> QED  BY <1>2, <1>8, <1>11, <1>14, <1>15 DEF IndInv

\* A line that is passed over says nothing new.
LEMMA SkipInv == IndInv /\ (SkipDuplicate \/ SkipLine) => IndInv'
<1> SUFFICES ASSUME IndInv, SkipDuplicate \/ SkipLine PROVE IndInv'
  OBVIOUS
<1>0. PICK id : id = LineID(Line)
  OBVIOUS
<1>1. /\ Reading /\ Consume /\ nodeList' = nodeList /\ facts' = facts
  BY DEF SkipDuplicate, SkipLine
<1>2. /\ Unread' /\ Past' = Past \cup {Line} /\ Line \in ToSet(request.lines)
      /\ request' = request /\ stage = "reading" /\ stage' = "reading"
  BY <1>1, Advance
<1>3. Rows /\ Represented /\ Origins
  BY DEF IndInv
<1>4. Rows' /\ Origins'
  BY <1>1, <1>2, <1>3 DEF Rows, Origins
<1>5. /\ \A l : IsBuilt(l)' = IsBuilt(l)
      /\ \A l : l.form = "typed" => IsBuilt(l) /\ LineID(l) = EdgeID(l.obj)
      /\ \A x : TypedAs(x)' = {l \in Past' : l.form = "typed" /\ LineID(l) = x}
  BY <1>2 DEF IsBuilt, TypedAs, LineID
<1>6. /\ \A x : TypedAs(x) \subseteq TypedAs(x)'
      /\ \A x : x # id => TypedAs(x)' = TypedAs(x)
      /\ Line.form # "typed" => \A x : TypedAs(x)' = TypedAs(x)
  BY <1>0, <1>2, <1>5 DEF TypedAs
<1>7. ASSUME IsBuilt(Line)
      PROVE  /\ \E i \in DOMAIN nodeList : /\ nodeList[i].id = id
                                           /\ nodeList[i].generic <=> TypedAs(id)' = {}
             /\ Line.form = "typed" => TypedAs(id) # {}
  <2>0. Line.form = "typed" \/ Line.form = "generic"
    BY <1>7 DEF IsBuilt
  <2>1. PICK i \in DOMAIN nodeList : /\ nodeList[i].id = id
                                     /\ Line.form = "generic" \/ ~nodeList[i].generic
    <3>1. PICK i \in SeenAt(id) : Line.form = "generic" \/ ~nodeList[i].generic
      BY <1>0, <1>7 DEF SkipDuplicate, SkipLine
    <3> QED  BY <3>1 DEF SeenAt
  <2>2. nodeList[i].generic <=> TypedAs(id) = {}
    <3>1. PICK l \in Past : IsBuilt(l) /\ id = LineID(l)
      <4>1. CASE \E l \in Past : IsBuilt(l) /\ nodeList[i].id = LineID(l)
        BY <2>1, <4>1
      <4>2. CASE \E f \in facts : nodeList[i].id = EdgeID(f)
        <5>1. PICK f \in facts : id = EdgeID(f)
          BY <2>1, <4>2
        <5>2. f.kind \notin MadeKinds
          BY <1>0, <1>2, <1>7, <2>0, <5>1, MadeIDs DEF IndInv, Origins
        <5>3. PICK l \in Past : l.form = "typed" /\ l.obj = f
          BY <1>3, <5>2 DEF Origins
        <5> QED  BY <1>5, <5>1, <5>3
      <4> QED  BY <1>2, <1>3, <2>1, <4>1, <4>2 DEF Represented
    <3>2. PICK j \in DOMAIN nodeList : nodeList[j].id = id /\ (nodeList[j].generic <=> TypedAs(id) = {})
      BY <1>2, <1>3, <3>1 DEF Represented, SeenAt
    <3> QED  BY <1>3, <2>1, <3>2 DEF Rows
  <2>3. Line.form = "typed" => TypedAs(id) # {}
    BY <2>0, <2>1, <2>2
  <2>4. TypedAs(id)' = {} <=> TypedAs(id) = {}
    BY <1>2, <1>6, <2>3
  <2> QED  BY <2>1, <2>2, <2>3, <2>4
<1>8. Represented'
  <2>1. ASSUME NEW l \in Past', IsBuilt(l)
        PROVE  \E i \in DOMAIN nodeList : /\ nodeList[i].id = LineID(l)
                                          /\ nodeList[i].generic <=> TypedAs(LineID(l))' = {}
    <3>1. CASE LineID(l) = id /\ IsBuilt(Line)
      <4>1. PICK i \in DOMAIN nodeList : nodeList[i].id = id /\ (nodeList[i].generic <=> TypedAs(id)' = {})
        BY <1>7, <3>1
      <4>2. TypedAs(LineID(l))' = TypedAs(id)'
        BY <1>5, <3>1
      <4> QED  BY <3>1, <4>1, <4>2
    <3>2. CASE LineID(l) # id \/ ~IsBuilt(Line)
      <4>1. l \in Past
        BY <1>0, <1>2, <2>1, <3>2
      <4>2. TypedAs(LineID(l))' = TypedAs(LineID(l))
        BY <1>0, <1>5, <1>6, <3>2
      <4> QED  BY <1>2, <1>3, <2>1, <4>1, <4>2 DEF Represented, SeenAt
    <3> QED  BY <3>1, <3>2
  <2>2. ASSUME NEW l \in Past', l.form = "typed"
        PROVE  \E k \in TypedAs(LineID(l))' : k.obj \in facts
    <3>1. PICK m \in Past : m.form = "typed" /\ LineID(m) = LineID(l)
      BY <1>0, <1>2, <1>5, <1>7, <2>2 DEF TypedAs
    <3>2. PICK k \in TypedAs(LineID(l)) : k.obj \in facts
      BY <1>2, <1>3, <3>1 DEF Represented
    <3> QED  BY <1>6, <3>2
  <2>3. /\ \A f \in facts : \E i \in SeenAt(EdgeID(f)) : ~nodeList[i].generic
        /\ \A i \in DOMAIN nodeList :
             \/ \E l \in Past : IsBuilt(l) /\ nodeList[i].id = LineID(l)
             \/ \E f \in facts : nodeList[i].id = EdgeID(f)
    BY <1>2, <1>3 DEF Represented
  <2>4. \A x : SeenAt(x)' = {i \in DOMAIN nodeList : nodeList[i].id = x}
    BY <1>1 DEF SeenAt
  <2>5. \A l \in Past' : IsBuilt(l)' =>
          \E i \in SeenAt(LineID(l))' : nodeList'[i].generic <=> TypedAs(LineID(l))' = {}
    BY <1>1, <1>5, <2>1, <2>4
  <2>6. /\ \A f \in facts' : \E i \in SeenAt(EdgeID(f))' : ~nodeList'[i].generic
        /\ \A i \in DOMAIN nodeList' :
             \/ \E l \in Past' : IsBuilt(l)' /\ nodeList'[i].id = LineID(l)
             \/ \E f \in facts' : nodeList'[i].id = EdgeID(f)
    BY <1>1, <1>2, <1>5, <2>3, <2>4 DEF SeenAt
  <2> QED  BY <1>1, <2>2, <2>5, <2>6 DEF Represented, LineID
<1>9. Enriched' /\ Aggregated' /\ Drawn' /\ EdgesJoinNodes'
  BY <1>2 DEF Enriched, Aggregated, Early, Drawn, EdgesJoinNodes, ReadDone
<1> QED  BY <1>2, <1>4, <1>8, <1>9 DEF IndInv

LEMMA BadLineInv == IndInv /\ BadLine => IndInv'
<1> SUFFICES ASSUME IndInv, BadLine PROVE IndInv'
  OBVIOUS
<1>1. /\ stage = "reading" /\ stage' = "failed"
      /\ UNCHANGED <<request, lines, nodeList, facts, edges>>
  BY DEF BadLine, Reading
<1>2. Past' = Past /\ (\A x : TypedAs(x)' = TypedAs(x)) /\ (\A l : IsBuilt(l)' = IsBuilt(l))
  BY <1>1 DEF Past, TypedAs, LineID, IsBuilt
<1>3. Unread' /\ Rows'
  BY <1>1 DEF IndInv, Unread, Rows, ReadDone
<1>4. Origins'
  <2>1. Origins
    BY DEF IndInv
  <2> QED  BY <1>1, <1>2, <2>1 DEF Origins, Early
<1>6. Represented'
  <2>1. Represented
    BY DEF IndInv
  <2>2. \A x : SeenAt(x)' = SeenAt(x)
    BY <1>1 DEF SeenAt
  <2> QED  BY <1>1, <1>2, <2>1, <2>2 DEF Represented, LineID
<1>5. Enriched' /\ Aggregated' /\ Drawn' /\ EdgesJoinNodes'
  BY <1>1 DEF Enriched, Aggregated, Early, Drawn, EdgesJoinNodes, ReadDone
<1> QED  BY <1>1, <1>3, <1>4, <1>5, <1>6 DEF IndInv

-----------------------------------------------------------------------------
(* What the parser makes. *)

LEMMA FiniteImage ==
  ASSUME NEW S, IsFiniteSet(S), NEW f, DOMAIN f = S
  PROVE  IsFiniteSet({f[x] : x \in S})
<1> DEFINE T == {f[x] : x \in S}
           g == [x \in S |-> f[x]]
<1>1. g \in [S -> T] /\ \A y \in T : \E x \in S : g[x] = y
  OBVIOUS
<1>2. g \in Surjection(S, T)
  BY <1>1 DEF Surjection
<1> HIDE DEF T, g
<1>3. IsFiniteSet(T)
  BY <1>2, FS_Surjection
<1> QED  BY <1>3 DEF T

\* No object that the API server serves has one of the kinds.
LEMMA MadeApart ==
  /\ MadeKinds \cap (SpacedKinds \cup RoleKinds \cup {"ServiceAccount", "Pod", "RoleBinding", "ClusterRoleBinding",
                     "Deployment", "DaemonSet", "StatefulSet", "Job", "CronJob"}) = {}
  /\ AggregateKinds \cap (Identities \cup NamedKinds) = {}
  /\ \A k \in DOMAIN AggregateOf : AggregateOf[k] \in AggregateKinds
  /\ ClusterKinds \subseteq DOMAIN AggregateOf /\ SpacedKinds \subseteq DOMAIN AggregateOf
  /\ IsFiniteSet(ClusterKinds) /\ IsFiniteSet(SpacedKinds)
<1>1. MadeKinds \cap (SpacedKinds \cup RoleKinds \cup {"ServiceAccount", "Pod", "RoleBinding", "ClusterRoleBinding",
                     "Deployment", "DaemonSet", "StatefulSet", "Job", "CronJob"}) = {}
  BY DEF MadeKinds, AggregateKinds, NamedKinds, AggregateOf, SpacedKinds, RoleKinds
<1>2. AggregateKinds \cap (Identities \cup NamedKinds) = {}
  BY DEF AggregateKinds, NamedKinds, AggregateOf, Identities
<1>3. /\ \A k \in DOMAIN AggregateOf : AggregateOf[k] \in AggregateKinds
      /\ ClusterKinds \subseteq DOMAIN AggregateOf /\ SpacedKinds \subseteq DOMAIN AggregateOf
  BY DEF AggregateKinds, ClusterKinds, SpacedKinds
<1>4. IsFiniteSet(DOMAIN AggregateOf)
  <2> DEFINE name == [i \in 1 .. 14 |->
                IF i = 1 THEN "Pod" ELSE IF i = 2 THEN "Secret" ELSE IF i = 3 THEN "ConfigMap"
                ELSE IF i = 4 THEN "ServiceAccount" ELSE IF i = 5 THEN "Deployment"
                ELSE IF i = 6 THEN "DaemonSet" ELSE IF i = 7 THEN "StatefulSet"
                ELSE IF i = 8 THEN "Job" ELSE IF i = 9 THEN "CronJob" ELSE IF i = 10 THEN "Role"
                ELSE IF i = 11 THEN "Node" ELSE IF i = 12 THEN "ClusterRole"
                ELSE IF i = 13 THEN "User" ELSE "Group"]
  <2>1. DOMAIN AggregateOf \subseteq {name[i] : i \in 1 .. 14}
    <3>1. DOMAIN AggregateOf = {"Pod", "Secret", "ConfigMap", "ServiceAccount", "Deployment", "DaemonSet",
                                "StatefulSet", "Job", "CronJob", "Role", "Node", "ClusterRole", "User",
                                "Group"}
      BY DEF AggregateOf
    <3>2. /\ name[1] = "Pod" /\ name[2] = "Secret" /\ name[3] = "ConfigMap"
          /\ name[4] = "ServiceAccount" /\ name[5] = "Deployment" /\ name[6] = "DaemonSet"
          /\ name[7] = "StatefulSet" /\ name[8] = "Job" /\ name[9] = "CronJob" /\ name[10] = "Role"
          /\ name[11] = "Node" /\ name[12] = "ClusterRole" /\ name[13] = "User" /\ name[14] = "Group"
      OBVIOUS
    <3> HIDE DEF name
    <3>3. \A k \in DOMAIN AggregateOf : \E i \in 1 .. 14 : k = name[i]
      BY <3>1, <3>2
    <3> QED  BY <3>3
  <2>2. IsFiniteSet(1 .. 14)
    <3> DEFINE low == 1
               high == 14
    <3>1. low \in Int /\ high \in Int
      OBVIOUS
    <3> HIDE DEF low, high
    <3>2. IsFiniteSet(low .. high)
      BY <3>1, FS_Interval
    <3> QED  BY <3>2 DEF low, high
  <2>3. DOMAIN name = 1 .. 14
    OBVIOUS
  <2> HIDE DEF name
  <2>4. IsFiniteSet({name[i] : i \in 1 .. 14})
    BY <2>2, <2>3, FiniteImage
  <2> QED  BY <2>1, <2>4, FS_Subset
<1>5. IsFiniteSet(ClusterKinds) /\ IsFiniteSet(SpacedKinds)
  BY <1>3, <1>4, FS_Subset
<1> QED  BY <1>1, <1>2, <1>3, <1>5

LEMMA MadeNode ==
  ASSUME NEW id, NEW x, x = Node(id, FALSE)
  PROVE  x.id = id /\ ~x.generic /\ DOMAIN x = {"id", "generic", "permissions", "env"}
BY DEF Node

\* The nodes of new objects come after those there are.
Extended(objects) ==
  /\ \A i \in DOMAIN nodeList : i \in DOMAIN nodeList' /\ nodeList'[i] = nodeList[i]
  /\ \A o \in objects : \E i \in DOMAIN nodeList' : nodeList'[i].id = EdgeID(o) /\ ~nodeList'[i].generic
  /\ \A i \in DOMAIN nodeList' :
       i \in DOMAIN nodeList \/ \E o \in objects : nodeList'[i].id = EdgeID(o)

\* Objects that only the parser makes, none of which is a fact.
Made(objects) ==
  /\ IsFiniteSet(objects)
  /\ \A o \in objects : o.kind \in MadeKinds /\ (o.kind \in NamedKinds => o.ns = Unset)
  /\ \A a, b \in objects : EdgeID(a) = EdgeID(b) => a = b
  /\ \A o \in objects, f \in facts : EdgeID(o) # EdgeID(f)

LEMMA AppendedRows ==
  ASSUME IndInv, NEW objects, Made(objects), AppendNodes(objects), stage # "done"
  PROVE  Rows' /\ Extended(objects)
<1> DEFINE list == Listed(objects)
           t == [i \in DOMAIN list |-> Node(EdgeID(list[i]), FALSE)]
           n == Len(nodeList)
           m == Len(list)
<1>1. nodeList' = nodeList \o t
  BY DEF AppendNodes
<1>2. /\ list \in Seq(objects)
      /\ \A x \in objects : \E i \in DOMAIN list : list[i] = x
      /\ \A i, j \in DOMAIN list : list[i] = list[j] => i = j
  BY ListedOnce DEF Made
<1>3. m \in Nat /\ DOMAIN list = 1 .. m /\ \A i \in 1 .. m : list[i] \in objects
  BY <1>2, LenProperties
<1>4. /\ \A i \in 1 .. m : t[i].id = EdgeID(list[i]) /\ ~t[i].generic
                           /\ DOMAIN t[i] = {"id", "generic", "permissions", "env"}
      /\ DOMAIN t = DOMAIN list /\ t = [i \in DOMAIN t |-> t[i]]
  <2>1. DOMAIN t = DOMAIN list /\ t = [i \in DOMAIN t |-> t[i]]
    OBVIOUS
  <2>2. ASSUME NEW i \in 1 .. m
        PROVE  t[i].id = EdgeID(list[i]) /\ ~t[i].generic
               /\ DOMAIN t[i] = {"id", "generic", "permissions", "env"}
    <3>1. t[i] = Node(EdgeID(list[i]), FALSE)
      BY <1>3
    <3> DEFINE x == t[i]
               id == EdgeID(list[i])
    <3> HIDE DEF t, list
    <3>2. x = Node(id, FALSE)
      BY <3>1
    <3> HIDE DEF x, id
    <3>3. x.id = id /\ ~x.generic /\ DOMAIN x = {"id", "generic", "permissions", "env"}
      BY <3>2, MadeNode
    <3> QED  BY <3>3 DEF x, id
  <2> QED  BY <2>1, <2>2
<1> HIDE DEF list, t
<1>5. t \in Seq(ToSet(t)) /\ Len(t) = m
  BY <1>2, <1>4, FunctionSeq
<1>6. Joins(nodeList', nodeList, t)
  BY <1>1, <1>5, Concatenated DEF IndInv, Rows
<1> HIDE DEF n, m
<1>7. /\ n \in Nat /\ nodeList' \in Seq(ToSet(nodeList')) /\ DOMAIN nodeList = 1 .. n
      /\ Len(nodeList') = n + m /\ DOMAIN nodeList' = 1 .. n + m
      /\ \A i \in 1 .. n : nodeList'[i] = nodeList[i] /\ i \in 1 .. n + m
      /\ \A i \in 1 .. m : nodeList'[n + i] = t[i] /\ n + i \in 1 .. n + m
      /\ \A i \in 1 .. n + m : i \notin 1 .. n => i - n \in 1 .. m /\ nodeList'[i] = t[i - n]
  <2>1. /\ nodeList' \in Seq(ToSet(nodeList'))
        /\ n \in Nat /\ Len(nodeList') = n + m
        /\ \A i \in 1 .. n : nodeList'[i] = nodeList[i]
        /\ \A i \in 1 .. m : nodeList'[n + i] = t[i]
        /\ \A i \in 1 .. n + m : i \notin 1 .. n => i - n \in 1 .. m /\ nodeList'[i] = t[i - n]
    BY <1>5, <1>6 DEF Joins, n, m
  <2>2. DOMAIN nodeList = 1 .. n
    BY OwnRange DEF IndInv, Rows, n
  <2>3. DOMAIN nodeList' = 1 .. n + m
    BY <2>1, OwnRange
  <2>4. /\ \A i \in 1 .. n : i \in 1 .. n + m
        /\ \A i \in 1 .. m : n + i \in 1 .. n + m
    BY <1>3, <2>1
  <2> QED  BY <2>1, <2>2, <2>3, <2>4
<1>8. \A i \in 1 .. n + m : i \notin 1 .. n =>
        \E o \in objects : nodeList'[i].id = EdgeID(o)
  BY <1>3, <1>4, <1>7
<1>9. ASSUME NEW i \in 1 .. n, NEW o \in objects
      PROVE  nodeList[i].id # EdgeID(o)
  <2>1. CASE \E l \in Past : IsBuilt(l) /\ nodeList[i].id = LineID(l)
    <3>1. PICK l \in Past : IsBuilt(l) /\ nodeList[i].id = LineID(l)
      BY <2>1
    <3>2. l \in ToSet(request.lines) /\ l.form \in {"typed", "generic"}
      BY <3>1, PastLines DEF IsBuilt
    <3> QED  BY <3>1, <3>2, MadeIDs DEF IndInv, Made
  <2>2. CASE \E f \in facts : nodeList[i].id = EdgeID(f)
    BY <2>2 DEF Made
  <2> QED  BY <1>7, <2>1, <2>2 DEF IndInv, Represented
<1>10. ASSUME NEW i \in 1 .. n + m, NEW j \in 1 .. n + m, nodeList'[i].id = nodeList'[j].id
       PROVE  i = j
  <2>1. CASE i \in 1 .. n /\ j \in 1 .. n
    BY <1>7, <1>10, <2>1 DEF IndInv, Rows
  <2>2. CASE i \notin 1 .. n /\ j \in 1 .. n
    BY <1>7, <1>8, <1>9, <1>10, <2>2
  <2>3. CASE i \in 1 .. n /\ j \notin 1 .. n
    BY <1>7, <1>8, <1>9, <1>10, <2>3
  <2>4. CASE i \notin 1 .. n /\ j \notin 1 .. n
    <3>1. /\ i - n \in 1 .. m /\ j - n \in 1 .. m
          /\ EdgeID(list[i - n]) = EdgeID(list[j - n])
      BY <1>4, <1>7, <1>10, <2>4
    <3>2. i - n = j - n
      BY <1>2, <1>3, <3>1 DEF Made
    <3> QED  BY <1>7, <3>2
  <2> QED  BY <2>1, <2>2, <2>3, <2>4
<1>11. \A i \in DOMAIN nodeList' : DOMAIN nodeList'[i] = {"id", "generic", "permissions", "env"}
  BY <1>4, <1>7 DEF IndInv, Rows
<1>12. Rows'
  BY <1>7, <1>10, <1>11 DEF Rows
<1>13. \A o \in objects : \E i \in DOMAIN nodeList' : nodeList'[i].id = EdgeID(o) /\ ~nodeList'[i].generic
  <2> SUFFICES ASSUME NEW o \in objects
               PROVE  \E i \in DOMAIN nodeList' : nodeList'[i].id = EdgeID(o) /\ ~nodeList'[i].generic
    OBVIOUS
  <2>1. PICK j \in 1 .. m : list[j] = o
    BY <1>2, <1>3
  <2> QED  BY <1>4, <1>7, <2>1
<1>14. Extended(objects)
  BY <1>7, <1>8, <1>13 DEF Extended
<1> QED  BY <1>12, <1>14

\* Objects that come later change nothing of what is read off the others.
LEMMA SameReadings ==
  ASSUME NEW F, NEW G, F \subseteq G,
         \A o \in G : o \notin F => o.kind \in MadeKinds
  PROVE  /\ Pods(G) = Pods(F) /\ Bindings(G) = Bindings(F)
         /\ \A p : podEnv(G, p) = podEnv(F, p)
         /\ \A b : BoundRole(G, b) = BoundRole(F, b)
<1>1. \A k : k \notin MadeKinds => OfKind(G, k) = OfKind(F, k)
  BY DEF OfKind
<1>2. Pods(G) = Pods(F) /\ Bindings(G) = Bindings(F)
  BY <1>1, MadeApart DEF Pods, Bindings
<1>3. Controllers(G) = Controllers(F)
  <2>1. \A k \in ToSet(ControllerOrder) : k \notin MadeKinds
    BY MadeApart DEF ToSet, ControllerOrder
  <2> QED  BY <1>1, <2>1 DEF Controllers
<1>4. \A p : EnvControllers(G, p) = EnvControllers(F, p)
  BY <1>3 DEF EnvControllers
<1>5. \A p : podEnv(G, p) = podEnv(F, p)
  <2> SUFFICES ASSUME NEW p PROVE podEnv(G, p) = podEnv(F, p)
    OBVIOUS
  <2> DEFINE Env(C) ==
        LET Having(d, k) == {o \in C : o.kind = k /\ d \in Definitions(o)}
            Source(d) ==
              LET kinds == {i \in DOMAIN ControllerOrder : Having(d, ControllerOrder[i]) # {}}
              IN IF kinds = {} THEN p ELSE CHOOSE o \in Having(d, ControllerOrder[Min(kinds)]) : TRUE
        IN {[def |-> d, source |-> EdgeID(Source(d))] :
              d \in UNION {Definitions(o) : o \in {p} \cup C}}
  <2>1. podEnv(F, p) = Env(EnvControllers(F, p)) /\ podEnv(G, p) = Env(EnvControllers(G, p))
    BY Zenon DEF podEnv
  <2>2. EnvControllers(F, p) = EnvControllers(G, p)
    BY <1>4
  <2> HIDE DEF Env
  <2> QED  BY <2>1, <2>2
<1>6. \A b : BoundRole(G, b) = BoundRole(F, b)
  BY MadeApart DEF BoundRole
<1> QED  BY <1>2, <1>5, <1>6

\* A stage that makes objects, and their kinds.
Making(objects) ==
  \/ /\ stage = "injected" /\ stage' = "aggregated"
     /\ \A o \in objects : o.kind \in AggregateKinds
  \/ /\ stage = "aggregated" /\ stage' = "identified"
     /\ \A o \in objects : o.kind \in {"User", "Group"}
  \/ /\ stage = "enriched" /\ stage' = "parsed"
     /\ \A o \in objects : o.kind = "External"

LEMMA AppendInv ==
  ASSUME IndInv, NEW objects, Made(objects), AppendNodes(objects), Making(objects),
         UNCHANGED <<request, lines, edges>>, Aggregated'
  PROVE  IndInv'
<1>1. /\ stage \in {"injected", "aggregated", "enriched"}
      /\ stage' \in {"aggregated", "identified", "parsed"}
      /\ request' = request /\ lines' = lines /\ edges' = edges /\ facts' = facts \cup objects
  BY DEF Making, AppendNodes
<1>2. Rows' /\ Extended(objects)
  BY <1>1, AppendedRows
<1>3. Past' = Past /\ (\A x : TypedAs(x)' = TypedAs(x)) /\ (\A l : IsBuilt(l)' = IsBuilt(l))
  BY <1>1 DEF Past, TypedAs, LineID, IsBuilt
<1>4. Unread'
  BY <1>1 DEF IndInv, Unread, ReadDone
<1>5. Origins'
  <2>1. IsFiniteSet(facts')
    BY <1>1, FS_Union DEF IndInv, Origins, Made
  <2>2. \A a, b \in facts' : EdgeID(a) = EdgeID(b) => a = b
    BY <1>1 DEF IndInv, Origins, Made
  <2>3. ASSUME NEW f \in facts
        PROVE  /\ f.kind \notin MadeKinds => \E l \in Past' : l.form = "typed" /\ l.obj = f
               /\ f.kind \in AggregateKinds => stage' \notin Early
               /\ f.kind \in {"User", "Group"} => stage' \notin Early \cup {"aggregated"}
               /\ f.kind = "External" => stage' \in {"parsed", "built", "done"}
               /\ f.kind \in NamedKinds => f.ns = Unset
    BY <1>1, <1>3 DEF IndInv, Origins, Early, Making
  <2>4. ASSUME NEW f \in objects
        PROVE  /\ f.kind \in MadeKinds
               /\ f.kind \in AggregateKinds => stage' \notin Early
               /\ f.kind \in {"User", "Group"} => stage' \notin Early \cup {"aggregated"}
               /\ f.kind = "External" => stage' \in {"parsed", "built", "done"}
               /\ f.kind \in NamedKinds => f.ns = Unset
    <3>1. f.kind \in AggregateKinds => f.kind \notin {"User", "Group", "External"}
      BY MadeApart DEF NamedKinds
    <3> QED  BY <3>1, <1>1 DEF Making, Made, Early
  <2> QED  BY <1>1, <2>1, <2>2, <2>3, <2>4 DEF Origins
<1>6. Represented'
  <2>1. Represented
    BY DEF IndInv
  <2>2. \A x : SeenAt(x) \subseteq SeenAt(x)' /\ \A i \in SeenAt(x) : nodeList'[i] = nodeList[i]
    BY <1>2 DEF Extended, SeenAt
  <2>3. \A l \in Past : IsBuilt(l) =>
          \E i \in SeenAt(LineID(l))' : nodeList'[i].generic <=> TypedAs(LineID(l)) = {}
    BY <1>1, <2>1, <2>2 DEF Represented, LineID
  <2>4. \A l \in Past : l.form = "typed" => \E k \in TypedAs(LineID(l)) : k.obj \in facts'
    BY <1>1, <2>1 DEF Represented
  <2>5. \A f \in facts' : \E i \in SeenAt(EdgeID(f))' : ~nodeList'[i].generic
    <3> SUFFICES ASSUME NEW f \in facts' PROVE \E i \in SeenAt(EdgeID(f))' : ~nodeList'[i].generic
      OBVIOUS
    <3>2. CASE f \in facts
      BY <1>1, <2>1, <2>2, <3>2 DEF Represented
    <3>3. CASE f \in objects
      BY <1>2, <3>3 DEF Extended, SeenAt
    <3> QED  BY <1>1, <3>2, <3>3
  <2>6. \A i \in DOMAIN nodeList' :
          \/ \E l \in Past : IsBuilt(l) /\ nodeList'[i].id = LineID(l)
          \/ \E f \in facts' : nodeList'[i].id = EdgeID(f)
    BY <1>1, <1>2, <2>1 DEF Represented, Extended
  <2> QED  BY <1>3, <2>3, <2>4, <2>5, <2>6 DEF Represented, LineID
<1>7. \A f \in facts : SeenAt(EdgeID(f))' \subseteq SeenAt(EdgeID(f))
  BY <1>2 DEF Extended, SeenAt, Made
<1>8. /\ facts \subseteq facts'
      /\ \A o \in facts' : o \notin facts => o.kind \in MadeKinds
  BY <1>1 DEF Made
<1>9. /\ Pods(facts') = Pods(facts) /\ Bindings(facts') = Bindings(facts)
      /\ \A p : podEnv(facts', p) = podEnv(facts, p)
      /\ \A b : BoundRole(facts', b) = BoundRole(facts, b)
  BY <1>8, SameReadings
<1>10. Enriched'
  <2>1. ASSUME stage' = "parsed"
        PROVE  \A w \in Who' : \A i \in SeenAt(EdgeID(w))' :
                 nodeList'[i].permissions = PermissionsOf(EdgeID(w))'
    <3>1. stage = "enriched" /\ \A o \in objects : o.kind = "External"
      BY <2>1 DEF Making
    <3>2. Who' = Who
      BY <1>1, <3>1 DEF Who, OfKind, Identities
    <3>3. \A id : PermissionsOf(id)' = PermissionsOf(id)
      BY <1>9 DEF PermissionsOf
    <3>4. \A w \in Who : w \in facts
      BY DEF Who, OfKind
    <3>5. \A w \in Who : \A i \in SeenAt(EdgeID(w)) : nodeList[i].permissions = PermissionsOf(EdgeID(w))
      BY <3>1 DEF IndInv, Enriched
    <3>6. \A w \in Who : \A i \in SeenAt(EdgeID(w))' :
            nodeList'[i].permissions = PermissionsOf(EdgeID(w))
      BY <1>2, <1>7, <3>4, <3>5 DEF Extended, SeenAt
    <3> QED  BY <3>2, <3>3, <3>6
  <2>2. \A p \in Pods(facts') : \A i \in SeenAt(EdgeID(p))' : nodeList'[i].env = podEnv(facts', p)
    <3>1. \A p \in Pods(facts) : p \in facts
      BY DEF Pods, OfKind
    <3>2. \A p \in Pods(facts) : \A i \in SeenAt(EdgeID(p)) : nodeList[i].env = podEnv(facts, p)
      BY <1>1 DEF IndInv, Enriched, ReadDone
    <3>3. \A p \in Pods(facts) : \A i \in SeenAt(EdgeID(p))' : nodeList'[i].env = podEnv(facts, p)
      BY <1>2, <1>7, <3>1, <3>2 DEF Extended, SeenAt
    <3> QED  BY <1>9, <3>3
  <2> QED  BY <1>1, <2>1, <2>2 DEF Enriched
<1>11. Drawn' /\ EdgesJoinNodes'
  BY <1>1 DEF Drawn, EdgesJoinNodes
<1> QED  BY <1>1, <1>2, <1>4, <1>5, <1>6, <1>10, <1>11 DEF IndInv

\* Aggregates stay, and what comes later needs none.
LEMMA StaysAggregated ==
  ASSUME IndInv, NEW objects, Made(objects), facts' = facts \cup objects, stage \notin Early
  PROVE  Aggregated'
<1>1. \A o \in objects : o.kind \notin SpacedKinds
  BY MadeApart DEF Made
<1>2. Aggregated
  BY DEF IndInv
<1> QED  BY <1>1, <1>2 DEF Aggregated, AggregateObject

LEMMA AddAggregatesInv == IndInv /\ AddAggregates => IndInv'
<1> SUFFICES ASSUME IndInv, AddAggregates PROVE IndInv'
  OBVIOUS
<1> DEFINE cluster == {AggregateObject(k, Unset) : k \in ClusterKinds}
           places == {q \in SpacedKinds \X Spaces(facts) : InSpace(facts, q[1], q[2]) # {}}
           spaced == {AggregateObject(p[1], p[2]) : p \in places}
           objects == addAggregateNodes
<1>1. /\ stage = "injected" /\ stage' = "aggregated" /\ UNCHANGED <<request, lines, edges>>
      /\ AppendNodes(objects) /\ facts' = facts \cup objects
  BY DEF AddAggregates, AppendNodes
<1>2. objects = cluster \cup spaced
  BY DEF addAggregateNodes
<1>3. \A o \in objects : \E k \in DOMAIN AggregateOf : \E ns : o = AggregateObject(k, ns)
  BY <1>2, MadeApart
<1>4. \A k, ns : /\ AggregateObject(k, ns).kind = AggregateOf[k] /\ AggregateObject(k, ns).ns = ns
                 /\ AggregateObject(k, ns) = [kind |-> AggregateOf[k], ns |-> ns, name |-> AggregateOf[k]]
  BY DEF AggregateObject
<1>5. IsFiniteSet(objects)
  <2>1. IsFiniteSet(cluster)
    <3> DEFINE f == [k \in ClusterKinds |-> AggregateObject(k, Unset)]
    <3>1. cluster = {f[k] : k \in ClusterKinds} /\ DOMAIN f = ClusterKinds
      OBVIOUS
    <3> HIDE DEF f, cluster
    <3> QED  BY <3>1, FiniteImage, MadeApart
  <2>2. IsFiniteSet(Spaces(facts))
    <3> DEFINE f == [o \in facts |-> o.ns]
    <3>1. Spaces(facts) \subseteq {f[o] : o \in facts} /\ DOMAIN f = facts
      BY DEF Spaces
    <3> HIDE DEF f
    <3>2. IsFiniteSet({f[o] : o \in facts})
      BY <3>1, FiniteImage DEF IndInv, Origins
    <3> QED  BY <3>1, <3>2, FS_Subset
  <2>3. IsFiniteSet(places)
    <3>1. IsFiniteSet(SpacedKinds \X Spaces(facts))
      BY <2>2, MadeApart, FS_Product
    <3>2. places \in SUBSET (SpacedKinds \X Spaces(facts))
      OBVIOUS
    <3> HIDE DEF places
    <3> QED  BY <3>1, <3>2, FS_Subset
  <2>4. IsFiniteSet(spaced)
    <3> DEFINE f == [p \in places |-> AggregateObject(p[1], p[2])]
    <3>1. spaced = {f[p] : p \in places} /\ DOMAIN f = places
      OBVIOUS
    <3> HIDE DEF f, spaced, places
    <3> QED  BY <2>3, <3>1, FiniteImage
  <2> HIDE DEF cluster, spaced, objects
  <2> QED  BY <1>2, <2>1, <2>4, FS_Union
<1> HIDE DEF cluster, spaced, objects
<1>6. \A o \in objects : o.kind \in AggregateKinds
  BY <1>3, <1>4, MadeApart
<1>7. Made(objects)
  <2>1. \A o \in objects : o.kind \in MadeKinds /\ (o.kind \in NamedKinds => o.ns = Unset)
    BY <1>6, MadeApart DEF MadeKinds
  <2>2. \A a, b \in objects : EdgeID(a) = EdgeID(b) => a = b
    BY <1>3, <1>4, SameID
  <2>3. \A o \in objects, f \in facts : EdgeID(o) # EdgeID(f)
    <3>1. \A f \in facts : f.kind \notin AggregateKinds
      BY <1>1 DEF IndInv, Origins, Early
    <3> QED  BY <1>6, <3>1, SameID
  <2> QED  BY <1>5, <2>1, <2>2, <2>3 DEF Made
<1>8. Aggregated'
  <2>1. \A k \in ClusterKinds : AggregateObject(k, Unset) \in facts'
    BY <1>1, <1>2 DEF cluster
  <2>2. ASSUME NEW k \in SpacedKinds, NEW o \in facts', o.kind = k
        PROVE  AggregateObject(k, o.ns) \in facts'
    <3>1. o \in facts /\ o.kind \notin MadeKinds
      BY <1>1, <1>7, <2>2, MadeApart DEF Made
    <3>2. PICK l \in Past : l.form = "typed" /\ l.obj = o
      BY <3>1 DEF IndInv, Origins
    <3>3. o.ns # Unset
      BY <2>2, <3>2, PastLines, TypedLine DEF Served
    <3>4. o.ns \in Spaces(facts) /\ InSpace(facts, k, o.ns) # {}
      BY <2>2, <3>1, <3>3 DEF Spaces, InSpace
    <3>5. <<k, o.ns>> \in places
      BY <3>4
    <3> HIDE DEF places
    <3>6. AggregateObject(k, o.ns) \in spaced
      BY <3>5 DEF spaced
    <3> QED  BY <1>1, <1>2, <3>6
  <2> QED  BY <2>1, <2>2 DEF Aggregated, AggregateObject
<1>9. Making(objects)
  BY <1>1, <1>6 DEF Making
<1> QED  BY <1>1, <1>7, <1>8, <1>9, AppendInv

LEMMA SynthesizeInv == IndInv /\ SynthesizeUsersAndGroups => IndInv'
<1> SUFFICES ASSUME IndInv, SynthesizeUsersAndGroups PROVE IndInv'
  OBVIOUS
<1> DEFINE named == {x \in Subjects : x.kind \in {"User", "Group"}}
           objects == {[kind |-> s.kind, ns |-> Unset, name |-> s.name] : s \in named}
<1>1. /\ stage = "aggregated" /\ stage' = "identified" /\ UNCHANGED <<request, lines, edges>>
      /\ AppendNodes(objects) /\ facts' = facts \cup objects
  BY DEF SynthesizeUsersAndGroups, AppendNodes
<1>2. \A o \in objects : /\ o.kind \in {"User", "Group"} /\ o.ns = Unset
                         /\ o = [kind |-> o.kind, ns |-> Unset, name |-> o.name]
  <2> SUFFICES ASSUME NEW o \in objects
               PROVE  /\ o.kind \in {"User", "Group"} /\ o.ns = Unset
                      /\ o = [kind |-> o.kind, ns |-> Unset, name |-> o.name]
    OBVIOUS
  <2>1. PICK s \in named : o = [kind |-> s.kind, ns |-> Unset, name |-> s.name]
    OBVIOUS
  <2>2. o.kind = s.kind /\ o.ns = Unset /\ o.name = s.name
    BY <2>1
  <2> QED  BY <2>1, <2>2
<1>3. IsFiniteSet(objects)
  <2>1. IsFiniteSet(Bindings(facts))
    BY FS_Subset DEF IndInv, Origins, Bindings, OfKind
  <2>2. \A b \in Bindings(facts) : IsFiniteSet(b.subjects)
    <3> SUFFICES ASSUME NEW b \in Bindings(facts) PROVE IsFiniteSet(b.subjects)
      OBVIOUS
    <3>1. b \in facts /\ b.kind \in {"RoleBinding", "ClusterRoleBinding"} /\ b.kind \notin MadeKinds
      BY MadeApart DEF Bindings, OfKind
    <3>2. PICK l \in Past : l.form = "typed" /\ l.obj = b
      BY <3>1 DEF IndInv, Origins
    <3> QED  BY <3>1, <3>2, PastLines, TypedLine DEF Served
  <2>3. IsFiniteSet(Subjects)
    <3> DEFINE f == [b \in Bindings(facts) |-> b.subjects]
               T == {f[b] : b \in Bindings(facts)}
    <3>1. Subjects = UNION T /\ DOMAIN f = Bindings(facts)
      BY DEF Subjects
    <3>2. \A t \in T : IsFiniteSet(t)
      BY <2>2
    <3> HIDE DEF f
    <3>3. IsFiniteSet(T)
      BY <2>1, <3>1, FiniteImage
    <3> HIDE DEF T
    <3> QED  BY <3>1, <3>2, <3>3, FS_UNION
  <2>4. IsFiniteSet(named)
    BY <2>3, FS_Subset
  <2> DEFINE f == [s \in named |-> [kind |-> s.kind, ns |-> Unset, name |-> s.name]]
  <2>5. objects = {f[s] : s \in named} /\ DOMAIN f = named
    OBVIOUS
  <2> HIDE DEF f, objects, named
  <2> QED  BY <2>4, <2>5, FiniteImage
<1> HIDE DEF objects
<1>4. Made(objects)
  <2>1. \A o \in objects : o.kind \in MadeKinds /\ (o.kind \in NamedKinds => o.ns = Unset)
    BY <1>2 DEF MadeKinds, NamedKinds
  <2>2. \A a, b \in objects : EdgeID(a) = EdgeID(b) => a = b
    BY <1>2, SameID
  <2>3. \A o \in objects, f \in facts : EdgeID(o) # EdgeID(f)
    <3>1. \A f \in facts : f.kind \notin {"User", "Group"}
      BY <1>1 DEF IndInv, Origins, Early
    <3> QED  BY <1>2, <3>1, SameID
  <2> QED  BY <1>3, <2>1, <2>2, <2>3 DEF Made
<1>5. Making(objects) /\ stage \notin Early
  BY <1>1, <1>2 DEF Making, Early
<1> QED  BY <1>1, <1>4, <1>5, StaysAggregated, AppendInv

LEMMA AddExternalInv == IndInv /\ AddExternal => IndInv'
<1> SUFFICES ASSUME IndInv, AddExternal PROVE IndInv'
  OBVIOUS
<1> DEFINE x == [kind |-> "External", ns |-> Unset, name |-> "external"]
           objects == {x}
<1>1. /\ stage = "enriched" /\ stage' = "parsed" /\ UNCHANGED <<request, lines, edges>>
      /\ AppendNodes(objects) /\ facts' = facts \cup objects
  BY DEF AddExternal, AppendNodes
<1>2. x.kind = "External" /\ x.ns = Unset
  OBVIOUS
<1> HIDE DEF x
<1>3. IsFiniteSet(objects)
  BY FS_Singleton
<1>4. \A o \in objects : o = x
  OBVIOUS
<1> HIDE DEF objects
<1>5. Made(objects)
  <2>1. \A o \in objects : o.kind \in MadeKinds /\ (o.kind \in NamedKinds => o.ns = Unset)
    BY <1>2, <1>4 DEF MadeKinds, NamedKinds
  <2>2. \A f \in facts : f.kind # "External"
    BY <1>1 DEF IndInv, Origins
  <2>3. \A o \in objects, f \in facts : EdgeID(o) # EdgeID(f)
    BY <1>2, <1>4, <2>2, SameID
  <2> QED  BY <1>3, <1>4, <2>1, <2>3 DEF Made
<1>6. Making(objects) /\ stage \notin Early
  BY <1>1, <1>2, <1>4 DEF Making, Early
<1> QED  BY <1>1, <1>5, <1>6, StaysAggregated, AppendInv

-----------------------------------------------------------------------------
(* What is added to the nodes, the edges and the cluster. *)

\* Stages that read no line and make no object.
Later ==
  \/ stage = "reading" /\ stage' = "injected" /\ lines = <<>>
  \/ stage = "identified" /\ stage' = "enriched"
  \/ stage = "parsed" /\ stage' = "built"
  \/ stage = "built" /\ stage' = "done"

LEMMA LaterInv ==
  ASSUME IndInv, Later, UNCHANGED <<request, lines, facts>>
  PROVE  /\ Unread' /\ Origins' /\ Aggregated'
         /\ Past' = Past /\ (\A x : TypedAs(x)' = TypedAs(x)) /\ (\A l : IsBuilt(l)' = IsBuilt(l))
<1>1. Past' = Past /\ (\A x : TypedAs(x)' = TypedAs(x)) /\ (\A l : IsBuilt(l)' = IsBuilt(l))
  BY DEF Past, TypedAs, LineID, IsBuilt
<1>2. Unread'
  BY DEF IndInv, Unread, ReadDone, Later
<1>3. Origins'
  <2>1. Origins
    BY DEF IndInv
  <2> QED  BY <1>1, <2>1 DEF Origins, Early, Later
<1>4. Aggregated'
  BY DEF IndInv, Aggregated, Early, Later, AggregateObject
<1> QED  BY <1>1, <1>2, <1>3, <1>4

\* Nodes that keep their ids and stay what they were.
Kept == \A i \in DOMAIN nodeList : /\ nodeList'[i].id = nodeList[i].id
                                   /\ nodeList'[i].generic = nodeList[i].generic

LEMMA KeptInv ==
  ASSUME IndInv, Later, UNCHANGED <<request, lines, facts>>, Kept, stage' # "done",
         DOMAIN nodeList' = DOMAIN nodeList
  PROVE  Represented' /\ \A x : SeenAt(x)' = SeenAt(x)
<1>1. /\ Past' = Past /\ (\A x : TypedAs(x)' = TypedAs(x)) /\ (\A l : IsBuilt(l)' = IsBuilt(l))
  BY LaterInv
<1>2. \A x : SeenAt(x)' = SeenAt(x)
  BY DEF SeenAt, Kept
<1>3. \A x : SeenAt(x) \subseteq DOMAIN nodeList
  BY DEF SeenAt
<1>4. Represented /\ stage # "done"
  BY DEF IndInv, Later
<1>5. Represented'
  <2>1. \A l \in Past : IsBuilt(l) =>
          \E i \in SeenAt(LineID(l)) : nodeList'[i].generic <=> TypedAs(LineID(l)) = {}
    BY <1>3, <1>4 DEF Represented, Kept
  <2>2. \A f \in facts : \E i \in SeenAt(EdgeID(f)) : ~nodeList'[i].generic
    BY <1>3, <1>4 DEF Represented, Kept
  <2>3. \A i \in DOMAIN nodeList' :
          \/ \E l \in Past : IsBuilt(l) /\ nodeList'[i].id = LineID(l)
          \/ \E f \in facts : nodeList'[i].id = EdgeID(f)
    BY <1>4 DEF Represented, Kept
  <2> QED  BY <1>1, <1>2, <1>4, <2>1, <2>2, <2>3 DEF Represented, LineID
<1> QED  BY <1>2, <1>5

\* Nodes changed one by one are a sequence of nodes as before.
LEMMA ChangedRows ==
  ASSUME IndInv, nodeList' = [i \in DOMAIN nodeList |-> nodeList'[i]],
         \A i \in DOMAIN nodeList : DOMAIN nodeList'[i] = DOMAIN nodeList[i],
         \A i, j \in DOMAIN nodeList : nodeList'[i].id = nodeList'[j].id => i = j
  PROVE  Rows'
<1> DEFINE list == nodeList'
           S == ToSet(nodeList)
<1>1. nodeList \in Seq(S) /\ DOMAIN list = DOMAIN nodeList
      /\ \A i \in DOMAIN nodeList : DOMAIN nodeList[i] = {"id", "generic", "permissions", "env"}
  BY DEF IndInv, Rows
<1>2. list = [i \in DOMAIN list |-> list[i]]
  BY <1>1
<1> HIDE DEF list, S
<1>3. list \in Seq(ToSet(list))
  BY <1>1, <1>2, FunctionSeq
<1> USE DEF list
<1> QED  BY <1>1, <1>3 DEF Rows

LEMMA EnrichEnvInv == IndInv /\ EnrichEnv => IndInv'
<1> SUFFICES ASSUME IndInv, EnrichEnv PROVE IndInv'
  OBVIOUS
<1> DEFINE Env(id) == UNION {podEnv(facts, p) : p \in {x \in Pods(facts) : EdgeID(x) = id}}
<1>1. /\ Later /\ UNCHANGED <<request, lines, facts, edges>>
      /\ stage = "reading" /\ stage' = "injected"
      /\ nodeList' = [i \in DOMAIN nodeList |-> [nodeList[i] EXCEPT !.env = Env(nodeList[i].id)]]
  BY DEF EnrichEnv, Later
<1>2. \A i \in DOMAIN nodeList : DOMAIN nodeList[i] = {"id", "generic", "permissions", "env"}
  BY DEF IndInv, Rows
<1> HIDE DEF Env
<1>3. /\ DOMAIN nodeList' = DOMAIN nodeList
      /\ \A i \in DOMAIN nodeList : nodeList'[i] = [nodeList[i] EXCEPT !.env = Env(nodeList[i].id)]
      /\ nodeList' = [i \in DOMAIN nodeList |-> nodeList'[i]]
  BY <1>1
<1>4. \A i \in DOMAIN nodeList :
        /\ nodeList'[i].id = nodeList[i].id /\ nodeList'[i].generic = nodeList[i].generic
        /\ nodeList'[i].env = Env(nodeList[i].id) /\ DOMAIN nodeList'[i] = DOMAIN nodeList[i]
  BY <1>2, <1>3
<1>5. Rows'
  BY <1>3, <1>4, ChangedRows DEF IndInv, Rows
<1>6. Represented' /\ \A x : SeenAt(x)' = SeenAt(x)
  BY <1>1, <1>3, <1>4, KeptInv DEF Kept
<1>7. Enriched'
  <2>1. ASSUME NEW p \in Pods(facts) PROVE Env(EdgeID(p)) = podEnv(facts, p)
    <3>1. {x \in Pods(facts) : EdgeID(x) = EdgeID(p)} = {p}
      BY DEF IndInv, Origins, Pods, OfKind
    <3> QED  BY <3>1 DEF Env
  <2>2. \A p \in Pods(facts) : \A i \in SeenAt(EdgeID(p)) : nodeList'[i].env = podEnv(facts, p)
    BY <1>4, <2>1 DEF SeenAt
  <2> QED  BY <1>1, <1>6, <2>2 DEF Enriched
<1>8. Drawn' /\ EdgesJoinNodes'
  BY <1>1 DEF Drawn, EdgesJoinNodes
<1> QED  BY <1>1, <1>5, <1>6, <1>7, <1>8, LaterInv DEF IndInv

LEMMA EnrichPermissionsInv == IndInv /\ EnrichPermissions => IndInv'
<1> SUFFICES ASSUME IndInv, EnrichPermissions PROVE IndInv'
  OBVIOUS
<1>1. /\ Later /\ UNCHANGED <<request, lines, facts, edges>>
      /\ stage = "identified" /\ stage' = "enriched"
      /\ nodeList' = [i \in DOMAIN nodeList |->
                        [nodeList[i] EXCEPT !.permissions = PermissionsOf(nodeList[i].id)]]
  BY DEF EnrichPermissions, Later
<1>2. \A i \in DOMAIN nodeList : DOMAIN nodeList[i] = {"id", "generic", "permissions", "env"}
  BY DEF IndInv, Rows
<1>3. /\ DOMAIN nodeList' = DOMAIN nodeList
      /\ \A i \in DOMAIN nodeList :
           nodeList'[i] = [nodeList[i] EXCEPT !.permissions = PermissionsOf(nodeList[i].id)]
      /\ nodeList' = [i \in DOMAIN nodeList |-> nodeList'[i]]
  BY <1>1
<1>4. \A i \in DOMAIN nodeList :
        /\ nodeList'[i].id = nodeList[i].id /\ nodeList'[i].generic = nodeList[i].generic
        /\ nodeList'[i].permissions = PermissionsOf(nodeList[i].id)
        /\ nodeList'[i].env = nodeList[i].env /\ DOMAIN nodeList'[i] = DOMAIN nodeList[i]
  BY <1>2, <1>3
<1>5. Rows'
  BY <1>3, <1>4, ChangedRows DEF IndInv, Rows
<1>6. Represented' /\ \A x : SeenAt(x)' = SeenAt(x)
  BY <1>1, <1>3, <1>4, KeptInv DEF Kept
<1>7. Enriched'
  <2>1. /\ \A id : PermissionsOf(id)' = PermissionsOf(id)
        /\ Who' = Who
    BY <1>1 DEF PermissionsOf, Who
  <2>2. \A p \in Pods(facts) : \A i \in SeenAt(EdgeID(p)) : nodeList[i].env = podEnv(facts, p)
    BY <1>1 DEF IndInv, Enriched, ReadDone
  <2>3. \A p \in Pods(facts) : \A i \in SeenAt(EdgeID(p)) : nodeList'[i].env = podEnv(facts, p)
    BY <1>4, <2>2 DEF SeenAt
  <2>4. \A w \in Who : \A i \in SeenAt(EdgeID(w)) : nodeList'[i].permissions = PermissionsOf(EdgeID(w))
    BY <1>4 DEF SeenAt
  <2> QED  BY <1>1, <1>6, <2>1, <2>3, <2>4 DEF Enriched
<1>8. Drawn' /\ EdgesJoinNodes'
  BY <1>1 DEF Drawn, EdgesJoinNodes
<1> QED  BY <1>1, <1>5, <1>6, <1>7, <1>8, LaterInv DEF IndInv

LEMMA BuildEdgesInv == IndInv /\ BuildEdges => IndInv'
<1> SUFFICES ASSUME IndInv, BuildEdges PROVE IndInv'
  OBVIOUS
<1>1. /\ Later /\ UNCHANGED <<request, lines, nodeList, facts>>
      /\ stage = "parsed" /\ stage' = "built"
      /\ edges' \in DeduplicateEdges(RuleEdges(facts))
  BY DEF BuildEdges, Later, RuleEdges
<1>2. Represented' /\ \A x : SeenAt(x)' = SeenAt(x)
  BY <1>1, KeptInv DEF Kept
<1>3. Rows'
  BY <1>1 DEF IndInv, Rows
<1>4. Enriched'
  <2>1. Enriched /\ ReadDone /\ ReadDone'
    BY <1>1 DEF IndInv, ReadDone
  <2> QED  BY <1>1, <1>2, <2>1 DEF Enriched, Who, PermissionsOf
<1>5. Drawn' /\ EdgesJoinNodes'
  BY <1>1 DEF Drawn, EdgesJoinNodes
<1> QED  BY <1>1, <1>2, <1>3, <1>4, <1>5, LaterInv DEF IndInv

\* The name of a cluster is text like any other after it was trimmed.
LEMMA ClusterNames ==
  ASSUME NEW name, name \in Seq(ToSet(name))
  PROVE  \E S : normalizedCluster(name) \in Seq(S)
<1> DEFINE ink == {i \in DOMAIN name : name[i] # " "}
           n == Len(name)
           S == ToSet(name)
<1>1. n \in Nat /\ DOMAIN name = 1 .. n /\ \A i \in 1 .. n : name[i] \in S
  BY OwnRange DEF ToSet
<1>2. normalizedCluster(name) = IF ink = {} THEN defaultClusterName
                                ELSE SubSeq(name, Min(ink), Max(ink))
  BY DEF normalizedCluster
<1>3. ink \in SUBSET Nat /\ ink \subseteq 1 .. n /\ \A x \in ink : x <= n
  <2>1. ink \subseteq 1 .. n
    BY <1>1
  <2> HIDE DEF ink, n
  <2> QED  BY <1>1, <2>1
<1> HIDE DEF ink, n, S
<1>4. CASE ink = {}
  <2>1. defaultClusterName \in Seq({"default"})
    BY DEF defaultClusterName
  <2> QED  BY <1>2, <1>4, <2>1
<1>5. CASE ink # {}
  <2> DEFINE a == Min(ink)
             b == Max(ink)
  <2>1. a \in ink
    BY <1>3, <1>5, SmallestOf DEF Min
  <2>2. b \in ink
    <3>1. PICK x \in ink : \A y \in ink : y <= x
      BY <1>1, <1>3, <1>5, LargestOf
    <3>2. \A y \in ink : x >= y
      BY <1>3, <3>1
    <3> QED  BY <3>2 DEF Max
  <2> HIDE DEF a, b
  <2>3. a \in Int /\ b \in Int /\ \A i \in a .. b : name[i] \in S
    BY <1>1, <1>3, <2>1, <2>2
  <2>4. SubSeq(name, a, b) \in Seq(S)
    BY <2>3, SubSeqProperties
  <2> QED  BY <1>2, <1>5, <2>4 DEF a, b
<1> QED  BY <1>4, <1>5

\* What follows a prefix can be told from the whole.
LEMMA AfterPrefix ==
  ASSUME NEW S, NEW c \in Seq(S), NEW X, NEW x \in Seq(X), NEW Y, NEW y \in Seq(Y), c \o x = c \o y
  PROVE  x = y
<1> DEFINE u == c \o x
           T == X \cup Y
<1>1. Joins(u, c, x)
  BY Concatenated
<1>2. Joins(u, c, y)
  BY Concatenated
<1>3. x \in Seq(T) /\ y \in Seq(T)
  OBVIOUS
<1> HIDE DEF u, T
<1>4. Len(x) = Len(y) /\ \A i \in 1 .. Len(x) : x[i] = y[i]
  BY <1>1, <1>2 DEF Joins
<1> QED  BY <1>3, <1>4, SeqEqual

LEMMA NodeIDs ==
  ASSUME IndInv, stage # "done", NEW i \in DOMAIN nodeList
  PROVE  nodeList[i].id \in Seq(ToSet(nodeList[i].id))
<1>1. CASE \E l \in Past : IsBuilt(l) /\ nodeList[i].id = LineID(l)
  BY <1>1, LineIDs DEF IsBuilt
<1>2. CASE \E f \in facts : nodeList[i].id = EdgeID(f)
  BY <1>2, IDParts
<1> QED  BY <1>1, <1>2 DEF IndInv, Represented

LEMMA ApplyClusterInv == IndInv /\ ApplyCluster => IndInv'
<1> SUFFICES ASSUME IndInv, ApplyCluster PROVE IndInv'
  OBVIOUS
<1> DEFINE c == normalizedCluster(request.cluster)
           Scoped(id) == c \o id
<1>1. /\ Later /\ UNCHANGED <<request, lines, facts>> /\ stage = "built" /\ stage' = "done"
      /\ nodeList' = [i \in DOMAIN nodeList |-> [nodeList[i] EXCEPT !.id = Scoped(nodeList[i].id)]]
      /\ edges' = {[e EXCEPT !.from = Scoped(e.from), !.to = Scoped(e.to)] : e \in edges}
  BY DEF ApplyCluster, Later
<1>2. PICK S : c \in Seq(S)
  BY ClusterNames, RequestAssumption DEF IndInv
<1>3. \A i, j \in DOMAIN nodeList :
        Scoped(nodeList[i].id) = Scoped(nodeList[j].id) => nodeList[i].id = nodeList[j].id
  <2> SUFFICES ASSUME NEW i \in DOMAIN nodeList, NEW j \in DOMAIN nodeList,
                      Scoped(nodeList[i].id) = Scoped(nodeList[j].id)
               PROVE  nodeList[i].id = nodeList[j].id
    OBVIOUS
  <2> DEFINE x == nodeList[i].id
             y == nodeList[j].id
             X == ToSet(x)
             Y == ToSet(y)
  <2>1. x \in Seq(X) /\ y \in Seq(Y)
    BY <1>1, NodeIDs
  <2>2. c \o x = c \o y
    OBVIOUS
  <2> HIDE DEF c, x, y, X, Y
  <2>3. x = y
    BY <1>2, <2>1, <2>2, AfterPrefix
  <2> QED  BY <2>3 DEF x, y
<1> HIDE DEF Scoped
<1>4. \A i \in DOMAIN nodeList : DOMAIN nodeList[i] = {"id", "generic", "permissions", "env"}
  BY DEF IndInv, Rows
<1>5. /\ DOMAIN nodeList' = DOMAIN nodeList
      /\ \A i \in DOMAIN nodeList : nodeList'[i] = [nodeList[i] EXCEPT !.id = Scoped(nodeList[i].id)]
      /\ nodeList' = [i \in DOMAIN nodeList |-> nodeList'[i]]
  BY <1>1
<1>6. \A i \in DOMAIN nodeList :
        nodeList'[i].id = Scoped(nodeList[i].id) /\ DOMAIN nodeList'[i] = DOMAIN nodeList[i]
  BY <1>4, <1>5
<1>7. Rows'
  BY <1>3, <1>5, <1>6, ChangedRows DEF IndInv, Rows
<1>8. EdgesJoinNodes'
  <2>1. ASSUME NEW e \in edges
        PROVE  /\ DOMAIN e = {"kind", "from", "to", "props"}
               /\ \E i, j \in DOMAIN nodeList : nodeList[i].id = e.from /\ nodeList[j].id = e.to
    <3>1. e \in RuleEdges(facts)
      BY <1>1, Deduplicated DEF IndInv, Drawn
    <3>2. PICK a, b \in facts : e.from = EdgeID(a) /\ e.to = EdgeID(b)
      BY <3>1, RulesJoinFacts
    <3>3. \A f \in facts : \E i \in DOMAIN nodeList : nodeList[i].id = EdgeID(f)
      BY <1>1 DEF IndInv, Represented, SeenAt
    <3>4. DOMAIN e = {"kind", "from", "to", "props"}
      BY <3>1, RulesJoinFacts
    <3> QED  BY <3>2, <3>3, <3>4
  <2>2. ASSUME NEW x \in edges'
        PROVE  {x.from, x.to} \subseteq {nodeList'[i].id : i \in DOMAIN nodeList'}
    <3>1. PICK e \in edges : x = [e EXCEPT !.from = Scoped(e.from), !.to = Scoped(e.to)]
      BY <1>1
    <3>2. x.from = Scoped(e.from) /\ x.to = Scoped(e.to)
      BY <2>1, <3>1
    <3>3. PICK i, j \in DOMAIN nodeList : nodeList[i].id = e.from /\ nodeList[j].id = e.to
      BY <2>1
    <3> QED  BY <1>5, <1>6, <3>2, <3>3
  <2> QED  BY <2>2 DEF EdgesJoinNodes, IDs
<1>9. Represented' /\ Enriched' /\ Drawn'
  BY <1>1 DEF Represented, Enriched, Drawn
<1> QED  BY <1>1, <1>7, <1>8, <1>9, LaterInv DEF IndInv

\* The invariant holds in every reachable state, for any lines in any order.
THEOREM GraphInvariance == Spec => []IndInv
<1>1. IndInv /\ [Next]_vars => IndInv'
  <2> SUFFICES ASSUME IndInv, [Next]_vars PROVE IndInv'
    OBVIOUS
  <2>1. CASE UNCHANGED vars
    <3>1. UNCHANGED <<request, stage, lines, nodeList, facts, edges>>
      BY <2>1 DEF vars
    <3>2. /\ Past' = Past /\ (\A x : TypedAs(x)' = TypedAs(x)) /\ (\A l : IsBuilt(l)' = IsBuilt(l))
          /\ \A x : SeenAt(x)' = SeenAt(x)
      BY <3>1 DEF Past, TypedAs, LineID, IsBuilt, SeenAt
    <3>3. Unread' /\ Rows' /\ Aggregated' /\ Drawn' /\ EdgesJoinNodes'
      BY <3>1 DEF IndInv, Unread, ReadDone, Rows, Aggregated, AggregateObject, Drawn, EdgesJoinNodes, IDs
    <3>4. Origins'
      BY <3>1, <3>2 DEF IndInv, Origins
    <3>5. Represented'
      BY <3>1, <3>2 DEF IndInv, Represented, LineID
    <3>6. Enriched'
      BY <3>1, <3>2 DEF IndInv, Enriched, ReadDone, Who, PermissionsOf
    <3> QED  BY <3>1, <3>3, <3>4, <3>5, <3>6 DEF IndInv
  <2> QED
    BY <2>1, AddNodeInv, ReplaceGenericInv, SkipInv, BadLineInv, EnrichEnvInv, AddAggregatesInv,
       SynthesizeInv, EnrichPermissionsInv, AddExternalInv, BuildEdgesInv, ApplyClusterInv DEF Next
<1> QED  BY <1>1, InitInv, PTL DEF Spec

\* EdgesJoinNodes, whatever was collected: the ends of an edge and the nodes are
\* renamed for the cluster alike, and no rule looks at what has no node.
THEOREM EdgesJoinNodesAlways == Spec => []EdgesJoinNodes
<1>1. IndInv => EdgesJoinNodes
  BY DEF IndInv
<1> QED  BY <1>1, GraphInvariance, PTL

\* When all was read, every line was.
LEMMA AllPast ==
  ASSUME IndInv, ReadDone
  PROVE  Past = ToSet(request.lines)
<1>1. lines = <<>> /\ request.lines \in Seq(ToSet(request.lines))
  BY RequestAssumption DEF IndInv, Unread
<1>2. Len(lines) = 0 /\ Len(request.lines) \in Nat
  BY <1>1, LenProperties, EmptySeq
<1>3. Len(request.lines) - Len(lines) = Len(request.lines)
  BY <1>2
<1> QED  BY <1>1, <1>3, OwnRange DEF Past

\* OneNodePerObject, for any lines in any order.
THEOREM OneNodePerObjectAlways == Spec => []OneNodePerObject
<1>1. IndInv => OneNodePerObject
  <2> SUFFICES ASSUME IndInv PROVE OneNodePerObject
    OBVIOUS
  <2>1. \A i, j \in DOMAIN nodeList : nodeList[i].id = nodeList[j].id => i = j
    BY DEF IndInv, Rows
  <2>2. ASSUME ReadDone, stage # "done", NEW l \in ReadLines,
               NEW typed, typed = {k \in ReadLines : k.form = "typed" /\ LineID(k) = LineID(l)}
        PROVE  /\ \E i \in SeenAt(LineID(l)) : nodeList[i].generic <=> typed = {}
               /\ typed # {} => Cardinality(facts \cap {k.obj : k \in typed}) = 1
    <3>1. Past = ToSet(request.lines) /\ l \in Past /\ IsBuilt(l)
      BY <2>2, AllPast DEF ReadLines
    <3>2. typed = TypedAs(LineID(l))
      BY <2>2, <3>1 DEF TypedAs, ReadLines, IsBuilt
    <3>3. \E i \in SeenAt(LineID(l)) : nodeList[i].generic <=> typed = {}
      BY <2>2, <3>1, <3>2 DEF IndInv, Represented
    <3>4. ASSUME typed # {}
          PROVE  Cardinality(facts \cap {k.obj : k \in typed}) = 1
      <4>1. PICK k \in typed : k.obj \in facts
        BY <2>2, <3>2, <3>4 DEF IndInv, Represented, TypedAs
      <4>2. \A t \in typed : EdgeID(t.obj) = LineID(l)
        BY <2>2 DEF LineID
      <4>3. facts \cap {t.obj : t \in typed} = {k.obj}
        BY <4>1, <4>2 DEF IndInv, Origins
      <4> QED  BY <4>3, FS_Singleton
    <3> QED  BY <3>3, <3>4
  <2> QED  BY <2>1, <2>2 DEF OneNodePerObject
<1> QED  BY <1>1, GraphInvariance, PTL

LEMMA EveryEdge ==
  ASSUME IndInv, stage = "built", NEW e \in edges
  PROVE  /\ e \in RuleEdges(facts) /\ FromRule(facts, e)
         /\ \E a, b \in facts : e.from = EdgeID(a) /\ e.to = EdgeID(b)
BY Deduplicated, RulesJoinFacts DEF IndInv, Drawn

\* No edge of a graph leads from or to what is not a fact: a rule that read an
\* object the parser does not keep would leave an edge BloodHound drops.
EdgesJoinFacts ==
  stage = "built" => \A e \in edges : \E a, b \in facts : e.from = EdgeID(a) /\ e.to = EdgeID(b)

\* EdgesJoinFacts, whatever was collected.
THEOREM EdgesJoinFactsAlways == Spec => []EdgesJoinFacts
<1>1. IndInv => EdgesJoinFacts
  <2> SUFFICES ASSUME IndInv, stage = "built", NEW e \in edges
               PROVE  \E a, b \in facts : e.from = EdgeID(a) /\ e.to = EdgeID(b)
    BY DEF EdgesJoinFacts
  <2> QED  BY EveryEdge
<1> QED  BY <1>1, GraphInvariance, PTL

\* What is known of a fact by its kind.
LEMMA FactServed ==
  ASSUME IndInv, NEW f \in facts
  PROVE  /\ f.kind \notin MadeKinds => Served(f)
         /\ f.kind \in NamedKinds => f.ns = Unset
<1>1. ASSUME f.kind \notin MadeKinds PROVE Served(f)
  <2>1. PICK l \in Past : l.form = "typed" /\ l.obj = f
    BY <1>1 DEF IndInv, Origins
  <2> QED  BY <2>1, PastLines, TypedLine
<1> QED  BY <1>1 DEF IndInv, Origins

LEMMA FactsApart ==
  ASSUME IndInv
  PROVE  ClusterWide(facts) /\ Distinct(facts)
<1>1. "ClusterRole" \notin MadeKinds
  BY MadeApart DEF RoleKinds
<1>2. ClusterWide(facts)
  BY <1>1, FactServed DEF ClusterWide, Served
<1>3. Distinct(facts)
  BY DEF IndInv, Origins, Distinct
<1> QED  BY <1>2, <1>3

\* EveryBindingShown, whatever was collected: of all the rules and bindings none
\* hides an edge of a binding.
THEOREM EveryBindingShownAlways == Spec => []EveryBindingShown
<1>1. IndInv => EveryBindingShown
  <2> SUFFICES ASSUME IndInv, stage = "built",
                      NEW b \in Bindings(facts), NEW w \in Who, NEW r \in Roles,
                      Names(b, w), RefersTo(b, r), ~Foreign(b, w)
               PROVE  \E e \in edges : /\ e.kind = "RoleBound" /\ EdgeID(b) \in e.props
                                       /\ e.from = EdgeID(w) /\ e.to = EdgeID(r)
    BY DEF EveryBindingShown
  <2>1. w \in facts /\ w.kind \in Identities /\ r \in facts /\ r.kind \in RoleKinds
    BY DEF Who, Roles, OfKind
  <2>2. edges \in DeduplicateEdges(RuleEdges(facts)) /\ ClusterWide(facts) /\ Distinct(facts)
    BY FactsApart DEF IndInv, Drawn
  <2> QED  BY <2>1, <2>2, BindingShown
<1> QED  BY <1>1, GraphInvariance, PTL

-----------------------------------------------------------------------------
(* Two readings of a binding. *)

\* The nodes a binding names are those of the identities it names.
LEMMA NamedNodes ==
  ASSUME IndInv, NEW b, NEW w \in Who
  PROVE  Names(b, w) <=> EdgeID(w) \in UNION {subjectNodeID(b.ns, s) : s \in b.subjects}
<1>1. w \in facts /\ w.kind \in Identities
  BY DEF Who, OfKind
<1>2. w.kind = "ServiceAccount" => w.ns # Unset
  <2>1. "ServiceAccount" \notin MadeKinds /\ "ServiceAccount" \in SpacedKinds
    BY MadeApart DEF SpacedKinds, AggregateOf
  <2> QED  BY <1>1, <2>1, FactServed DEF Served
<1>3. w.kind # "ServiceAccount" => w.ns = Unset
  BY <1>1, FactServed DEF Identities, NamedKinds
<1>4. \A s : EdgeID(w) \in subjectNodeID(b.ns, s) <=>
         /\ s.kind = w.kind /\ s.name = w.name
         /\ w.kind = "ServiceAccount" => w.ns = (IF s.ns = Unset THEN b.ns ELSE s.ns)
  <2> SUFFICES ASSUME NEW s
               PROVE  EdgeID(w) \in subjectNodeID(b.ns, s) <=>
                        /\ s.kind = w.kind /\ s.name = w.name
                        /\ w.kind = "ServiceAccount" => w.ns = (IF s.ns = Unset THEN b.ns ELSE s.ns)
    OBVIOUS
  <2> DEFINE space == IF s.ns = Unset THEN b.ns ELSE s.ns
  <2>1. ASSUME NEW ns
        PROVE  EdgeID(w) = BuildID(<<s.kind>>, ns, s.name) <=>
                 s.kind = w.kind /\ s.name = w.name /\ w.ns = ns
    <3> DEFINE x == [kind |-> s.kind, ns |-> ns, name |-> s.name]
    <3>1. x.kind = s.kind /\ x.ns = ns /\ x.name = s.name
      OBVIOUS
    <3> HIDE DEF x
    <3>2. EdgeID(x) = BuildID(<<s.kind>>, ns, s.name)
      BY <3>1 DEF EdgeID
    <3>3. s.kind = w.kind /\ s.name = w.name /\ w.ns = ns => EdgeID(w) = EdgeID(x)
      BY <3>1 DEF EdgeID
    <3> QED  BY <3>1, <3>2, <3>3, SameID
  <2>2. CASE s.kind = "ServiceAccount"
    <3>1. subjectNodeID(b.ns, s) = IF space = Unset THEN {} ELSE {BuildID(<<s.kind>>, space, s.name)}
      BY <2>2 DEF subjectNodeID
    <3> HIDE DEF space
    <3>2. EdgeID(w) \in subjectNodeID(b.ns, s) <=>
            space # Unset /\ s.kind = w.kind /\ s.name = w.name /\ w.ns = space
      BY <2>1, <3>1
    <3> QED  BY <1>2, <2>2, <3>2 DEF space
  <2>3. CASE s.kind # "ServiceAccount"
    <3>1. subjectNodeID(b.ns, s) =
            IF s.kind \in Identities THEN {BuildID(<<s.kind>>, Unset, s.name)} ELSE {}
      BY <2>3 DEF subjectNodeID
    <3>2. EdgeID(w) \in subjectNodeID(b.ns, s) <=>
            s.kind \in Identities /\ s.kind = w.kind /\ s.name = w.name /\ w.ns = Unset
      BY <2>1, <3>1
    <3> QED  BY <1>1, <1>3, <2>3, <3>2
  <2> QED  BY <2>2, <2>3
<1> QED  BY <1>4 DEF Names

\* The roles a binding gives are those it refers to.
LEMMA ReferredRoles ==
  ASSUME IndInv, NEW b
  PROVE  BoundRole(facts, b) = {r \in Roles : RefersTo(b, r)}
BY FactsApart DEF BoundRole, Roles, RoleKinds, OfKind, RefersTo, ClusterWide

\* An edge between an identity and a role stands for a binding that is not foreign.
LEMMA EdgeOfBinding ==
  ASSUME IndInv, stage = "built", NEW w \in Who, NEW r \in Roles,
         NEW e \in edges, e.kind = "RoleBound", e.from = EdgeID(w), e.to = EdgeID(r)
  PROVE  \E b \in Bindings(facts) : Names(b, w) /\ RefersTo(b, r) /\ ~Foreign(b, w)
<1>1. w \in facts /\ r \in facts
  BY DEF Who, Roles, OfKind
<1>2. e \in RoleBound(facts)
  BY EveryEdge DEF FromRule
<1>3. PICK g \in Bonds(facts) : e.from = EdgeID(g.who) /\ e.to = EdgeID(g.role)
  BY <1>2 DEF RoleBound
<1>4. g.who = w /\ g.role = r
  <2>1. g.who \in facts /\ g.role \in facts
    BY BondFacts
  <2>2. EdgeID(g.who) = EdgeID(w) /\ EdgeID(g.role) = EdgeID(r)
    BY <1>3
  <2>3. \A x, y \in facts : EdgeID(x) = EdgeID(y) => x = y
    BY DEF IndInv, Origins
  <2> QED  BY <1>1, <2>1, <2>2, <2>3
<1>5. PICK b \in Bindings(facts) :
        g \in {[binding |-> EdgeID(b), ns |-> b.ns, role |-> x, who |-> y] :
                 x \in BoundRole(facts, b),
                 y \in UNION {resolveSubject(facts, b.ns, s) : s \in b.subjects}}
  BY DEF Bonds
<1>6. r \in BoundRole(facts, b) /\ w \in UNION {resolveSubject(facts, b.ns, s) : s \in b.subjects}
  <2>1. PICK x \in BoundRole(facts, b),
             y \in UNION {resolveSubject(facts, b.ns, s) : s \in b.subjects} :
               g = [binding |-> EdgeID(b), ns |-> b.ns, role |-> x, who |-> y]
    BY <1>5
  <2>2. g.role = x /\ g.who = y
    BY <2>1
  <2> QED  BY <1>4, <2>1, <2>2
<1>7. PICK s \in b.subjects : w \in resolveSubject(facts, b.ns, s)
  BY <1>6
<1>8. Names(b, w) /\ ~Foreign(b, w)
  BY <1>7 DEF resolveSubject, Names, Foreign
<1> QED  BY <1>6, <1>8, ReferredRoles

\* PermissionsAgree, whatever was collected: the permissions shown on the node of an
\* identity are those its edges to roles stand for.
THEOREM PermissionsAgreeAlways == Spec => []PermissionsAgree
<1>1. IndInv /\ EveryBindingShown => PermissionsAgree
  <2> SUFFICES ASSUME IndInv, EveryBindingShown, stage = "built", NEW w \in Who,
                      NEW i \in SeenAt(EdgeID(w)), NEW bound, NEW rules,
                      bound = {r \in Roles : \E e \in edges :
                        e.kind = "RoleBound" /\ e.from = EdgeID(w) /\ e.to = EdgeID(r)},
                      rules = UNION {BuildRbacRules(r.rules) : r \in bound}
               PROVE  /\ rules \subseteq nodeList[i].permissions
                      /\ \/ \E b \in Bindings(facts) : Names(b, w) /\ Foreign(b, w)
                         \/ rules = nodeList[i].permissions
    BY DEF PermissionsAgree
  <2> DEFINE Given(b) == UNION {BuildRbacRules(r.rules) : r \in BoundRole(facts, b)}
  <2>1. nodeList[i].permissions = PermissionsOf(EdgeID(w))
    BY DEF IndInv, Enriched
  <2>2. \A x : x \in PermissionsOf(EdgeID(w)) <=>
          \E b \in Bindings(facts) : Names(b, w) /\ x \in Given(b)
    <3> DEFINE naming == {b \in Bindings(facts) : Names(b, w)}
               each == {Given(b) : b \in naming}
    <3>1. naming = {b \in Bindings(facts) :
                      EdgeID(w) \in UNION {subjectNodeID(b.ns, s) : s \in b.subjects}}
      BY NamedNodes
    <3>2. PermissionsOf(EdgeID(w)) = UNION each
      BY <3>1 DEF PermissionsOf
    <3> HIDE DEF Given
    <3> QED  BY <3>2
  <2>3. \A b \in Bindings(facts) : \A x : x \in Given(b) <=>
          \E r \in Roles : RefersTo(b, r) /\ x \in BuildRbacRules(r.rules)
    BY ReferredRoles
  <2> HIDE DEF Given
  <2>4. \A x : x \in rules <=> \E r \in bound : x \in BuildRbacRules(r.rules)
    OBVIOUS
  <2>5. ASSUME NEW x \in rules PROVE x \in PermissionsOf(EdgeID(w))
    <3>1. PICK r \in bound : x \in BuildRbacRules(r.rules)
      BY <2>4
    <3>2. PICK b \in Bindings(facts) : Names(b, w) /\ RefersTo(b, r)
      BY EdgeOfBinding
    <3> QED  BY <2>2, <2>3, <3>1, <3>2
  <2>6. ASSUME \A b \in Bindings(facts) : Names(b, w) => ~Foreign(b, w),
               NEW x \in PermissionsOf(EdgeID(w))
        PROVE  x \in rules
    <3>1. PICK b \in Bindings(facts) : Names(b, w) /\ x \in Given(b)
      BY <2>2
    <3>2. PICK r \in Roles : RefersTo(b, r) /\ x \in BuildRbacRules(r.rules)
      BY <2>3, <3>1
    <3>3. r \in bound
      BY <2>6, <3>1, <3>2 DEF EveryBindingShown
    <3> QED  BY <2>4, <3>2, <3>3
  <2> QED  BY <2>1, <2>5, <2>6
<1> QED  BY <1>1, GraphInvariance, EveryBindingShownAlways, PTL

\* Of edges that say the same of two nodes one is left.
LEMMA TwinLeft ==
  ASSUME NEW E, NEW D \in DeduplicateEdges(E), NEW e \in E
  PROVE  \E d \in D : d.kind = e.kind /\ d.from = e.from /\ d.to = e.to
<1> DEFINE Same(x) == {f \in E : f.kind = x.kind /\ f.from = x.from /\ f.to = x.to}
           twice == {x \in E : Same(x) # {x}}
<1>1. PICK K \in SUBSET twice :
        D = (E \ twice) \cup K /\ \A x \in twice : Cardinality(K \cap Same(x)) = 1
  BY DEF DeduplicateEdges
<1>2. \A f \in Same(e) : f.kind = e.kind /\ f.from = e.from /\ f.to = e.to
  OBVIOUS
<1> HIDE DEF Same
<1>3. CASE e \in twice
  <2>1. K \cap Same(e) # {}
    BY <1>1, <1>3, FS_EmptySet
  <2> QED  BY <1>1, <1>2, <2>1
<1>4. CASE e \notin twice
  BY <1>1, <1>4
<1> QED  BY <1>3, <1>4

LEMMA EdgeLeft ==
  ASSUME IndInv, stage = "built", NEW e \in RuleEdges(facts)
  PROVE  \E d \in edges : d.kind = e.kind /\ d.from = e.from /\ d.to = e.to
BY TwinLeft DEF IndInv, Drawn

\* No kind is an aggregate's, and an aggregate is of one kind.
LEMMA KindsApart ==
  /\ \A k \in SpacedKinds : /\ k \notin MadeKinds
                            /\ AggregateOf[k] \in AggregateKinds
  /\ \A k \in SpacedKinds, j \in SpacedKinds \cup {"ClusterRole"} :
       AggregateOf[j] # k /\ (AggregateOf[j] = AggregateOf[k] => j = k)
  /\ "ClusterRole" \notin SpacedKinds /\ "ClusterRole" \notin AggregateKinds
<1>1. "ClusterRole" \notin SpacedKinds /\ "ClusterRole" \notin AggregateKinds
  BY DEF SpacedKinds, AggregateKinds, AggregateOf
<1>2. ASSUME NEW k \in SpacedKinds
      PROVE  k \notin MadeKinds /\ AggregateOf[k] \in AggregateKinds
  BY DEF SpacedKinds, MadeKinds, NamedKinds, AggregateKinds, AggregateOf
<1>3. ASSUME NEW k \in SpacedKinds, NEW j \in SpacedKinds \cup {"ClusterRole"}
      PROVE  AggregateOf[j] # k /\ (AggregateOf[j] = AggregateOf[k] => j = k)
  BY DEF SpacedKinds, AggregateOf
<1> QED  BY <1>1, <1>2, <1>3

LEMMA PodKinds == "Pod" \in SpacedKinds /\ AggregateOf["Pod"] = "AllPods"
BY DEF SpacedKinds, AggregateOf

LEMMA CreatedEdge ==
  ASSUME NEW who, NEW targets, NEW kind, NEW e \in CreateEdges(who, targets, kind)
  PROVE  /\ e.kind = kind /\ e.from = EdgeID(who) /\ e.props = {}
         /\ \E t \in targets : e.to = EdgeID(t)
BY DEF CreateEdges

LEMMA CreatesEdge ==
  ASSUME NEW who, NEW targets, NEW kind, NEW t \in targets
  PROVE  \E e \in CreateEdges(who, targets, kind) :
           e.kind = kind /\ e.from = EdgeID(who) /\ e.to = EdgeID(t)
<1> DEFINE e == [kind |-> kind, from |-> EdgeID(who), to |-> EdgeID(t), props |-> {}]
<1>1. e \in CreateEdges(who, targets, kind)
  BY DEF CreateEdges
<1>2. e.kind = kind /\ e.from = EdgeID(who) /\ e.to = EdgeID(t)
  OBVIOUS
<1> QED  BY <1>1, <1>2

\* What a containment edge joins.
LEMMA ContainedIn ==
  ASSUME NEW F, NEW e \in ContainsEdges(F)
  PROVE  \E k \in SpacedKinds \cup {"ClusterRole"}, a \in F, o \in F :
           /\ e.from = EdgeID(a) /\ e.to = EdgeID(o) /\ a.kind = AggregateOf[k]
           /\ \/ o.kind = k /\ a.ns = o.ns
              \/ o.kind = "ClusterRole" /\ k = "ClusterRole"
              \/ o.kind = AggregateOf[k] /\ a.ns = Unset
<1> DEFINE Holds(k, ns, members) ==
             UNION {CreateEdges(a, members, "Contains") : a \in Aggregate(F, k, ns)}
           Of(k, ns) == Holds(k, ns, InSpace(F, k, ns)) \cup Holds(k, Unset, Aggregate(F, k, ns))
           each == {Of(k, ns) : k \in SpacedKinds, ns \in Spaces(F)}
           roles == Holds("ClusterRole", Unset, OfKind(F, "ClusterRole"))
<1>1. ContainsEdges(F) = (UNION each) \cup roles
  BY DEF ContainsEdges
<1>2. ASSUME NEW k, NEW ns, NEW members \in SUBSET F, e \in Holds(k, ns, members)
      PROVE  \E a \in F, o \in members : /\ e.from = EdgeID(a) /\ e.to = EdgeID(o)
                                         /\ a.kind = AggregateOf[k] /\ a.ns = ns
  <2>1. PICK a \in Aggregate(F, k, ns) : e \in CreateEdges(a, members, "Contains")
    BY <1>2
  <2>2. a \in F /\ a.kind = AggregateOf[k] /\ a.ns = ns
    BY DEF Aggregate, InSpace
  <2> QED  BY <2>1, <2>2, CreatedEdge
<1>3. \A k, ns : e \in Of(k, ns) => e \in Holds(k, ns, InSpace(F, k, ns))
                                      \/ e \in Holds(k, Unset, Aggregate(F, k, ns))
  OBVIOUS
<1>4. e \in UNION each => \E k \in SpacedKinds, ns \in Spaces(F) : e \in Of(k, ns)
  OBVIOUS
<1> HIDE DEF Holds, Of, each
<1>5. CASE e \in UNION each
  <2>1. PICK k \in SpacedKinds, ns \in Spaces(F) :
          e \in Holds(k, ns, InSpace(F, k, ns)) \/ e \in Holds(k, Unset, Aggregate(F, k, ns))
    BY <1>3, <1>4, <1>5
  <2>2. CASE e \in Holds(k, ns, InSpace(F, k, ns))
    <3>1. InSpace(F, k, ns) \subseteq F /\ \A o \in InSpace(F, k, ns) : o.kind = k /\ o.ns = ns
      BY DEF InSpace
    <3>2. PICK a \in F, o \in InSpace(F, k, ns) :
            /\ e.from = EdgeID(a) /\ e.to = EdgeID(o) /\ a.kind = AggregateOf[k] /\ a.ns = ns
      BY <1>2, <2>2, <3>1
    <3> QED  BY <3>1, <3>2
  <2>3. CASE e \in Holds(k, Unset, Aggregate(F, k, ns))
    <3>1. Aggregate(F, k, ns) \subseteq F /\ \A o \in Aggregate(F, k, ns) : o.kind = AggregateOf[k]
      BY DEF InSpace, Aggregate
    <3>2. PICK a \in F, o \in Aggregate(F, k, ns) :
            /\ e.from = EdgeID(a) /\ e.to = EdgeID(o) /\ a.kind = AggregateOf[k] /\ a.ns = Unset
      BY <1>2, <2>3, <3>1
    <3> QED  BY <3>1, <3>2
  <2> QED  BY <2>1, <2>2, <2>3
<1>6. CASE e \in roles
  <2>1. OfKind(F, "ClusterRole") \subseteq F /\ \A o \in OfKind(F, "ClusterRole") : o.kind = "ClusterRole"
    BY DEF OfKind
  <2>2. PICK a \in F, o \in OfKind(F, "ClusterRole") :
          /\ e.from = EdgeID(a) /\ e.to = EdgeID(o) /\ a.kind = AggregateOf["ClusterRole"]
    BY <1>2, <1>6, <2>1
  <2> QED  BY <2>1, <2>2
<1> QED  BY <1>1, <1>5, <1>6

\* An aggregate contains the objects of its namespace, and that of the cluster contains it.
LEMMA ContainsMembers ==
  ASSUME NEW F, NEW k \in SpacedKinds, NEW ns \in Spaces(F), NEW a \in Aggregate(F, k, ns)
  PROVE  /\ \A o \in InSpace(F, k, ns) : \E e \in ContainsEdges(F) :
              e.kind = "Contains" /\ e.from = EdgeID(a) /\ e.to = EdgeID(o)
         /\ \A o \in Aggregate(F, k, Unset) : \E e \in ContainsEdges(F) :
              e.kind = "Contains" /\ e.from = EdgeID(o) /\ e.to = EdgeID(a)
<1> DEFINE Holds(j, space, members) ==
             UNION {CreateEdges(x, members, "Contains") : x \in Aggregate(F, j, space)}
           Of(j, space) == Holds(j, space, InSpace(F, j, space))
                           \cup Holds(j, Unset, Aggregate(F, j, space))
           each == {Of(j, space) : j \in SpacedKinds, space \in Spaces(F)}
<1>1. UNION each \subseteq ContainsEdges(F)
  BY DEF ContainsEdges
<1>2. ASSUME NEW space, NEW members, NEW x \in Aggregate(F, k, space), NEW o \in members
      PROVE  \E e \in Holds(k, space, members) :
               e.kind = "Contains" /\ e.from = EdgeID(x) /\ e.to = EdgeID(o)
  <2>1. PICK e \in CreateEdges(x, members, "Contains") :
          e.kind = "Contains" /\ e.from = EdgeID(x) /\ e.to = EdgeID(o)
    BY CreatesEdge
  <2> QED  BY <2>1
<1>3. /\ Holds(k, ns, InSpace(F, k, ns)) \subseteq Of(k, ns)
      /\ Holds(k, Unset, Aggregate(F, k, ns)) \subseteq Of(k, ns)
  OBVIOUS
<1> HIDE DEF Of, Holds
<1>4. Of(k, ns) \in each
  OBVIOUS
<1> HIDE DEF each
<1>5. Of(k, ns) \subseteq ContainsEdges(F)
  BY <1>1, <1>4
<1> QED  BY <1>2, <1>3, <1>5

-----------------------------------------------------------------------------
(* Two readings of the network policies. *)

LEMMA OneFact ==
  ASSUME IndInv, NEW a \in facts, NEW b \in facts, EdgeID(a) = EdgeID(b)
  PROVE  a = b
BY DEF IndInv, Origins

\* A route that ends at a pod is a service's, and says what is known of the pod.
LEMMA RouteToPod ==
  ASSUME IndInv, stage = "built", NEW e \in edges, NEW p \in Pods(facts),
         e.kind = "RoutesTo", e.to = EdgeID(p)
  PROVE  e.props = IF podSelectedByNetworkPolicy(facts, p) THEN {<<"networkPolicyRestricted">>} ELSE {}
<1>0. p \in facts /\ p.kind = "Pod"
  BY DEF Pods, OfKind
<1>1. e \in serviceRoutesTo(facts) \cup routeBackendsToServices(facts) \cup gatewayRouteEdges(facts)
  BY EveryEdge DEF FromRule
<1>2. e \notin routeBackendsToServices(facts)
  <2> SUFFICES ASSUME e \in routeBackendsToServices(facts) PROVE FALSE
    OBVIOUS
  <2> DEFINE services(r) == UNION {NamedIn(facts, "Service", IF b.ns = Unset THEN r.ns ELSE b.ns, b.name) :
                              b \in {x \in r.backends : x.name # Unset}}
  <2>1. \A r : \A o \in services(r) : o.kind = "Service"
    BY DEF NamedIn, InSpace
  <2>2. PICK r \in UNION {OfKind(facts, k) : k \in BackendKinds} :
          e \in CreateEdges(r, services(r), "RoutesTo")
    BY DEF routeBackendsToServices
  <2> HIDE DEF services
  <2>3. PICK o \in services(r) : e.to = EdgeID(o)
    BY <2>2, CreatedEdge
  <2> QED  BY <1>0, <2>1, <2>3, SameID
<1>3. e \notin gatewayRouteEdges(facts)
  <2> SUFFICES ASSUME e \in gatewayRouteEdges(facts) PROVE FALSE
    OBVIOUS
  <2> DEFINE routes(g) == {r \in UNION {OfKind(facts, k) : k \in RouteKinds} :
                             [ns |-> g.ns, name |-> g.name] \in r.parents}
  <2>1. \A g : \A o \in routes(g) : o.kind # "Pod"
    BY DEF OfKind, RouteKinds
  <2>2. PICK g \in OfKind(facts, "Gateway") : e \in CreateEdges(g, routes(g), "RoutesTo")
    BY DEF gatewayRouteEdges
  <2> HIDE DEF routes
  <2>3. PICK o \in routes(g) : e.to = EdgeID(o)
    BY <2>2, CreatedEdge
  <2> QED  BY <1>0, <2>1, <2>3, SameID
<1> DEFINE props(x) == IF podSelectedByNetworkPolicy(facts, x) THEN {<<"networkPolicyRestricted">>}
                       ELSE {}
<1>4. PICK s \in facts : \E x \in PodsOf(facts, s) : e \in Marked(s, x, "RoutesTo", props(x))
  BY <1>1, <1>2, <1>3 DEF serviceRoutesTo, OfKind
<1> HIDE DEF props
<1>5. PICK x \in PodsOf(facts, s) : e.to = EdgeID(x) /\ e.props = props(x)
  BY <1>4 DEF Marked
<1>6. x \in facts
  BY LookedUp
<1>7. x = p
  BY <1>0, <1>5, <1>6, OneFact
<1> QED  BY <1>5, <1>7 DEF props

\* The kinds of policies and their pods.
LEMMA PolicyFacts ==
  ASSUME IndInv, NEW np \in OfKind(facts, "NetworkPolicy")
  PROVE  np \in facts /\ np.kind = "NetworkPolicy" /\ np.ns # Unset
<1>1. np \in facts /\ np.kind = "NetworkPolicy"
  BY DEF OfKind
<1>2. "NetworkPolicy" \notin MadeKinds
  BY DEF MadeKinds, NamedKinds, AggregateKinds, AggregateOf
<1> QED  BY <1>1, <1>2, FactServed DEF Served

LEMMA PodFacts ==
  ASSUME IndInv, NEW p \in Pods(facts)
  PROVE  p \in facts /\ p.kind = "Pod" /\ p.ns # Unset /\ Contained(p)
<1>1. p \in facts /\ p.kind = "Pod"
  BY DEF Pods, OfKind
<1>2. "Pod" \notin MadeKinds
  BY PodKinds, KindsApart
<1> QED  BY <1>1, <1>2, FactServed, PodKinds DEF Served

\* What an edge of a policy leads to.
LEMMA PolicyEdge ==
  ASSUME IndInv, NEW e \in networkPolicyEdges(facts)
  PROVE  \E np \in OfKind(facts, "NetworkPolicy"), t \in facts :
           /\ e.to = EdgeID(t) /\ t.ns = np.ns
           /\ \/ np.selector = {} /\ t.kind = "AllPods"
              \/ t.kind = "Pod" /\ LabelsMatchOnly(t.labels, np.selector)
<1> DEFINE targets(np) == IF np.selector = {} THEN Aggregate(facts, "Pod", np.ns)
             ELSE {p \in PodsOf(facts, np) : LabelsMatchOnly(p.labels, np.selector)}
<1>1. PICK np \in OfKind(facts, "NetworkPolicy") : e \in CreateEdges(np, targets(np), "AppliesTo")
  BY DEF networkPolicyEdges
<1>2. \A t \in targets(np) :
        /\ t \in facts /\ t.ns = np.ns
        /\ \/ np.selector = {} /\ t.kind = "AllPods"
           \/ t.kind = "Pod" /\ LabelsMatchOnly(t.labels, np.selector)
  BY PodKinds DEF Aggregate, PodsOf, InSpace
<1> HIDE DEF targets
<1> QED  BY <1>1, <1>2, CreatedEdge

LEMMA PolicyHasEdge ==
  ASSUME IndInv, NEW np \in OfKind(facts, "NetworkPolicy"),
         NEW t \in facts, t.ns = np.ns,
         \/ np.selector = {} /\ t.kind = "AllPods"
         \/ np.selector # {} /\ t.kind = "Pod" /\ LabelsMatchOnly(t.labels, np.selector)
  PROVE  \E e \in RuleEdges(facts) : e.kind = "AppliesTo" /\ e.to = EdgeID(t)
<1> DEFINE targets == IF np.selector = {} THEN Aggregate(facts, "Pod", np.ns)
             ELSE {p \in PodsOf(facts, np) : LabelsMatchOnly(p.labels, np.selector)}
<1>1. t \in targets
  BY PodKinds DEF Aggregate, PodsOf, InSpace
<1>2. CreateEdges(np, targets, "AppliesTo") \subseteq networkPolicyEdges(facts)
  BY DEF networkPolicyEdges
<1> HIDE DEF targets
<1>3. networkPolicyEdges(facts) \subseteq RuleEdges(facts)
  BY DEF RuleEdges, ExposureEdges
<1> QED  BY <1>1, <1>2, <1>3, CreatesEdge

\* What contains an object of a kind, or its aggregate.
LEMMA Above ==
  ASSUME IndInv, stage = "built", NEW g \in edges, g.kind = "Contains", NEW k \in SpacedKinds,
         NEW t \in facts, g.to = EdgeID(t), t.kind \in {k, AggregateOf[k]}
  PROVE  \E a \in facts : /\ g.from = EdgeID(a) /\ a.kind = AggregateOf[k]
                          /\ IF t.kind = k THEN a.ns = t.ns ELSE a.ns = Unset
<1>1. g \in ContainsEdges(facts)
  BY EveryEdge DEF FromRule
<1>2. PICK j \in SpacedKinds \cup {"ClusterRole"}, a \in facts, o \in facts :
        /\ g.from = EdgeID(a) /\ g.to = EdgeID(o) /\ a.kind = AggregateOf[j]
        /\ \/ o.kind = j /\ a.ns = o.ns
           \/ o.kind = "ClusterRole" /\ j = "ClusterRole"
           \/ o.kind = AggregateOf[j] /\ a.ns = Unset
  BY <1>1, ContainedIn
<1>3. o.kind = t.kind /\ o.ns = t.ns
  BY <1>2, SameID
<1>4. AggregateOf[k] \in AggregateKinds /\ k \notin AggregateKinds
  BY KindsApart DEF MadeKinds
<1>5. \A i \in SpacedKinds \cup {"ClusterRole"} : i \notin AggregateKinds
  BY KindsApart DEF MadeKinds
<1>6. AggregateOf[j] # k /\ (AggregateOf[j] = AggregateOf[k] => j = k)
  BY KindsApart
<1>7. k # "ClusterRole"
  BY KindsApart
<1> QED  BY <1>2, <1>3, <1>4, <1>5, <1>6, <1>7

\* An edge reaches an object directly or through the aggregates of its kind.
LEMMA ReachesObject ==
  ASSUME IndInv, stage = "built", NEW k \in SpacedKinds, NEW t \in OfKind(facts, k),
         NEW e, Reaches(e, EdgeID(t))
  PROVE  \/ e.to = EdgeID(t)
         \/ \E a \in facts : e.to = EdgeID(a) /\ a.kind = AggregateOf[k] /\ a.ns \in {t.ns, Unset}
<1> DEFINE Up(ids) == {g.from : g \in {x \in edges : x.kind = "Contains" /\ x.to \in ids}}
           id == EdgeID(t)
<1>0. t \in facts /\ t.kind = k /\ AggregateOf[k] # k
  BY KindsApart DEF OfKind
<1>1. e.to \in {id} \cup Up({id}) \cup Up(Up({id}))
  BY DEF Reaches
<1>2. \A ids : \A y \in Up(ids) : \E g \in edges : g.kind = "Contains" /\ g.to \in ids /\ g.from = y
  OBVIOUS
<1> HIDE DEF Up, id
<1>3. ASSUME NEW y \in Up({id})
      PROVE  \E a \in facts : y = EdgeID(a) /\ a.kind = AggregateOf[k] /\ a.ns = t.ns
  <2>1. PICK g \in edges : g.kind = "Contains" /\ g.to = EdgeID(t) /\ g.from = y
    BY <1>2 DEF id
  <2> QED  BY <1>0, <2>1, Above
<1>4. ASSUME NEW y \in Up(Up({id}))
      PROVE  \E a \in facts : y = EdgeID(a) /\ a.kind = AggregateOf[k] /\ a.ns = Unset
  <2>1. PICK g \in edges : g.kind = "Contains" /\ g.to \in Up({id}) /\ g.from = y
    BY <1>2
  <2>2. PICK x \in facts : g.to = EdgeID(x) /\ x.kind = AggregateOf[k]
    BY <1>3, <2>1
  <2> QED  BY <1>0, <2>1, <2>2, Above
<1> QED  BY <1>1, <1>3, <1>4 DEF id

\* The aggregate of an object's namespace and that of the cluster are in the graph, and
\* above the object.
LEMMA AboveObject ==
  ASSUME IndInv, stage = "built", NEW k \in SpacedKinds, NEW t \in OfKind(facts, k),
         NEW ns \in {t.ns, Unset}, ns = Unset => k \in ClusterKinds
  PROVE  \E a \in Aggregate(facts, k, ns) : \A e : e.to = EdgeID(a) => Reaches(e, EdgeID(t))
<1> DEFINE near == AggregateObject(k, t.ns)
           Up(ids) == {g.from : g \in {x \in edges : x.kind = "Contains" /\ x.to \in ids}}
           id == EdgeID(t)
<1>1. t \in facts /\ t.kind = k
  BY DEF OfKind
<1>2. t.ns # Unset
  <2>1. k \notin MadeKinds
    BY KindsApart
  <2> QED  BY <1>1, <2>1, FactServed DEF Served
<1>3. near \in facts /\ (k \in ClusterKinds => AggregateObject(k, Unset) \in facts)
  BY <1>1 DEF IndInv, Aggregated, Early
<1>4. \A x : AggregateObject(k, x) \in facts => AggregateObject(k, x) \in Aggregate(facts, k, x)
  BY DEF AggregateObject, Aggregate, InSpace
<1>5. near \in Aggregate(facts, k, t.ns) /\ t.ns \in Spaces(facts) /\ t \in InSpace(facts, k, t.ns)
  BY <1>1, <1>2, <1>3, <1>4 DEF Spaces, InSpace
<1>6. \A e : Reaches(e, id) <=> e.to \in {id} \cup Up({id}) \cup Up(Up({id}))
  BY DEF Reaches
<1>7. \A ids : \A g \in edges : g.kind = "Contains" /\ g.to \in ids => g.from \in Up(ids)
  OBVIOUS
<1> HIDE DEF near, Up, id
<1>8. ContainsEdges(facts) \subseteq RuleEdges(facts)
  BY DEF RuleEdges
<1>9. EdgeID(near) \in Up({id})
  <2>1. PICK r \in ContainsEdges(facts) :
          r.kind = "Contains" /\ r.from = EdgeID(near) /\ r.to = EdgeID(t)
    <3> DEFINE ms == t.ns
    <3>1. near \in Aggregate(facts, k, ms) /\ ms \in Spaces(facts) /\ t \in InSpace(facts, k, ms)
      BY <1>5
    <3> HIDE DEF ms
    <3>2. \A o \in InSpace(facts, k, ms) : \E r \in ContainsEdges(facts) :
            r.kind = "Contains" /\ r.from = EdgeID(near) /\ r.to = EdgeID(o)
      BY <3>1, ContainsMembers
    <3> QED  BY <3>1, <3>2
  <2>2. PICK g \in edges : g.kind = "Contains" /\ g.from = EdgeID(near) /\ g.to = EdgeID(t)
    BY <1>8, <2>1, EdgeLeft
  <2> QED  BY <1>7, <2>2 DEF id
<1>10. CASE ns = t.ns
  BY <1>5, <1>6, <1>9, <1>10 DEF id
<1>11. CASE ns # t.ns
  <2>1. PICK far \in Aggregate(facts, k, Unset) : TRUE
    BY <1>3, <1>4, <1>11
  <2>2. PICK r \in ContainsEdges(facts) :
          r.kind = "Contains" /\ r.from = EdgeID(far) /\ r.to = EdgeID(near)
    <3> DEFINE ms == t.ns
    <3>1. near \in Aggregate(facts, k, ms) /\ ms \in Spaces(facts)
      BY <1>5
    <3> HIDE DEF ms
    <3>2. \A o \in Aggregate(facts, k, Unset) : \E r \in ContainsEdges(facts) :
            r.kind = "Contains" /\ r.from = EdgeID(o) /\ r.to = EdgeID(near)
      BY <3>1, ContainsMembers
    <3> QED  BY <2>1, <3>2
  <2>3. PICK g \in edges : g.kind = "Contains" /\ g.from = EdgeID(far) /\ g.to = EdgeID(near)
    BY <1>8, <2>2, EdgeLeft
  <2>4. EdgeID(far) \in Up(Up({id}))
    BY <1>7, <1>9, <2>3
  <2> QED  BY <1>6, <1>11, <2>4 DEF id
<1> QED  BY <1>10, <1>11

LEMMA PolicyShown ==
  ASSUME IndInv, stage = "built", NEW p \in Pods(facts)
  PROVE  podSelectedByNetworkPolicy(facts, p) <=>
           \E e \in edges : e.kind = "AppliesTo" /\ Reaches(e, EdgeID(p))
<1>0. p \in facts /\ p.kind = "Pod" /\ p.ns # Unset
  BY PodFacts
<1>1. ASSUME podSelectedByNetworkPolicy(facts, p)
      PROVE  \E e \in edges : e.kind = "AppliesTo" /\ Reaches(e, EdgeID(p))
  <2>1. PICK np \in OfKind(facts, "NetworkPolicy") :
          np.ns = p.ns /\ LabelsMatchOnly(p.labels, np.selector)
    BY <1>1 DEF podSelectedByNetworkPolicy, OfKind, InSpace
  <2>2. CASE np.selector = {}
    <3>1. PICK a \in Aggregate(facts, "Pod", p.ns) :
            \A e : e.to = EdgeID(a) => Reaches(e, EdgeID(p))
      BY <1>0, PodKinds, AboveObject DEF Pods
    <3>2. a \in facts /\ a.kind = "AllPods" /\ a.ns = p.ns
      BY PodKinds DEF Aggregate, InSpace
    <3>3. PICK r \in RuleEdges(facts) : r.kind = "AppliesTo" /\ r.to = EdgeID(a)
      BY <2>1, <2>2, <3>2, PolicyHasEdge
    <3>4. PICK e \in edges : e.kind = "AppliesTo" /\ e.to = EdgeID(a)
      BY <3>3, EdgeLeft
    <3> QED  BY <3>1, <3>4
  <2>3. CASE np.selector # {}
    <3>1. PICK r \in RuleEdges(facts) : r.kind = "AppliesTo" /\ r.to = EdgeID(p)
      BY <1>0, <2>1, <2>3, PolicyHasEdge
    <3>2. PICK e \in edges : e.kind = "AppliesTo" /\ e.to = EdgeID(p)
      BY <3>1, EdgeLeft
    <3>3. Reaches(e, EdgeID(p))
      BY <3>2 DEF Reaches
    <3> QED  BY <3>2, <3>3
  <2> QED  BY <2>2, <2>3
<1>2. ASSUME NEW e \in edges, e.kind = "AppliesTo", Reaches(e, EdgeID(p))
      PROVE  podSelectedByNetworkPolicy(facts, p)
  <2>1. e \in networkPolicyEdges(facts)
    BY <1>2, EveryEdge DEF FromRule
  <2>2. PICK np \in OfKind(facts, "NetworkPolicy"), t \in facts :
          /\ e.to = EdgeID(t) /\ t.ns = np.ns
          /\ \/ np.selector = {} /\ t.kind = "AllPods"
             \/ t.kind = "Pod" /\ LabelsMatchOnly(t.labels, np.selector)
    BY <2>1, PolicyEdge
  <2>3. np.ns # Unset /\ np \in InSpace(facts, "NetworkPolicy", np.ns)
    BY PolicyFacts DEF InSpace
  <2>4. CASE e.to = EdgeID(p)
    <3>1. t = p
      BY <1>0, <2>2, <2>4, OneFact
    <3>2. LabelsMatchOnly(p.labels, np.selector) /\ np.ns = p.ns
      BY <1>0, <2>2, <3>1
    <3> QED  BY <2>3, <3>2 DEF podSelectedByNetworkPolicy
  <2>5. CASE e.to # EdgeID(p)
    <3>1. PICK a \in facts : e.to = EdgeID(a) /\ a.kind = "AllPods" /\ a.ns \in {p.ns, Unset}
      BY <1>2, <2>5, ReachesObject, PodKinds DEF Pods
    <3>2. t = a
      BY <2>2, <3>1, OneFact
    <3>3. np.selector = {} /\ np.ns = p.ns
      BY <2>2, <2>3, <3>1, <3>2
    <3>4. LabelsMatchOnly(p.labels, np.selector)
      BY <3>3 DEF LabelsMatchOnly
    <3> QED  BY <2>3, <3>3, <3>4 DEF podSelectedByNetworkPolicy
  <2> QED  BY <2>4, <2>5
<1> QED  BY <1>1, <1>2

\* RoutesMarked, whatever was collected: service.go and network_policy.go agree on
\* every pod, the pods under a policy for all of a namespace among them.
THEOREM RoutesMarkedAlways == Spec => []RoutesMarked
<1>1. IndInv => RoutesMarked
  <2> SUFFICES ASSUME IndInv, stage = "built", NEW e \in edges, NEW p \in Pods(facts),
                      e.kind = "RoutesTo", e.to = EdgeID(p)
               PROVE  e.props = {<<"networkPolicyRestricted">>} <=>
                        \E f \in edges : f.kind = "AppliesTo" /\ Reaches(f, EdgeID(p))
    BY DEF RoutesMarked
  <2>1. e.props = IF podSelectedByNetworkPolicy(facts, p) THEN {<<"networkPolicyRestricted">>} ELSE {}
    BY RouteToPod
  <2>2. e.props = {<<"networkPolicyRestricted">>} <=> podSelectedByNetworkPolicy(facts, p)
    <3> DEFINE mark == <<"networkPolicyRestricted">>
    <3> HIDE DEF mark
    <3>1. {mark} # {}
      OBVIOUS
    <3> QED  BY <2>1, <3>1 DEF mark
  <2> QED  BY <2>2, PolicyShown
<1> QED  BY <1>1, GraphInvariance, PTL

-----------------------------------------------------------------------------
(* Two readings of the environment. *)

\* Where what is shown of an environment comes from.
LEMMA EnvSources ==
  ASSUME NEW F, NEW p
  PROVE  /\ \A d \in Definitions(p) : \E x \in podEnv(F, p) : x.def = d
         /\ \A x \in podEnv(F, p) :
              x.source = EdgeID(p) \/ \E o \in EnvControllers(F, p) : x.source = EdgeID(o)
<1> DEFINE Having(d, k) == {o \in EnvControllers(F, p) : o.kind = k /\ d \in Definitions(o)}
           kinds(d) == {i \in DOMAIN ControllerOrder : Having(d, ControllerOrder[i]) # {}}
           Source(d) == IF kinds(d) = {} THEN p
                        ELSE CHOOSE o \in Having(d, ControllerOrder[Min(kinds(d))]) : TRUE
           all == UNION {Definitions(o) : o \in {p} \cup EnvControllers(F, p)}
           Entry(d) == [def |-> d, source |-> EdgeID(Source(d))]
<1>1. podEnv(F, p) = {Entry(d) : d \in all}
  BY DEF podEnv
<1>2. ASSUME NEW d PROVE Source(d) \in {p} \cup EnvControllers(F, p)
  <2>1. CASE kinds(d) = {}
    BY <2>1
  <2>2. CASE kinds(d) # {}
    <3>1. DOMAIN ControllerOrder \subseteq Nat
      BY DEF ControllerOrder
    <3>2. kinds(d) \in SUBSET Nat
      BY <3>1
    <3> DEFINE K == kinds(d)
    <3>3. \A i \in K : Having(d, ControllerOrder[i]) # {}
      OBVIOUS
    <3>4. \A k : Having(d, k) \subseteq EnvControllers(F, p)
      OBVIOUS
    <3>5. Source(d) = CHOOSE o \in Having(d, ControllerOrder[Min(K)]) : TRUE
      BY <2>2
    <3>6. K \in SUBSET Nat /\ K # {}
      BY <3>2, <2>2
    <3> HIDE DEF K, Having, Source, kinds
    <3>7. Min(K) \in K
      BY <3>6, SmallestOf DEF Min
    <3>8. Having(d, ControllerOrder[Min(K)]) # {}
      BY <3>3, <3>7
    <3> QED  BY <3>4, <3>5, <3>8
  <2> QED  BY <2>1, <2>2
<1>3. \A d : Entry(d).def = d /\ Entry(d).source = EdgeID(Source(d))
  OBVIOUS
<1>4. Definitions(p) \subseteq all
  OBVIOUS
<1> HIDE DEF Entry, Source, all
<1> QED  BY <1>1, <1>2, <1>3, <1>4

LEMMA ControllerShown ==
  ASSUME NEW F, NEW p \in Pods(F), NEW o \in EnvControllers(F, p), o.selector # {}
  PROVE  \E e \in RuleEdges(F) : e.kind = "ManagedBy" /\ e.from = EdgeID(o) /\ e.to = EdgeID(p)
<1> DEFINE targets == {x \in PodsOf(F, o) : o.selector # {} /\ LabelsMatchOnly(x.labels, o.selector)}
<1>1. o \in Controllers(F) /\ p \in targets
  BY DEF EnvControllers, PodsOf, InSpace, Pods, OfKind
<1>2. CreateEdges(o, targets, "ManagedBy") \subseteq controllerEdges(F)
  BY <1>1 DEF controllerEdges
<1> HIDE DEF targets
<1>3. controllerEdges(F) \subseteq RuleEdges(F)
  BY DEF RuleEdges, ExposureEdges
<1> QED  BY <1>1, <1>2, <1>3, CreatesEdge

\* The objects an environment may take from.
Given(F, p) == InSpace(F, "Secret", p.ns) \cup InSpace(F, "ConfigMap", p.ns)

LEMMA EnvVarsEdge ==
  ASSUME NEW F, NEW p, NEW e \in envVars(F, p)
  PROVE  \E o \in Given(F, p), way \in {"envFrom", "valueFrom"} :
           e.from = EdgeID(o) /\ e.to = EdgeID(p) /\ Users(p, o, way) # {}
<1> DEFINE Of(x, w) == IF Users(p, x, w) = {} THEN {}
                       ELSE Marked(x, p, "EnvVars", {<<w, c>> : c \in Users(p, x, w)})
<1>1. envVars(F, p) = UNION {Of(x, w) : x \in Given(F, p), w \in {"envFrom", "valueFrom"}}
  BY DEF envVars, Given
<1>2. \A x, w : e \in Of(x, w) => e.from = EdgeID(x) /\ e.to = EdgeID(p) /\ Users(p, x, w) # {}
  BY DEF Marked
<1> HIDE DEF Of
<1>3. PICK o \in Given(F, p), way \in {"envFrom", "valueFrom"} : e \in Of(o, way)
  BY <1>1
<1> QED  BY <1>2, <1>3

LEMMA EnvVarsShown ==
  ASSUME NEW F, NEW p \in Pods(F), NEW o \in Given(F, p), NEW way \in {"envFrom", "valueFrom"},
         Users(p, o, way) # {}
  PROVE  \E e \in RuleEdges(F) : e.kind = "EnvVars" /\ e.from = EdgeID(o) /\ e.to = EdgeID(p)
<1> DEFINE props == {<<way, c>> : c \in Users(p, o, way)}
           e == [kind |-> "EnvVars", from |-> EdgeID(o), to |-> EdgeID(p), props |-> props]
           Of(x, w) == IF Users(p, x, w) = {} THEN {}
                       ELSE Marked(x, p, "EnvVars", {<<w, c>> : c \in Users(p, x, w)})
<1>1. e.kind = "EnvVars" /\ e.from = EdgeID(o) /\ e.to = EdgeID(p)
  OBVIOUS
<1>2. e \in Of(o, way)
  BY DEF Marked
<1>3. envVars(F, p) = UNION {Of(x, w) : x \in Given(F, p), w \in {"envFrom", "valueFrom"}}
  BY DEF envVars, Given
<1>4. envVars(F, p) \subseteq podEdges(F)
  BY DEF podEdges
<1>5. podEdges(F) \subseteq RuleEdges(F)
  BY DEF RuleEdges, ExposureEdges
<1> HIDE DEF e, Of
<1>6. e \in envVars(F, p)
  BY <1>2, <1>3
<1> QED  BY <1>1, <1>4, <1>5, <1>6

\* A container that stays defines a variable from an object exactly when it uses it.
LEMMA Defined ==
  ASSUME NEW p, Contained(p), NEW o, o.kind \in {"Secret", "ConfigMap"}, NEW d \in Definitions(p),
         NEW c \in Containers(p), d.container = c.name, d.kind = o.kind, d.ref = o.name
  PROVE  \E way \in {"envFrom", "valueFrom"} : Users(p, o, way) # {}
<1>1. PICK x \in p.containers : \E v \in x.env :
        d = [container |-> x.name, from |-> v.from, kind |-> v.kind, ref |-> v.ref]
  BY DEF Definitions
<1>2. PICK v \in x.env : d.container = x.name /\ d.kind = v.kind /\ d.ref = v.ref
  BY <1>1
<1>3. x = c
  BY <1>2 DEF Contained, Containers
<1>4. /\ v = [from |-> v.from, kind |-> v.kind, ref |-> v.ref]
      /\ v.kind \in {"Secret", "ConfigMap"} => v.from \in {"envFrom", "valueFrom"}
  BY <1>1 DEF Contained
<1>5. v = [from |-> v.from, kind |-> o.kind, ref |-> o.name] /\ v.from \in {"envFrom", "valueFrom"}
  BY <1>2, <1>4
<1>6. c.name \in Users(p, o, v.from)
  BY <1>1, <1>3, <1>5 DEF Users
<1> QED  BY <1>5, <1>6

LEMMA Used ==
  ASSUME NEW p, NEW o, NEW way, Users(p, o, way) # {}
  PROVE  \E c \in Containers(p), d \in Definitions(p) :
           d.container = c.name /\ d.kind = o.kind /\ d.ref = o.name
<1> DEFINE v == [from |-> way, kind |-> o.kind, ref |-> o.name]
<1>1. PICK c \in Containers(p) : v \in c.env
  BY DEF Users
<1>2. v.from = way /\ v.kind = o.kind /\ v.ref = o.name
  OBVIOUS
<1> HIDE DEF v
<1> DEFINE d == [container |-> c.name, from |-> v.from, kind |-> v.kind, ref |-> v.ref]
<1>3. c \in p.containers
  BY DEF Containers
<1>4. d \in Definitions(p)
  BY <1>1, <1>3 DEF Definitions
<1>5. d.container = c.name /\ d.kind = o.kind /\ d.ref = o.name
  BY <1>2
<1> QED  BY <1>4, <1>5

\* EnvTraced, whatever was collected: the environment of a pod's node and the edges of
\* its controllers, secrets and config maps tell one story.
THEOREM EnvTracedAlways == Spec => []EnvTraced
<1>1. IndInv => EnvTraced
  <2> SUFFICES ASSUME IndInv, stage = "built", NEW p \in Pods(facts), NEW i \in SeenAt(EdgeID(p))
               PROVE  LET env == nodeList[i].env
                          Joined(kind, from) ==
                            \E e \in edges : e.kind = kind /\ e.from = from /\ e.to = EdgeID(p)
                          own == UNION {{x \in env : x.def.container = c.name} : c \in Containers(p)}
                      IN /\ Definitions(p) \subseteq {x.def : x \in env}
                         /\ \A x \in env :
                              \/ x.source = EdgeID(p) \/ Joined("ManagedBy", x.source)
                              \/ \E o \in Controllers(facts) : EdgeID(o) = x.source /\ o.selector = {}
                         /\ \A o \in InSpace(facts, "Secret", p.ns) \cup InSpace(facts, "ConfigMap", p.ns) :
                              Joined("EnvVars", EdgeID(o)) <=>
                                \E x \in own : x.def \in Definitions(p) /\ x.def.kind = o.kind
                                                 /\ x.def.ref = o.name
    BY DEF EnvTraced
  <2> DEFINE env == nodeList[i].env
             own == UNION {{x \in env : x.def.container = c.name} : c \in Containers(p)}
  <2>0. env = podEnv(facts, p)
    BY DEF IndInv, Enriched, ReadDone
  <2>1. Definitions(p) \subseteq {x.def : x \in env}
    BY <2>0, EnvSources
  <2>2. ASSUME NEW x \in env, x.source # EdgeID(p),
               ~\E o \in Controllers(facts) : EdgeID(o) = x.source /\ o.selector = {}
        PROVE  \E e \in edges : e.kind = "ManagedBy" /\ e.from = x.source /\ e.to = EdgeID(p)
    <3>1. PICK o \in EnvControllers(facts, p) : x.source = EdgeID(o)
      BY <2>0, <2>2, EnvSources
    <3>2. o.selector # {}
      BY <2>2, <3>1 DEF EnvControllers
    <3>3. PICK r \in RuleEdges(facts) : r.kind = "ManagedBy" /\ r.from = EdgeID(o) /\ r.to = EdgeID(p)
      BY <3>2, ControllerShown
    <3> QED  BY <3>1, <3>3, EdgeLeft
  <2>3. ASSUME NEW o \in Given(facts, p)
        PROVE  (\E e \in edges : e.kind = "EnvVars" /\ e.from = EdgeID(o) /\ e.to = EdgeID(p)) <=>
                 \E x \in own : x.def \in Definitions(p) /\ x.def.kind = o.kind /\ x.def.ref = o.name
    <3>0. /\ p \in facts /\ Contained(p) /\ o \in facts
          /\ o.kind \in {"Secret", "ConfigMap"}
      BY PodFacts DEF Given, InSpace
    <3>1. \A x : x \in own <=> x \in env /\ \E c \in Containers(p) : x.def.container = c.name
      OBVIOUS
    <3>2. ASSUME NEW e \in edges, e.kind = "EnvVars", e.from = EdgeID(o), e.to = EdgeID(p)
          PROVE  \E x \in own : x.def \in Definitions(p) /\ x.def.kind = o.kind /\ x.def.ref = o.name
      <4>1. PICK q \in Pods(facts) : e \in envVars(facts, q)
        BY <3>2, EveryEdge DEF FromRule
      <4>2. PICK u \in Given(facts, q), way \in {"envFrom", "valueFrom"} :
              e.from = EdgeID(u) /\ e.to = EdgeID(q) /\ Users(q, u, way) # {}
        BY <4>1, EnvVarsEdge
      <4>3. q \in facts /\ u \in facts
        BY DEF Pods, OfKind, Given, InSpace
      <4>4. q = p /\ u = o
        BY <3>0, <3>2, <4>2, <4>3, OneFact
      <4>5. PICK c \in Containers(p), d \in Definitions(p) :
              d.container = c.name /\ d.kind = o.kind /\ d.ref = o.name
        BY <4>2, <4>4, Used
      <4>6. PICK x \in podEnv(facts, p) : x.def = d
        BY EnvSources
      <4> QED  BY <2>0, <3>1, <4>5, <4>6
    <3>3. ASSUME NEW x \in own, x.def \in Definitions(p), x.def.kind = o.kind, x.def.ref = o.name
          PROVE  \E e \in edges : e.kind = "EnvVars" /\ e.from = EdgeID(o) /\ e.to = EdgeID(p)
      <4>1. PICK c \in Containers(p) : x.def.container = c.name
        BY <3>1
      <4>2. PICK d : d = x.def
        OBVIOUS
      <4>3. \E way \in {"envFrom", "valueFrom"} : Users(p, o, way) # {}
        BY <3>0, <3>3, <4>1, <4>2, Defined
      <4>4. \E r \in RuleEdges(facts) : r.kind = "EnvVars" /\ r.from = EdgeID(o) /\ r.to = EdgeID(p)
        BY <4>3, EnvVarsShown
      <4> QED  BY <4>4, EdgeLeft
    <3> QED  BY <3>2, <3>3
  <2> HIDE DEF own, env
  <2>4. \A x \in env :
          \/ x.source = EdgeID(p)
          \/ \E e \in edges : e.kind = "ManagedBy" /\ e.from = x.source /\ e.to = EdgeID(p)
          \/ \E o \in Controllers(facts) : EdgeID(o) = x.source /\ o.selector = {}
    BY <2>2
  <2> QED  BY <2>1, <2>3, <2>4 DEF Given, own, env
<1> QED  BY <1>1, GraphInvariance, PTL

-----------------------------------------------------------------------------
(* Rules read back from their display form. *)

\* The form joins group, resource, subresource and name with "/".  It says what was
\* meant when no group is called like a resource, no resource like a group, and no name
\* like a subresource.
Clear(rule, c) ==
  /\ c.resource[1] \notin ToSet(rule.groups)
  /\ Len(c.resource) = 2 => c.resource[2] \notin rule.names
  /\ \A s \in rule.resources :
       /\ Len(s) \in {1, 2} /\ s[1] \notin c.groups
       /\ Len(s) = 2 /\ s[1] = c.resource[1] =>
            \A t \in OfKind(facts, c.target) : t.name # s[2]

Unambiguous == \A role \in Roles : \A rule \in role.rules, c \in Claims : Clear(rule, c)

\* What is known of the claims.
KeysOf(c) == {c.resource} \cup {<<h>> \o c.resource : h \in c.groups \ {Unset}}

LEMMA ClaimShapes ==
  ASSUME NEW c \in Claims
  PROVE  /\ c.resource \in Seq(ToSet(c.resource)) /\ Len(c.resource) \in {1, 2}
         /\ Unset \in c.groups /\ c.resource # <<"*">>
         /\ c.resource[1] # "*"
<1> DEFINE S == {<<"secrets">>, <<"pods", "exec">>, <<"pods", "ephemeralcontainers">>,
                 <<"serviceaccounts", "token">>, <<"serviceaccounts">>, <<"pods">>, <<"deployments">>,
                 <<"nodes", "proxy">>, <<"securitycontextconstraints">>}
<1>1. c.resource \in S /\ Unset \in c.groups
  BY DEF Claims
<1> DEFINE T == {"secrets", "pods", "exec", "ephemeralcontainers", "serviceaccounts", "token",
                 "deployments", "nodes", "proxy", "securitycontextconstraints"}
<1>2. ASSUME NEW s \in S
      PROVE  s \in Seq(T) /\ Len(s) \in {1, 2} /\ s[1] # "*"
  <2>1. PICK x \in T, y \in T : (s = <<x>> \/ s = <<x, y>>) /\ x # "*"
    OBVIOUS
  <2> HIDE DEF T, S
  <2>2. CASE s = <<x>>
    <3>1. <<x>> \in Seq(T) /\ Len(<<x>>) = 1 /\ <<x>>[1] = x
      OBVIOUS
    <3> QED  BY <2>1, <2>2, <3>1
  <2>3. CASE s = <<x, y>>
    <3>1. <<x, y>> \in Seq(T) /\ Len(<<x, y>>) = 2 /\ <<x, y>>[1] = x
      OBVIOUS
    <3> QED  BY <2>1, <2>3, <3>1
  <2> QED  BY <2>1, <2>2, <2>3
<1> HIDE DEF S, T
<1>3. c.resource \in Seq(T) /\ Len(c.resource) \in {1, 2} /\ c.resource[1] # "*"
  BY <1>1, <1>2
<1>4. c.resource # <<"*">>
  BY <1>3
<1> QED  BY <1>1, <1>3, <1>4, OwnRange

\* A resource with its group in front.
Leads(h, s, P) ==
  /\ P \in Seq(ToSet(P)) /\ Len(s) \in Nat
  /\ h = Unset => P = s
  /\ h # Unset => /\ Len(P) = Len(s) + 1 /\ P[1] = h
                  /\ \A i \in 1 .. Len(s) : P[1 + i] = s[i]

LEMMA Prefixed ==
  ASSUME NEW h, NEW S, NEW s \in Seq(S), NEW P, P = (IF h = Unset THEN <<>> ELSE <<h>>) \o s
  PROVE  Leads(h, s, P)
<1>0. Len(s) \in Nat
  BY LenProperties
<1>1. CASE h = Unset
  <2>1. P = <<>> \o s
    BY <1>1
  <2>2. P = s
    BY <2>1, ConcatEmptySeq
  <2> QED  BY <1>0, <1>1, <2>2, OwnRange DEF Leads
<1>2. CASE h # Unset
  <2> DEFINE q == <<h>>
             H == {h}
  <2>1. q \in Seq(H) /\ Len(q) = 1 /\ q[1] = h /\ 1 \in 1 .. 1
    OBVIOUS
  <2>2. P = q \o s
    BY <1>2
  <2> HIDE DEF q, H
  <2>3. Joins(P, q, s)
    BY <2>1, <2>2, Concatenated
  <2>4. P \in Seq(ToSet(P)) /\ Len(P) = Len(s) + 1 /\ P[1] = h
    BY <1>0, <2>1, <2>3 DEF Joins
  <2>5. \A i \in 1 .. Len(s) : P[1 + i] = s[i]
    BY <2>1, <2>3 DEF Joins
  <2> QED  BY <1>0, <1>2, <2>4, <2>5 DEF Leads
<1> QED  BY <1>1, <1>2

\* A name at the end of it.
LEMMA Suffixed ==
  ASSUME NEW S, NEW P \in Seq(S), NEW n, NEW k, k = Append(P, n)
  PROVE  /\ k \in Seq(ToSet(k)) /\ Len(k) = Len(P) + 1 /\ Len(P) \in Nat
         /\ k[Len(P) + 1] = n /\ \A i \in 1 .. Len(P) : k[i] = P[i]
         /\ Last(k) = n /\ Front(k) = P
<1> DEFINE T == S \cup {n}
<1>1. P \in Seq(T) /\ n \in T
  OBVIOUS
<1> HIDE DEF T
<1>2. k \in Seq(T) /\ Len(k) = Len(P) + 1 /\ Len(P) \in Nat
      /\ k[Len(P) + 1] = n /\ \A i \in 1 .. Len(P) : k[i] = P[i]
  BY <1>1, AppendProperties, LenProperties
<1>3. Last(k) = n
  BY <1>2 DEF Last
<1>4. Front(k) = P
  <2> DEFINE m == Len(P)
             f == SubSeq(k, 1, Len(k) - 1)
  <2>1. Len(k) - 1 = m /\ m \in Nat /\ 1 .. m \subseteq 1 .. Len(k)
    BY <1>2
  <2>2. f \in Seq(T) /\ Len(f) = m /\ \A i \in 1 .. m : f[i] = k[i]
    <3>1. \A i \in 1 .. m : k[i] \in T
      BY <1>2, <2>1, ElementOfSeq
    <3> HIDE DEF m
    <3> QED  BY <1>2, <2>1, <3>1, SubSeqProperties
  <2>3. f = P
    <3> HIDE DEF f
    <3> QED  BY <1>1, <1>2, <2>2, SeqEqual
  <2> QED  BY <2>3 DEF Front
<1>5. k \in Seq(ToSet(k))
  BY <1>2, OwnRange
<1> QED  BY <1>2, <1>3, <1>4, <1>5

\* A key of a claim is its resource, with or without one of its groups in front.
LEMMA KeyShape ==
  ASSUME NEW c \in Claims, NEW k \in KeysOf(c), k # c.resource
  PROVE  \E g \in c.groups \ {Unset} :
           /\ k = <<g>> \o c.resource
           /\ Len(k) = Len(c.resource) + 1 /\ k[1] = g
           /\ \A i \in 1 .. Len(c.resource) : k[1 + i] = c.resource[i]
<1>1. PICK g \in c.groups \ {Unset} : k = <<g>> \o c.resource
  BY DEF KeysOf
<1>2. k = (IF g = Unset THEN <<>> ELSE <<g>>) \o c.resource
  BY <1>1
<1> DEFINE S == ToSet(c.resource)
           s == c.resource
<1>3. s \in Seq(S)
  BY ClaimShapes
<1> HIDE DEF S, s
<1>4. /\ Len(k) = Len(s) + 1 /\ k[1] = g
      /\ \A i \in 1 .. Len(s) : k[1 + i] = s[i]
  <2>1. k = (IF g = Unset THEN <<>> ELSE <<g>>) \o s
    BY <1>2 DEF s
  <2>2. Leads(g, s, k)
    BY <1>3, <2>1, Prefixed
  <2> QED  BY <2>2 DEF Leads
<1> QED  BY <1>1, <1>4 DEF s

\* The group of a rule in its display form.
GroupOf(rule) == IF rule.groups = <<>> THEN Unset ELSE rule.groups[1]
PrefixOf(rule, s) == (IF GroupOf(rule) = Unset THEN <<>> ELSE <<GroupOf(rule)>>) \o s

LEMMA PrefixShape ==
  ASSUME NEW rule, Valid(rule), NEW s \in rule.resources, NEW P, P = PrefixOf(rule, s)
  PROVE  /\ P \in Seq(ToSet(P)) /\ s \in Seq(ToSet(s)) /\ Len(s) \in Nat /\ s # <<>>
         /\ GroupOf(rule) \in ToSet(rule.groups)
         /\ GroupOf(rule) = Unset => P = s
         /\ GroupOf(rule) # Unset =>
              /\ Len(P) = Len(s) + 1 /\ P[1] = GroupOf(rule)
              /\ \A i \in 1 .. Len(s) : P[1 + i] = s[i]
<1> DEFINE h == GroupOf(rule)
           S == ToSet(s)
           G == ToSet(rule.groups)
           q == rule.groups
<1>1. s \in Seq(S) /\ s # <<>> /\ q # <<>> /\ q \in Seq(G)
  BY DEF Valid
<1>2. P = (IF h = Unset THEN <<>> ELSE <<h>>) \o s
  BY DEF PrefixOf
<1>3. h = q[1]
  BY <1>1 DEF GroupOf
<1> HIDE DEF h, S, G, q
<1>4. h \in G
  <2>1. Len(q) \in Nat /\ Len(q) # 0
    BY <1>1, LenProperties, EmptySeq
  <2>2. 1 \in 1 .. Len(q)
    BY <2>1
  <2> QED  BY <1>1, <1>3, <2>2, ElementOfSeq
<1>5. Leads(h, s, P)
  BY <1>1, <1>2, Prefixed
<1> QED  BY <1>1, <1>4, <1>5 DEF h, S, G, Leads

\* A key without a name is that of the resource that was meant.
LEMMA MeantKey ==
  ASSUME NEW rule, Valid(rule), NEW s \in rule.resources, NEW P, P = PrefixOf(rule, s),
         NEW c \in Claims, Clear(rule, c), P \in KeysOf(c)
  PROVE  s = c.resource /\ GroupOf(rule) \in c.groups
<1> DEFINE h == GroupOf(rule)
<1>1. /\ P \in Seq(ToSet(P)) /\ s \in Seq(ToSet(s)) /\ Len(s) \in Nat
      /\ h \in ToSet(rule.groups)
      /\ h = Unset => P = s
      /\ h # Unset => /\ Len(P) = Len(s) + 1 /\ P[1] = h
                      /\ \A i \in 1 .. Len(s) : P[1 + i] = s[i]
  BY PrefixShape
<1>2. c.resource[1] \notin ToSet(rule.groups) /\ s[1] \notin c.groups /\ Len(s) \in {1, 2}
  BY DEF Clear
<1>3. /\ c.resource \in Seq(ToSet(c.resource)) /\ Len(c.resource) \in {1, 2} /\ Unset \in c.groups
  BY ClaimShapes
<1> HIDE DEF h
<1>4. CASE P = c.resource
  <2>1. h = Unset
    BY <1>1, <1>2, <1>4
  <2> QED  BY <1>1, <1>3, <1>4, <2>1 DEF h
<1>5. CASE P # c.resource
  <2>1. PICK g \in c.groups \ {Unset} :
          /\ Len(P) = Len(c.resource) + 1 /\ P[1] = g
          /\ \A i \in 1 .. Len(c.resource) : P[1 + i] = c.resource[i]
    BY <1>5, KeyShape
  <2>2. h # Unset
    BY <1>1, <1>2, <2>1
  <2>3. h = g /\ Len(s) = Len(c.resource) /\ \A i \in 1 .. Len(s) : s[i] = c.resource[i]
    BY <1>1, <1>3, <2>1, <2>2
  <2> DEFINE t == c.resource
             S == ToSet(s)
             T == ToSet(t)
             U == S \cup T
  <2>4. s \in Seq(S) /\ t \in Seq(T)
    BY <1>1, <1>3
  <2>5. Len(s) = Len(t) /\ \A i \in 1 .. Len(s) : s[i] = t[i]
    BY <2>3
  <2> HIDE DEF S, T, t
  <2>6. s \in Seq(U) /\ t \in Seq(U)
    BY <2>4
  <2> HIDE DEF U
  <2>7. s = t
    BY <2>5, <2>6, SeqEqual
  <2> QED  BY <2>1, <2>3, <2>7 DEF h, t
<1> QED  BY <1>4, <1>5

\* No key with a name is taken for one without.
LEMMA NamedKey ==
  ASSUME NEW rule, Valid(rule), NEW s \in rule.resources, NEW P, P = PrefixOf(rule, s),
         NEW c \in Claims, Clear(rule, c), NEW n \in rule.names, NEW k, k = Append(P, n)
  PROVE  k \notin KeysOf(c) /\ k # <<"*">>
<1> DEFINE h == GroupOf(rule)
           r == c.resource
<1>1. /\ P \in Seq(ToSet(P)) /\ Len(s) \in Nat
      /\ h = Unset => P = s
      /\ h # Unset => Len(P) = Len(s) + 1
  BY PrefixShape
<1>2. s[1] \notin c.groups /\ Len(s) \in {1, 2} /\ (Len(r) = 2 => r[2] \notin rule.names)
  BY DEF Clear
<1>3. Len(r) \in {1, 2}
  BY ClaimShapes
<1>4. /\ Len(k) = Len(P) + 1 /\ Len(P) \in Nat
      /\ k[Len(P) + 1] = n /\ \A i \in 1 .. Len(P) : k[i] = P[i]
  BY <1>1, Suffixed
<1>5. Len(P) >= 1 /\ Len(k) >= 2
  BY <1>1, <1>2, <1>4
<1>6. k # <<"*">>
  <2>1. Len(<<"*">>) = 1
    OBVIOUS
  <2> QED  BY <1>5, <2>1
<1>7. k # r
  BY <1>2, <1>3, <1>4, <1>5
<1>8. ASSUME NEW g \in c.groups,
             Len(k) = Len(r) + 1, k[1] = g, \A i \in 1 .. Len(r) : k[1 + i] = r[i]
      PROVE  FALSE
  <2>1. Len(P) = Len(r) /\ n = r[Len(r)] /\ P[1] = g
    <3>1. Len(P) = Len(r) /\ Len(r) \in 1 .. Len(r) /\ 1 \in 1 .. Len(P) /\ Len(P) + 1 = 1 + Len(r)
      BY <1>3, <1>4, <1>5, <1>8
    <3> QED  BY <1>4, <1>8, <3>1
  <2>2. Len(r) = 1
    BY <1>2, <1>3, <2>1
  <2>3. P = s
    BY <1>1, <1>2, <2>1, <2>2
  <2> QED  BY <1>2, <1>8, <2>1, <2>3
<1>9. k \notin KeysOf(c)
  <2> SUFFICES ASSUME k \in KeysOf(c) PROVE FALSE
    OBVIOUS
  <2>1. PICK g \in c.groups \ {Unset} :
          Len(k) = Len(r) + 1 /\ k[1] = g /\ \A i \in 1 .. Len(r) : k[1 + i] = r[i]
    BY <1>7, KeyShape
  <2> QED  BY <1>8, <2>1
<1> QED  BY <1>6, <1>9

\* The last part of a key without a name is no name of what is claimed.
LEMMA NamelessKey ==
  ASSUME NEW rule, Valid(rule), NEW s \in rule.resources, NEW P, P = PrefixOf(rule, s),
         NEW c \in Claims, Clear(rule, c), Len(P) > 1, Front(P) \in KeysOf(c),
         NEW n, Last(P) = n, Len(c.resource) = 1 => \E t \in OfKind(facts, c.target) : t.name = n
  PROVE  FALSE
<1> DEFINE h == GroupOf(rule)
           r == c.resource
           k == Front(P)
<1>1. /\ P \in Seq(ToSet(P)) /\ Len(s) \in Nat
      /\ h \in ToSet(rule.groups)
      /\ h = Unset => P = s
      /\ h # Unset => /\ Len(P) = Len(s) + 1 /\ P[1] = h
                      /\ \A i \in 1 .. Len(s) : P[1 + i] = s[i]
  BY PrefixShape
<1>2. /\ r[1] \notin ToSet(rule.groups) /\ s[1] \notin c.groups /\ Len(s) \in {1, 2}
      /\ Len(s) = 2 /\ s[1] = r[1] /\ Len(r) = 1 => n # s[2]
  BY DEF Clear
<1>3. Len(r) \in Nat /\ (Len(r) = 1 \/ Len(r) = 2)
  <2>1. Len(r) \in {1, 2}
    BY ClaimShapes
  <2>2. Len(r) = 1 \/ Len(r) = 2
    BY ONLY <2>1
  <2> QED  BY ONLY <2>2
<1>4. /\ Len(k) = Len(P) - 1
      /\ \A i \in 1 .. Len(P) - 1 : k[i] = P[i]
  <2> DEFINE m == Len(P) - 1
             T == ToSet(P)
  <2>1. m \in Int /\ 1 \in Int /\ 1 <= m /\ P \in Seq(T) /\ Len(P) \in Nat /\ m <= Len(P)
    BY <1>1, LenProperties
  <2>2. k = SubSeq(P, 1, m)
    BY DEF Front
  <2>3. \A i \in 1 .. m : P[i] \in T
    BY <2>1, ElementOfSeq
  <2> HIDE DEF m, T, k
  <2>4. Len(k) = m - 1 + 1 /\ \A i \in 1 .. m - 1 + 1 : k[i] = P[1 + i - 1]
    BY <2>1, <2>2, <2>3, SubSeqProperties
  <2>5. Len(k) = m /\ \A i \in 1 .. m : k[i] = P[i]
    BY <2>1, <2>4
  <2> QED  BY <2>5 DEF m
<1>5. P[Len(P)] = n
  BY DEF Last
<1>6. k = r \/ /\ Len(k) = Len(r) + 1
               /\ \E g \in c.groups : k[1] = g /\ \A i \in 1 .. Len(r) : k[1 + i] = r[i]
  BY KeyShape
<1> HIDE DEF h, k, r
<1>7. CASE h = Unset
  <2>1. P = s /\ Len(s) = 2 /\ Len(k) = 1 /\ k[1] = s[1] /\ s[2] = n
    BY <1>1, <1>2, <1>4, <1>5, <1>7
  <2>2. k = r \/ Len(k) = Len(r) + 1
    BY <1>6
  <2>3. k = r
    <3>1. Len(r) + 1 # 1
      BY ONLY <1>3
    <3> QED  BY <2>1, <2>2, <3>1
  <2>4. Len(r) = 1
    BY <2>1, <2>3
  <2> QED  BY <1>2, <2>1, <2>3, <2>4
<1>8. CASE h # Unset
  <2>1. Len(P) = Len(s) + 1 /\ P[1] = h /\ Len(k) = Len(s) /\ k[1] = h
    BY <1>1, <1>2, <1>4, <1>8
  <2>2. k # r
    BY <1>1, <1>2, <2>1
  <2>3. Len(s) = 2 /\ Len(r) = 1 /\ k[2] = r[1]
    <3>1. Len(k) = Len(r) + 1 /\ \A i \in 1 .. Len(r) : k[1 + i] = r[i]
      BY <1>6, <2>2
    <3>2. Len(s) = 2 /\ Len(r) = 1
      BY ONLY <1>2, <1>3, <2>1, <3>1
    <3>3. 1 \in 1 .. Len(r) /\ 1 + 1 = 2
      BY <3>2
    <3> QED  BY <3>1, <3>2, <3>3
  <2>4. P[2] = s[1] /\ P[3] = s[2] /\ k[2] = P[2]
    BY <1>1, <1>4, <1>8, <2>1, <2>3
  <2> QED  BY <1>2, <1>5, <2>1, <2>3, <2>4
<1> QED  BY <1>7, <1>8

\* An entry of the display form of a role.
LEMMA Displayed ==
  ASSUME NEW role, NEW p \in PermsDisplay(role)
  PROVE  \E rule \in role.rules : \E s \in rule.resources :
           /\ p.verbs = rule.verbs
           /\ \/ rule.names = {} /\ p.key = PrefixOf(rule, s)
              \/ \E n \in rule.names : p.key = Append(PrefixOf(rule, s), n)
<1> DEFINE Kept1(rule, s) == [group |-> GroupOf(rule), resource |-> s,
                              verbs |-> rule.verbs, names |-> rule.names]
           Of(r) == IF r.names = {} THEN {[key |-> Prefix(r), verbs |-> r.verbs]}
                    ELSE {[key |-> Append(Prefix(r), n), verbs |-> r.verbs] : n \in r.names}
<1>1. PICK r \in BuildRbacRules(role.rules) : p \in Of(r)
  BY DEF PermsDisplay, BuildRbacRulesDisplay
<1>2. PICK rule \in role.rules : \E s \in rule.resources : r = Kept1(rule, s)
  BY DEF BuildRbacRules, GroupOf
<1>3. PICK s \in rule.resources : r = Kept1(rule, s)
  BY <1>2
<1>4. r.names = rule.names /\ r.verbs = rule.verbs /\ r.group = GroupOf(rule) /\ r.resource = s
  BY <1>3
<1> HIDE DEF Kept1
<1>5. Prefix(r) = PrefixOf(rule, s)
  BY <1>4 DEF Prefix, PrefixOf
<1>6. CASE r.names = {}
  <2>1. p = [key |-> Prefix(r), verbs |-> r.verbs]
    BY <1>1, <1>6
  <2> QED  BY <1>4, <1>5, <1>6, <2>1
<1>7. CASE r.names # {}
  <2>1. PICK n \in r.names : p = [key |-> Append(Prefix(r), n), verbs |-> r.verbs]
    BY <1>1, <1>7
  <2>2. p.key = Append(Prefix(r), n) /\ p.verbs = r.verbs
    BY <2>1
  <2> QED  BY <1>4, <1>5, <2>2
<1> QED  BY <1>6, <1>7

\* The rules of a role are those the API server takes.
LEMMA ValidRules ==
  ASSUME IndInv, NEW role \in Roles, NEW rule \in role.rules
  PROVE  Valid(rule)
<1>1. role \in facts /\ role.kind \in RoleKinds
  BY DEF Roles, OfKind
<1>2. role.kind \notin MadeKinds
  BY <1>1, MadeApart
<1> QED  BY <1>1, <1>2, FactServed DEF Served

LEMMA Allowed ==
  ASSUME IndInv, NEW role \in Roles, NEW rule \in role.rules, NEW s \in rule.resources,
         NEW c \in Claims, GroupOf(rule) \in c.groups, s \in {<<"*">>, c.resource},
         rule.verbs \cap (c.verbs \cup {"*"}) # {},
         NEW name, rule.names = {} \/ name \in rule.names
  PROVE  Allows(rule, c, name)
<1>1. GroupOf(rule) \in ToSet(rule.groups)
  BY ValidRules, PrefixShape
<1> QED  BY <1>1 DEF Allows

\* A role whose display form gives what a claim needs has a rule that gives it.
LEMMA AccessRead ==
  ASSUME IndInv, Unambiguous, NEW role \in Roles, NEW c \in Claims,
         NEW a, a = accessForResource(PermsDisplay(role), KeysOf(c), c.verbs),
         NEW n, \/ a.all
                \/ /\ n \in a.names
                   /\ Len(c.resource) = 1 => \E t \in OfKind(facts, c.target) : t.name = n
  PROVE  \E rule \in role.rules : Allows(rule, c, n)
<1> DEFINE perms == PermsDisplay(role)
           usable == {p \in perms : p.verbs \cap (c.verbs \cup {"*"}) # {}}
           all == \E p \in usable : p.key \in KeysOf(c) \cup {<<"*">>}
           named == {Last(p.key) : p \in {q \in usable : Len(q.key) > 1 /\ Front(q.key) \in KeysOf(c)}}
<1>1. a = [all |-> all, names |-> IF all THEN {} ELSE named]
  BY DEF accessForResource
<1> HIDE DEF all, named
<1>2. a.all = all /\ a.names = IF all THEN {} ELSE named
  BY <1>1
<1>3. \A rule \in role.rules : Valid(rule) /\ Clear(rule, c)
  BY ValidRules DEF Unambiguous
<1>4. Unset \in c.groups
  BY ClaimShapes
<1>5. CASE all
  <2>1. PICK p \in perms : p.verbs \cap (c.verbs \cup {"*"}) # {} /\ p.key \in KeysOf(c) \cup {<<"*">>}
    BY <1>5 DEF all
  <2>2. PICK rule \in role.rules : \E s \in rule.resources :
          /\ p.verbs = rule.verbs
          /\ \/ rule.names = {} /\ p.key = PrefixOf(rule, s)
             \/ \E x \in rule.names : p.key = Append(PrefixOf(rule, s), x)
    BY Displayed
  <2>3. PICK s \in rule.resources :
          /\ p.verbs = rule.verbs
          /\ \/ rule.names = {} /\ p.key = PrefixOf(rule, s)
             \/ \E x \in rule.names : p.key = Append(PrefixOf(rule, s), x)
    BY <2>2
  <2>4. rule.names = {} /\ p.key = PrefixOf(rule, s)
    BY <1>3, <2>1, <2>3, NamedKey
  <2> DEFINE P == PrefixOf(rule, s)
  <2>5. CASE P \in KeysOf(c)
    <3>1. s = c.resource /\ GroupOf(rule) \in c.groups
      BY <1>3, <2>5, MeantKey
    <3> QED  BY <2>1, <2>3, <2>4, <3>1, Allowed
  <2>6. CASE P = <<"*">>
    <3>1. /\ s \in Seq(ToSet(s)) /\ Len(s) \in Nat /\ s # <<>>
          /\ GroupOf(rule) = Unset => P = s
          /\ GroupOf(rule) # Unset => Len(P) = Len(s) + 1
      BY <1>3, PrefixShape
    <3>2. Len(P) = 1
      BY <2>6
    <3>3. Len(s) # 0
      BY <3>1, EmptySeq
    <3> HIDE DEF P
    <3>4. GroupOf(rule) = Unset /\ s = <<"*">>
      <4>1. Len(s) + 1 # 1
        BY ONLY <3>1, <3>3
      <4> QED  BY <2>6, <3>1, <3>2, <4>1
    <3> QED  BY <1>4, <2>1, <2>3, <2>4, <3>4, Allowed
  <2> QED  BY <2>1, <2>4, <2>5, <2>6
<1>6. CASE ~all
  <2>1. n \in named /\ (Len(c.resource) = 1 => \E t \in OfKind(facts, c.target) : t.name = n)
    BY <1>2, <1>6
  <2>2. PICK p \in perms : /\ p.verbs \cap (c.verbs \cup {"*"}) # {}
                           /\ Len(p.key) > 1 /\ Front(p.key) \in KeysOf(c) /\ Last(p.key) = n
    BY <2>1 DEF named
  <2>3. PICK rule \in role.rules : \E s \in rule.resources :
          /\ p.verbs = rule.verbs
          /\ \/ rule.names = {} /\ p.key = PrefixOf(rule, s)
             \/ \E x \in rule.names : p.key = Append(PrefixOf(rule, s), x)
    BY Displayed
  <2>4. PICK s \in rule.resources :
          /\ p.verbs = rule.verbs
          /\ \/ rule.names = {} /\ p.key = PrefixOf(rule, s)
             \/ \E x \in rule.names : p.key = Append(PrefixOf(rule, s), x)
    BY <2>3
  <2>5. p.key # PrefixOf(rule, s)
    BY <1>3, <2>1, <2>2, NamelessKey
  <2>6. PICK x \in rule.names : p.key = Append(PrefixOf(rule, s), x)
    BY <2>4, <2>5
  <2> DEFINE P == PrefixOf(rule, s)
  <2>7. P \in Seq(ToSet(P))
    BY <1>3, PrefixShape
  <2> DEFINE k == p.key
             S == ToSet(P)
  <2>8. Front(k) = P /\ Last(k) = x
    <3>1. k = Append(P, x) /\ P \in Seq(S)
      BY <2>6, <2>7
    <3> HIDE DEF k, P, S
    <3> QED  BY <3>1, Suffixed
  <2> HIDE DEF P
  <2>9. s = c.resource /\ GroupOf(rule) \in c.groups /\ n \in rule.names
    <3>1. P \in KeysOf(c)
      BY <2>2, <2>8
    <3> QED  BY <1>3, <2>2, <2>8, <3>1, MeantKey DEF P
  <2> QED  BY <2>2, <2>4, <2>9, Allowed
<1> QED  BY <1>5, <1>6

\* A grant is of a binding to a role, not foreign.
LEMMA GrantBinding ==
  ASSUME IndInv, NEW g \in Grants(facts)
  PROVE  \E b \in Bindings(facts), r \in Roles :
           /\ g.ns = b.ns /\ g.perms = PermsDisplay(r) /\ g.who \in facts
           /\ Names(b, g.who) /\ RefersTo(b, r) /\ ~Foreign(b, g.who)
<1>1. PICK x \in Bonds(facts) : g = [ns |-> x.ns, perms |-> PermsDisplay(x.role), who |-> x.who]
  BY DEF Grants
<1>2. g.ns = x.ns /\ g.perms = PermsDisplay(x.role) /\ g.who = x.who /\ x.who \in facts
  BY <1>1, BondFacts
<1>3. PICK b \in Bindings(facts) :
        x \in {[binding |-> EdgeID(b), ns |-> b.ns, role |-> r, who |-> y] :
                 r \in BoundRole(facts, b),
                 y \in UNION {resolveSubject(facts, b.ns, s) : s \in b.subjects}}
  BY DEF Bonds
<1>4. PICK r \in BoundRole(facts, b), y \in UNION {resolveSubject(facts, b.ns, s) : s \in b.subjects} :
        x = [binding |-> EdgeID(b), ns |-> b.ns, role |-> r, who |-> y]
  BY <1>3
<1>5. x.ns = b.ns /\ x.role = r /\ x.who = y
  BY <1>4
<1>6. PICK s \in b.subjects : y \in resolveSubject(facts, b.ns, s)
  BY <1>4
<1>7. Names(b, y) /\ ~Foreign(b, y)
  BY <1>6 DEF resolveSubject, Names, Foreign
<1>8. r \in Roles /\ RefersTo(b, r)
  BY ReferredRoles
<1> QED  BY <1>2, <1>5, <1>7, <1>8

\* What a grant lets one do is what a binding grants.
LEMMA GrantGrants ==
  ASSUME IndInv, Unambiguous, NEW g \in Grants(facts), NEW w \in Who, EdgeID(g.who) = EdgeID(w),
         NEW c \in Claims, NEW t \in OfKind(facts, c.target), g.ns \in {Unset, Asked(c, t).ns},
         NEW a, a = accessForResource(g.perms, KeysOf(c), c.verbs),
         a.all \/ Asked(c, t).name \in a.names,
         Len(c.resource) = 1 => Asked(c, t).name = t.name
  PROVE  GrantingRules(w, c, t, TRUE) # {}
<1>1. PICK b \in Bindings(facts), r \in Roles :
        /\ g.ns = b.ns /\ g.perms = PermsDisplay(r) /\ g.who \in facts
        /\ Names(b, g.who) /\ RefersTo(b, r) /\ ~Foreign(b, g.who)
  BY GrantBinding
<1>2. g.who = w
  BY <1>1, OneFact DEF Who, OfKind
<1> DEFINE n == Asked(c, t).name
<1>3. \E rule \in r.rules : Allows(rule, c, n)
  <2>1. \/ a.all
        \/ n \in a.names /\ (Len(c.resource) = 1 => \E x \in OfKind(facts, c.target) : x.name = n)
    OBVIOUS
  <2>2. a = accessForResource(PermsDisplay(r), KeysOf(c), c.verbs)
    BY <1>1
  <2> HIDE DEF n
  <2> QED  BY <2>1, <2>2, AccessRead
<1>4. PICK rule \in r.rules : Allows(rule, c, n)
  BY <1>3
<1>5. rule \in GrantingRules(w, c, t, TRUE)
  BY <1>1, <1>2, <1>4 DEF GrantingRules
<1> QED  BY <1>5

-----------------------------------------------------------------------------
(* The nodes a grant reaches. *)

\* The nodes the rule of a claim's edge draws it to.
ClaimedNodes(F, g, c) ==
  LET a == accessForResource(g.perms, KeysOf(c), c.verbs)
      all == OfKind(F, c.target)
  IN IF c.edge = "NodeProxyRCE"
     THEN IF g.ns # Unset THEN {}
          ELSE IF a.all THEN Aggregate(F, "Pod", Unset)
               ELSE {p \in OfKind(F, "Pod") : p.node # Unset /\ p.node \in a.names}
     ELSE IF c.edge = "SCCUse"
     THEN IF g.ns # Unset THEN {} ELSE IF a.all THEN all ELSE Named(all, a)
     ELSE IF c.edge \in {"Impersonate", "WorkloadPatch"} THEN Members(F, c.target, g.ns, a)
     ELSE AllOrNamed(F, c.target, g.ns, a)

SimpleEdges == {r.edge : r \in SimpleAccess}

LEMMA ClaimEdges ==
  /\ SimpleEdges \cap {"Impersonate", "NodeProxyRCE", "RBACEscalate", "RBACBind", "SCCUse",
                       "RBACCreate", "WorkloadCreate", "WorkloadPatch"} = {}
  /\ \A c \in Claims :
       /\ c.edge \in SimpleEdges \cup {"Impersonate", "NodeProxyRCE", "SCCUse", "WorkloadPatch"}
       /\ c.edge \in AccessKinds
       /\ c.edge # "SCCUse" => c.target \in SpacedKinds /\ c.target \in ClusterKinds
<1>1. SimpleEdges = {"ReadSecret", "ReadConfigMap", "PodExec", "PodPortForward", "PodAttach",
                     "PodDebug", "ReadLogs", "SATokenRequest"}
  BY DEF SimpleEdges, SimpleAccess
<1>2. ASSUME NEW c \in Claims
      PROVE  /\ c.edge \in {"ReadSecret", "PodExec", "PodDebug", "SATokenRequest", "Impersonate",
                            "NodeProxyRCE", "SCCUse", "WorkloadPatch"}
             /\ c.edge # "SCCUse" => c.target \in {"Secret", "Pod", "ServiceAccount", "Deployment"}
  BY DEF Claims
<1>3. {"Secret", "Pod", "ServiceAccount", "Deployment"} \subseteq SpacedKinds \cap ClusterKinds
  BY DEF SpacedKinds, ClusterKinds, AggregateOf
<1>4. {"ReadSecret", "PodExec", "PodDebug", "SATokenRequest", "Impersonate",
       "NodeProxyRCE", "SCCUse", "WorkloadPatch"} \subseteq AccessKinds
  BY DEF AccessKinds
<1> QED  BY <1>1, <1>2, <1>3, <1>4

\* The rule of an edge, by its kind.
LEMMA GrantRule ==
  ASSUME NEW F, NEW g, NEW e \in AccessEdges(F, g)
  PROVE  /\ e.kind \in SimpleEdges => e \in simpleAccess(F, g)
         /\ e.kind = "Impersonate" => e \in impersonate(F, g)
         /\ e.kind = "NodeProxyRCE" => e \in nodeProxy(F, g)
         /\ e.kind = "SCCUse" => e \in sccUsage(F, g)
         /\ e.kind = "WorkloadPatch" => e \in workloadPatch(F, g)
<1>1. e \in simpleAccess(F, g) => e.kind \in SimpleEdges
  <2> SUFFICES ASSUME e \in simpleAccess(F, g) PROVE e.kind \in SimpleEdges
    OBVIOUS
  <2>1. PICK r \in SimpleAccess :
          e \in CreateEdges(g.who, AllOrNamed(F, r.target, g.ns,
                                             accessForResource(g.perms, {r.key}, r.verbs)), r.edge)
    BY DEF simpleAccess
  <2> QED  BY <2>1, CreatedEdge DEF SimpleEdges
<1>2. e \in impersonate(F, g) => e.kind = "Impersonate"
  BY CreatedEdge DEF impersonate
<1>3. e \in nodeProxy(F, g) => e.kind = "NodeProxyRCE"
  BY CreatedEdge DEF nodeProxy
<1>4. e \in escalateBind(F, g) => e.kind \in {"RBACEscalate", "RBACBind"}
  BY CreatedEdge DEF escalateBind
<1>5. e \in sccUsage(F, g) => e.kind = "SCCUse"
  BY CreatedEdge DEF sccUsage
<1>6. e \in rbacCreate(F, g) => e.kind = "RBACCreate"
  BY CreatedEdge DEF rbacCreate
<1>7. e \in workloadCreate(F, g) => e.kind = "WorkloadCreate"
  BY CreatedEdge DEF workloadCreate
<1>8. e \in workloadPatch(F, g) => e.kind = "WorkloadPatch"
  <2> SUFFICES ASSUME e \in workloadPatch(F, g) PROVE e.kind = "WorkloadPatch"
    OBVIOUS
  <2>1. PICK k \in Workloads :
          e \in CreateEdges(g.who, Members(F, k, g.ns,
                 accessForResource(g.perms, WorkloadKeys[k], {"patch", "update"})), "WorkloadPatch")
    BY DEF workloadPatch
  <2> QED  BY <2>1, CreatedEdge
<1> QED  BY <1>1, <1>2, <1>3, <1>4, <1>5, <1>6, <1>7, <1>8, ClaimEdges DEF AccessEdges

\* A claim of a simple rule is that rule's.
LEMMA SimpleClaim ==
  ASSUME NEW c \in Claims, NEW r \in SimpleAccess, r.edge = c.edge
  PROVE  r.target = c.target /\ r.verbs = c.verbs /\ {r.key} = KeysOf(c)
<1>1. r.target = c.target /\ r.verbs = c.verbs
  BY DEF Claims, SimpleAccess
<1>2. r.key = c.resource /\ c.groups = {Unset}
  BY DEF Claims, SimpleAccess
<1> QED  BY <1>1, <1>2 DEF KeysOf

\* A group with a name is not the core group.
LEMMA GroupsNamed == "apps" # Unset /\ "security.openshift.io" # Unset
<1>1. "apps" # Unset
  BY Zenon DEF Unset
<1>2. "security.openshift.io" # Unset
  BY Zenon DEF Unset
<1> QED  BY <1>1, <1>2

LEMMA OnePair ==
  ASSUME NEW a, NEW b
  PROVE  <<a>> \o <<b>> = <<a, b>>
<1> DEFINE S == {a, b}
           s == <<a>>
           t == <<b>>
           v == <<a, b>>
           u == s \o t
<1>1. s \in Seq(S) /\ t \in Seq(S) /\ v \in Seq(S)
  OBVIOUS
<1>2. Len(s) = 1 /\ s[1] = a /\ Len(t) = 1 /\ t[1] = b /\ Len(v) = 2 /\ v[1] = a /\ v[2] = b
  OBVIOUS
<1>3. u = s \o t
  OBVIOUS
<1> HIDE DEF u, s, t, v, S
<1>4. u \in Seq(S)
  BY <1>1, <1>3, ConcatProperties
<1>5. Joins(u, s, t)
  BY <1>1, <1>3, Concatenated
<1>6. Len(u) = 2 /\ u[1] = a /\ u[2] = b
  BY <1>2, <1>5 DEF Joins
<1>7. u = v
  <2>1. Len(u) = Len(v) /\ \A i \in 1 .. Len(u) : u[i] = v[i]
    BY <1>2, <1>6
  <2> QED  BY <1>1, <1>4, <2>1, SeqEqual
<1> QED  BY <1>7 DEF u, s, t, v

LEMMA OtherClaims ==
  ASSUME NEW c \in Claims
  PROVE  /\ c.edge = "Impersonate" =>
              /\ c.target = "ServiceAccount" /\ c.verbs = {"impersonate"}
              /\ KeysOf(c) = {<<"serviceaccounts">>}
         /\ c.edge = "NodeProxyRCE" =>
              /\ c.target = "Pod" /\ c.verbs = {"get", "create", "proxy"}
              /\ KeysOf(c) = {<<"nodes", "proxy">>}
         /\ c.edge = "SCCUse" =>
              /\ c.target = "SCC" /\ c.verbs = {"use"}
              /\ KeysOf(c) = {<<"securitycontextconstraints">>,
                              <<"security.openshift.io", "securitycontextconstraints">>}
         /\ c.edge = "WorkloadPatch" =>
              /\ c.target \in Workloads /\ c.verbs = {"patch", "update"}
              /\ KeysOf(c) = WorkloadKeys[c.target]
<1>1. CASE c.edge = "Impersonate"
  <2>1. /\ c.target = "ServiceAccount" /\ c.verbs = {"impersonate"}
        /\ c.resource = <<"serviceaccounts">> /\ c.groups = {Unset}
    BY <1>1 DEF Claims
  <2> QED  BY <1>1, <2>1 DEF KeysOf
<1>2. CASE c.edge = "NodeProxyRCE"
  <2>1. /\ c.target = "Pod" /\ c.verbs = {"get", "create", "proxy"}
        /\ c.resource = <<"nodes", "proxy">> /\ c.groups = {Unset}
    BY <1>2 DEF Claims
  <2> QED  BY <1>2, <2>1 DEF KeysOf
<1>3. CASE c.edge = "SCCUse"
  <2>1. /\ c.target = "SCC" /\ c.verbs = {"use"}
        /\ c.resource = <<"securitycontextconstraints">> /\ c.groups = {Unset, "security.openshift.io"}
    BY <1>3 DEF Claims
  <2>2. c.groups \ {Unset} = {"security.openshift.io"}
    BY <2>1, GroupsNamed
  <2>3. <<"security.openshift.io">> \o <<"securitycontextconstraints">> =
          <<"security.openshift.io", "securitycontextconstraints">>
    BY OnePair
  <2>4. KeysOf(c) = {<<"securitycontextconstraints">>} \cup
          {<<"security.openshift.io">> \o <<"securitycontextconstraints">>}
    BY <2>1, <2>2, Zenon DEF KeysOf
  <2>5. KeysOf(c) = {<<"securitycontextconstraints">>,
                     <<"security.openshift.io", "securitycontextconstraints">>}
    BY <2>3, <2>4
  <2> QED  BY <1>3, <2>1, <2>5
<1>4. CASE c.edge = "WorkloadPatch"
  <2>1. /\ c.verbs = {"patch", "update"}
        /\ \/ c.target = "Pod" /\ c.resource = <<"pods">> /\ c.groups = {Unset}
           \/ c.target = "Deployment" /\ c.resource = <<"deployments">> /\ c.groups = {Unset, "apps"}
    BY <1>4 DEF Claims
  <2>2. CASE c.target = "Pod" /\ c.resource = <<"pods">> /\ c.groups = {Unset}
    <3>1. c.groups \ {Unset} = {} /\ KeysOf(c) = {<<"pods">>}
      BY <2>2 DEF KeysOf
    <3>2. "Pod" \in Workloads /\ WorkloadKeys["Pod"] = {<<"pods">>}
      BY DEF Workloads, WorkloadKeys
    <3> QED  BY <1>4, <2>1, <2>2, <3>1, <3>2
  <2>3. CASE c.target = "Deployment" /\ c.resource = <<"deployments">> /\ c.groups = {Unset, "apps"}
    <3>1. c.groups \ {Unset} = {"apps"}
      BY <2>3, GroupsNamed
    <3>2. <<"apps">> \o <<"deployments">> = <<"apps", "deployments">>
      BY OnePair
    <3>3. KeysOf(c) = {<<"deployments">>} \cup {<<"apps">> \o <<"deployments">>}
      BY <2>3, <3>1, Zenon DEF KeysOf
    <3>4. "Deployment" \in Workloads
          /\ WorkloadKeys["Deployment"] = {<<"deployments">>, <<"apps", "deployments">>}
      BY DEF Workloads, WorkloadKeys
    <3> QED  BY <1>4, <2>1, <2>3, <3>2, <3>3, <3>4
  <2> QED  BY <2>1, <2>2, <2>3
<1> QED  BY <1>1, <1>2, <1>3, <1>4

\* The nodes found for a kind are of the kind or its aggregates.
LEMMA FoundKinds ==
  ASSUME NEW F, NEW k, NEW ns, NEW a
  PROVE  /\ \A x \in AllOrNamed(F, k, ns, a) : x.kind \in {k, AggregateOf[k]}
         /\ \A x \in Members(F, k, ns, a) : x.kind \in {k, AggregateOf[k]}
<1>1. ASSUME NEW x \in AllOrNamed(F, k, ns, a) PROVE x.kind \in {k, AggregateOf[k]}
  BY <1>1 DEF AllOrNamed, Aggregate, Named, InReach, OfKind, InSpace
<1> QED  BY <1>1 DEF Members, InSpace

LEMMA FoundMembers ==
  ASSUME NEW F, NEW k, NEW ns, NEW a
  PROVE  Members(F, k, ns, a) \in SUBSET F
BY DEF Members, AllOrNamed, Aggregate, Named, InReach, OfKind, InSpace

\* Kinds of nodes share no name with each other's aggregates.
LEMMA KindsDiffer ==
  ASSUME NEW k \in DOMAIN AggregateOf, NEW j \in DOMAIN AggregateOf, j # k
  PROVE  {k, AggregateOf[k]} \cap {j, AggregateOf[j]} = {}
<1>1. AggregateOf[k] # j /\ AggregateOf[j] # k
  BY DEF AggregateOf
<1>2. AggregateOf[k] # AggregateOf[j]
  BY DEF AggregateOf
<1> QED  BY <1>1, <1>2

LEMMA WorkloadKinds == Workloads \subseteq DOMAIN AggregateOf
BY DEF Workloads, WorkloadKeys, AggregateOf

\* The edges of a grant for a claim lead to the nodes claimed ...
LEMMA ClaimDrawn ==
  ASSUME NEW F, NEW g, NEW c \in Claims, NEW x \in ClaimedNodes(F, g, c)
  PROVE  \E e \in AccessEdges(F, g) : e.kind = c.edge /\ e.from = EdgeID(g.who) /\ e.to = EdgeID(x)
<1> DEFINE a == accessForResource(g.perms, KeysOf(c), c.verbs)
           ends(e) == e.kind = c.edge /\ e.from = EdgeID(g.who) /\ e.to = EdgeID(x)
<1> HIDE DEF a
<1>1. CASE c.edge \in SimpleEdges
  <2>1. PICK r \in SimpleAccess : r.edge = c.edge
    BY <1>1 DEF SimpleEdges
  <2>2. r.target = c.target /\ r.verbs = c.verbs /\ {r.key} = KeysOf(c)
    BY <2>1, SimpleClaim
  <2>3. x \in AllOrNamed(F, c.target, g.ns, a)
    BY <1>1, ClaimEdges DEF ClaimedNodes, a
  <2>4. accessForResource(g.perms, {r.key}, r.verbs) = a
    BY <2>2 DEF a
  <2>5. x \in AllOrNamed(F, r.target, g.ns, accessForResource(g.perms, {r.key}, r.verbs))
    BY <2>2, <2>3, <2>4
  <2>6. \E e \in simpleAccess(F, g) : ends(e)
    <3> DEFINE targets(y) == AllOrNamed(F, y.target, g.ns, accessForResource(g.perms, {y.key}, y.verbs))
    <3>1. PICK e \in CreateEdges(g.who, targets(r), r.edge) :
            e.kind = r.edge /\ e.from = EdgeID(g.who) /\ e.to = EdgeID(x)
      BY <2>5, CreatesEdge
    <3>2. e \in simpleAccess(F, g)
      BY <3>1 DEF simpleAccess
    <3> QED  BY <2>1, <3>1, <3>2
  <2> QED  BY <2>6 DEF AccessEdges
<1>2. CASE c.edge = "Impersonate"
  <2>1. c.target = "ServiceAccount" /\ a = accessForResource(g.perms, {<<"serviceaccounts">>}, {"impersonate"})
    BY <1>2, OtherClaims DEF a
  <2>2. x \in Members(F, "ServiceAccount", g.ns, a)
    BY <1>2, <2>1 DEF ClaimedNodes, a
  <2> DEFINE May(key) == accessForResource(g.perms, {<<key>>}, {"impersonate"})
             targets == Members(F, "ServiceAccount", g.ns, May("serviceaccounts"))
                        \cup AllOrNamed(F, "User", Unset, May("users"))
                        \cup AllOrNamed(F, "Group", Unset, May("groups"))
  <2>3. impersonate(F, g) = CreateEdges(g.who, targets, "Impersonate")
    BY DEF impersonate
  <2>4. x \in targets
    BY <2>1, <2>2
  <2> HIDE DEF targets
  <2> QED  BY <1>2, <2>3, <2>4, CreatesEdge DEF AccessEdges
<1>3. CASE c.edge = "NodeProxyRCE"
  <2>1. c.target = "Pod"
        /\ a = accessForResource(g.perms, {<<"nodes", "proxy">>}, {"get", "create", "proxy"})
    BY <1>3, OtherClaims DEF a
  <2> DEFINE pods == IF a.all THEN Aggregate(F, "Pod", Unset)
                     ELSE {p \in OfKind(F, "Pod") : p.node # Unset /\ p.node \in a.names}
             targets == pods \cup AllOrNamed(F, "Node", Unset, a)
  <2>2. g.ns = Unset /\ x \in pods
    BY <1>3 DEF ClaimedNodes, a
  <2>3. nodeProxy(F, g) = CreateEdges(g.who, targets, "NodeProxyRCE")
    BY <2>1, <2>2 DEF nodeProxy
  <2>4. x \in targets
    BY <2>2
  <2> HIDE DEF targets
  <2> QED  BY <1>3, <2>3, <2>4, CreatesEdge DEF AccessEdges
<1>4. CASE c.edge = "SCCUse"
  <2>1. c.target = "SCC" /\ a = accessForResource(g.perms, {<<"securitycontextconstraints">>,
             <<"security.openshift.io", "securitycontextconstraints">>}, {"use"})
    BY <1>4, OtherClaims DEF a
  <2> DEFINE targets == IF a.all THEN OfKind(F, "SCC") ELSE Named(OfKind(F, "SCC"), a)
  <2>2. g.ns = Unset /\ x \in targets
    BY <1>4, <2>1 DEF ClaimedNodes, a
  <2>3. sccUsage(F, g) = CreateEdges(g.who, targets, "SCCUse")
    BY <2>1, <2>2 DEF sccUsage
  <2> HIDE DEF targets
  <2> QED  BY <1>4, <2>2, <2>3, CreatesEdge DEF AccessEdges
<1>5. CASE c.edge = "WorkloadPatch"
  <2>1. c.target \in Workloads
        /\ a = accessForResource(g.perms, WorkloadKeys[c.target], {"patch", "update"})
    BY <1>5, OtherClaims DEF a
  <2> DEFINE targets(k) == Members(F, k, g.ns, accessForResource(g.perms, WorkloadKeys[k], {"patch", "update"}))
  <2>2. x \in targets(c.target)
    BY <1>5, <2>1 DEF ClaimedNodes, a
  <2>3. PICK e \in CreateEdges(g.who, targets(c.target), "WorkloadPatch") : ends(e)
    BY <1>5, <2>2, CreatesEdge
  <2>4. e \in workloadPatch(F, g)
    BY <2>1, <2>3 DEF workloadPatch
  <2> QED  BY <2>3, <2>4 DEF AccessEdges
<1> QED  BY <1>1, <1>2, <1>3, <1>4, <1>5, ClaimEdges

\* ... and to no other node of the kind claimed.
LEMMA ClaimRead ==
  ASSUME NEW F, \A p, q \in F : EdgeID(p) = EdgeID(q) => p = q,
         NEW g, NEW c \in Claims, NEW e \in AccessEdges(F, g), e.kind = c.edge,
         NEW x \in F, x.kind = c.target \/ (c.target \in SpacedKinds /\ x.kind = AggregateOf[c.target]),
         e.to = EdgeID(x)
  PROVE  e.from = EdgeID(g.who) /\ x \in ClaimedNodes(F, g, c)
<1> DEFINE a == accessForResource(g.perms, KeysOf(c), c.verbs)
<1> HIDE DEF a
<1>0. ASSUME NEW targets \in SUBSET F, NEW kind, e \in CreateEdges(g.who, targets, kind)
      PROVE  e.from = EdgeID(g.who) /\ x \in targets
  <2>1. e.from = EdgeID(g.who) /\ \E t \in targets : e.to = EdgeID(t)
    BY <1>0, CreatedEdge
  <2>2. PICK t \in targets : e.to = EdgeID(t)
    BY <2>1
  <2>3. t \in F
    BY <1>0
  <2>4. t = x
    BY <2>2, <2>3
  <2> QED  BY <2>1, <2>4
<1>1. CASE c.edge \in SimpleEdges
  <2>0. e \in simpleAccess(F, g)
    BY <1>1, GrantRule
  <2>1. PICK r \in SimpleAccess :
          e \in CreateEdges(g.who, AllOrNamed(F, r.target, g.ns,
                                             accessForResource(g.perms, {r.key}, r.verbs)), r.edge)
    BY <2>0 DEF simpleAccess
  <2>2. r.edge = c.edge
    BY <2>1, CreatedEdge
  <2>3. r.target = c.target /\ accessForResource(g.perms, {r.key}, r.verbs) = a
    BY <2>2, SimpleClaim DEF a
  <2>4. AllOrNamed(F, c.target, g.ns, a) \in SUBSET F
    BY LookedUp
  <2>5. e \in CreateEdges(g.who, AllOrNamed(F, c.target, g.ns, a), c.edge)
    BY <2>1, <2>2, <2>3
  <2>6. e.from = EdgeID(g.who) /\ x \in AllOrNamed(F, c.target, g.ns, a)
    BY <1>0, <2>4, <2>5
  <2> QED  BY <1>1, <2>6, ClaimEdges DEF ClaimedNodes, a
<1>2. CASE c.edge = "Impersonate"
  <2>1. c.target = "ServiceAccount" /\ a = accessForResource(g.perms, {<<"serviceaccounts">>}, {"impersonate"})
    BY <1>2, OtherClaims DEF a
  <2> DEFINE May(key) == accessForResource(g.perms, {<<key>>}, {"impersonate"})
             accounts == Members(F, "ServiceAccount", g.ns, May("serviceaccounts"))
             users == AllOrNamed(F, "User", Unset, May("users"))
             groups == AllOrNamed(F, "Group", Unset, May("groups"))
  <2>2. e \in CreateEdges(g.who, accounts \cup users \cup groups, "Impersonate")
    BY <1>2, GrantRule DEF impersonate
  <2>3. accounts \subseteq F /\ users \subseteq F /\ groups \subseteq F
    <3>1. accounts \subseteq F
      BY FoundMembers
    <3>2. users \subseteq F
      BY LookedUp
    <3>3. groups \subseteq F
      BY LookedUp
    <3> QED  BY <3>1, <3>2, <3>3
  <2>4. e.from = EdgeID(g.who) /\ x \in accounts \cup users \cup groups
    BY <1>0, <2>2, <2>3
  <2>5. x.kind \in {"ServiceAccount", AggregateOf["ServiceAccount"]}
    BY <2>1
  <2>6. x \notin users
    <3>1. "User" \in DOMAIN AggregateOf /\ "ServiceAccount" \in DOMAIN AggregateOf
      BY DEF AggregateOf
    <3>2. x \in users => x.kind \in {"User", AggregateOf["User"]}
      BY FoundKinds
    <3> QED  BY <2>5, <3>1, <3>2, KindsDiffer
  <2>7. x \notin groups
    <3>1. "Group" \in DOMAIN AggregateOf /\ "ServiceAccount" \in DOMAIN AggregateOf
      BY DEF AggregateOf
    <3>2. x \in groups => x.kind \in {"Group", AggregateOf["Group"]}
      BY FoundKinds
    <3> QED  BY <2>5, <3>1, <3>2, KindsDiffer
  <2>8. x \in Members(F, c.target, g.ns, a)
    BY <2>1, <2>4, <2>6, <2>7
  <2> QED  BY <1>2, <2>4, <2>8, ClaimEdges DEF ClaimedNodes, a
<1>3. CASE c.edge = "NodeProxyRCE"
  <2>1. c.target = "Pod"
        /\ a = accessForResource(g.perms, {<<"nodes", "proxy">>}, {"get", "create", "proxy"})
    BY <1>3, OtherClaims DEF a
  <2> DEFINE pods == IF a.all THEN Aggregate(F, "Pod", Unset)
                     ELSE {p \in OfKind(F, "Pod") : p.node # Unset /\ p.node \in a.names}
             hosts == AllOrNamed(F, "Node", Unset, a)
  <2>2. e \in nodeProxy(F, g)
    BY <1>3, GrantRule
  <2>3. g.ns = Unset /\ e \in CreateEdges(g.who, pods \cup hosts, "NodeProxyRCE")
    BY <2>1, <2>2 DEF nodeProxy
  <2>4. pods \cup hosts \subseteq F
    BY LookedUp DEF Aggregate, InSpace, OfKind
  <2>5. e.from = EdgeID(g.who) /\ x \in pods \cup hosts
    BY <1>0, <2>3, <2>4
  <2>6. x \notin hosts
    <3>1. "Node" \in DOMAIN AggregateOf /\ "Pod" \in DOMAIN AggregateOf
      BY DEF AggregateOf
    <3>2. x \in hosts => x.kind \in {"Node", AggregateOf["Node"]}
      BY FoundKinds
    <3>3. x.kind \in {"Pod", AggregateOf["Pod"]}
      BY <2>1
    <3> QED  BY <3>1, <3>2, <3>3, KindsDiffer
  <2> QED  BY <1>3, <2>3, <2>5, <2>6 DEF ClaimedNodes, a
<1>4. CASE c.edge = "SCCUse"
  <2>1. c.target = "SCC" /\ a = accessForResource(g.perms, {<<"securitycontextconstraints">>,
             <<"security.openshift.io", "securitycontextconstraints">>}, {"use"})
    BY <1>4, OtherClaims DEF a
  <2> DEFINE targets == IF a.all THEN OfKind(F, "SCC") ELSE Named(OfKind(F, "SCC"), a)
  <2>2. e \in sccUsage(F, g)
    BY <1>4, GrantRule
  <2>3. g.ns = Unset /\ e \in CreateEdges(g.who, targets, "SCCUse")
    BY <2>1, <2>2 DEF sccUsage
  <2>4. targets \in SUBSET F
    BY DEF Named, OfKind
  <2> HIDE DEF targets
  <2>5. e.from = EdgeID(g.who) /\ x \in targets
    BY <1>0, <2>3, <2>4
  <2> QED  BY <1>4, <2>1, <2>3, <2>5 DEF ClaimedNodes, a, targets
<1>5. CASE c.edge = "WorkloadPatch"
  <2>1. c.target \in Workloads
        /\ a = accessForResource(g.perms, WorkloadKeys[c.target], {"patch", "update"})
    BY <1>5, OtherClaims DEF a
  <2> DEFINE targets(k) == Members(F, k, g.ns, accessForResource(g.perms, WorkloadKeys[k], {"patch", "update"}))
  <2>2. e \in workloadPatch(F, g)
    BY <1>5, GrantRule
  <2>3. PICK k \in Workloads : e \in CreateEdges(g.who, targets(k), "WorkloadPatch")
    BY <2>2 DEF workloadPatch
  <2>4. e.from = EdgeID(g.who) /\ x \in targets(k)
    <3>1. targets(k) \in SUBSET F
      BY FoundMembers
    <3> QED  BY <1>0, <2>3, <3>1
  <2>5. k = c.target
    <3>1. x.kind \in {k, AggregateOf[k]} /\ x.kind \in {c.target, AggregateOf[c.target]}
      BY <2>4, FoundKinds
    <3>2. k \in DOMAIN AggregateOf /\ c.target \in DOMAIN AggregateOf
      BY <2>1, WorkloadKinds
    <3> QED  BY <3>1, <3>2, KindsDiffer
  <2> QED  BY <1>5, <2>1, <2>4, <2>5, ClaimEdges DEF ClaimedNodes, a
<1> QED  BY <1>1, <1>2, <1>3, <1>4, <1>5, ClaimEdges

\* An edge that reaches what is claimed leads to it or to an aggregate of its kind.
LEMMA ReachesClaimed ==
  ASSUME IndInv, stage = "built", NEW c \in Claims, NEW t \in OfKind(facts, c.target),
         NEW e, Reaches(e, EdgeID(t))
  PROVE  \E x \in facts :
           /\ e.to = EdgeID(x)
           /\ \/ x = t
              \/ /\ c.target \in SpacedKinds /\ x.kind = AggregateOf[c.target]
                 /\ x.ns \in {t.ns, Unset}
<1>0. t \in facts /\ t.kind = c.target
  BY DEF OfKind
<1>1. CASE c.edge # "SCCUse"
  <2>1. c.target \in SpacedKinds
    BY <1>1, ClaimEdges
  <2> QED  BY <1>0, <2>1, ReachesObject
<1>2. CASE c.edge = "SCCUse"
  <2>1. t.kind = "SCC"
    BY <1>0, <1>2, OtherClaims
  <2>2. \A k \in SpacedKinds \cup {"ClusterRole"} : "SCC" # k /\ "SCC" # AggregateOf[k]
    BY DEF SpacedKinds, AggregateOf
  <2>3. ASSUME NEW g \in edges, g.kind = "Contains", g.to = EdgeID(t) PROVE FALSE
    <3>1. g \in ContainsEdges(facts)
      BY <2>3, EveryEdge DEF FromRule
    <3>2. PICK o \in facts : g.to = EdgeID(o) /\ \E k \in SpacedKinds \cup {"ClusterRole"} :
                                                   o.kind = k \/ o.kind = AggregateOf[k]
      BY <3>1, ContainedIn
    <3>3. o = t
      BY <1>0, <2>3, <3>2, OneFact
    <3> QED  BY <2>1, <2>2, <3>2, <3>3
  <2> DEFINE Up(ids) == {g.from : g \in {y \in edges : y.kind = "Contains" /\ y.to \in ids}}
             id == EdgeID(t)
  <2>4. e.to \in {id} \cup Up({id}) \cup Up(Up({id}))
    BY DEF Reaches
  <2>5. Up({id}) = {}
    BY <2>3
  <2>6. Up({}) = {}
    OBVIOUS
  <2> HIDE DEF Up
  <2> QED  BY <1>0, <2>4, <2>5, <2>6 DEF id
<1> QED  BY <1>1, <1>2

\* A grant that reaches it is of its namespace or the cluster, and for all or its name.
LEMMA ClaimedBy ==
  ASSUME NEW F, NEW g, NEW c \in Claims, NEW t, t.kind = c.target,
         NEW x \in ClaimedNodes(F, g, c),
         \/ x = t
         \/ /\ c.target \in SpacedKinds /\ x.kind = AggregateOf[c.target]
            /\ x.ns \in {t.ns, Unset},
         NEW a, a = accessForResource(g.perms, KeysOf(c), c.verbs)
  PROVE  g.ns \in {Unset, Asked(c, t).ns} /\ (a.all \/ Asked(c, t).name \in a.names)
<1>0. x.kind = c.target => x = t
  BY KindsApart
<1>1. CASE c.edge = "NodeProxyRCE"
  <2>1. Asked(c, t).ns = Unset /\ Asked(c, t).name = t.node /\ c.target = "Pod"
    BY <1>1, OtherClaims DEF Asked
  <2>2. g.ns = Unset
    BY <1>1 DEF ClaimedNodes
  <2>3. ASSUME ~a.all PROVE x.kind = "Pod" /\ x.node \in a.names
    BY <1>1, <2>2, <2>3 DEF ClaimedNodes, OfKind
  <2> QED  BY <1>0, <2>1, <2>2, <2>3
<1>2. CASE c.edge = "SCCUse"
  <2>1. Asked(c, t).name = t.name
    BY <1>2 DEF Asked
  <2>2. g.ns = Unset
    BY <1>2 DEF ClaimedNodes
  <2>3. ASSUME ~a.all PROVE x.kind = c.target /\ x.name \in a.names
    BY <1>2, <2>2, <2>3 DEF ClaimedNodes, OfKind, Named
  <2> QED  BY <1>0, <2>1, <2>2, <2>3
<1>3. CASE c.edge \notin {"NodeProxyRCE", "SCCUse"}
  <2>1. Asked(c, t).ns = t.ns /\ Asked(c, t).name = t.name /\ c.target \in SpacedKinds
    BY <1>3, ClaimEdges DEF Asked
  <2>2. CASE x \in AllOrNamed(F, c.target, g.ns, a)
    <3>1. CASE a.all
      <4>1. x.kind = AggregateOf[c.target] /\ x.ns = g.ns
        BY <2>2, <3>1 DEF AllOrNamed, Aggregate, InSpace
      <4>2. x # t
        BY <2>1, <4>1, KindsApart
      <4> QED  BY <2>1, <3>1, <4>1, <4>2
    <3>2. CASE ~a.all
      <4>1. x.kind = c.target /\ x.name \in a.names /\ (g.ns = Unset \/ x.ns = g.ns)
        BY <2>2, <3>2 DEF AllOrNamed, Named, InReach, OfKind, InSpace
      <4> QED  BY <1>0, <2>1, <4>1
    <3> QED  BY <3>1, <3>2
  <2>3. CASE x \in InSpace(F, c.target, g.ns) /\ a.all
    <3>1. x.kind = c.target /\ x.ns = g.ns
      BY <2>3 DEF InSpace
    <3> QED  BY <1>0, <2>1, <2>3, <3>1
  <2>4. x \in AllOrNamed(F, c.target, g.ns, a) \/ (x \in InSpace(F, c.target, g.ns) /\ a.all)
    BY <1>3 DEF ClaimedNodes, Members
  <2> QED  BY <2>2, <2>3, <2>4
<1> QED  BY <1>1, <1>2, <1>3

\* AccessGranted, for any roles, bindings and objects whose names the display form
\* cannot confuse: no edge claims what no rule grants.
THEOREM AccessGrantedAlways == Spec => [](Unambiguous => AccessGranted)
<1>1. ASSUME IndInv, Unambiguous PROVE AccessGranted
  <2> SUFFICES ASSUME stage = "built", NEW w \in Who, NEW c \in Claims,
                      NEW t \in OfKind(facts, c.target), Shown(w, c, t)
               PROVE  GrantingRules(w, c, t, TRUE) # {}
    BY DEF AccessGranted
  <2>0. t \in facts /\ t.kind = c.target
    BY DEF OfKind
  <2>1. PICK e \in edges : e.kind = c.edge /\ e.from = EdgeID(w) /\ Reaches(e, EdgeID(t))
    BY DEF Shown
  <2>2. PICK x \in facts :
          /\ e.to = EdgeID(x)
          /\ \/ x = t
             \/ /\ c.target \in SpacedKinds /\ x.kind = AggregateOf[c.target]
                /\ x.ns \in {t.ns, Unset}
    BY <1>1, <2>1, ReachesClaimed
  <2>3. PICK g \in Grants(facts) : e \in AccessEdges(facts, g)
    BY <1>1, <2>1, EveryEdge, ClaimEdges DEF FromRule
  <2>4. \A p, q \in facts : EdgeID(p) = EdgeID(q) => p = q
    BY <1>1, OneFact
  <2>5. e.from = EdgeID(g.who) /\ x \in ClaimedNodes(facts, g, c)
    BY <2>0, <2>1, <2>2, <2>3, <2>4, ClaimRead
  <2> DEFINE a == accessForResource(g.perms, KeysOf(c), c.verbs)
  <2>6. g.ns \in {Unset, Asked(c, t).ns} /\ (a.all \/ Asked(c, t).name \in a.names)
    BY <2>0, <2>2, <2>5, ClaimedBy
  <2>7. Len(c.resource) = 1 => Asked(c, t).name = t.name
    <3>1. c.edge = "NodeProxyRCE" => c.resource = <<"nodes", "proxy">>
      BY DEF Claims
    <3>2. Len(<<"nodes", "proxy">>) # 1
      OBVIOUS
    <3> QED  BY <3>1, <3>2 DEF Asked
  <2>8. EdgeID(g.who) = EdgeID(w)
    BY <2>1, <2>5
  <2> HIDE DEF a
  <2>9. a = accessForResource(g.perms, KeysOf(c), c.verbs)
    BY DEF a
  <2> QED  BY <1>1, <2>6, <2>7, <2>8, <2>9, GrantGrants
<1> QED  BY <1>1, GraphInvariance, PTL

-----------------------------------------------------------------------------
(* Plain rules. *)

\* Each rule of a role is in its display form, and so is each name.
LEMMA Displays ==
  ASSUME NEW role, NEW rule \in role.rules, NEW s \in rule.resources
  PROVE  /\ rule.names = {} => \E p \in PermsDisplay(role) :
                                 p.verbs = rule.verbs /\ p.key = PrefixOf(rule, s)
         /\ \A n \in rule.names : \E p \in PermsDisplay(role) :
              p.verbs = rule.verbs /\ p.key = Append(PrefixOf(rule, s), n)
<1> DEFINE Kept1(q, x) == [group |-> GroupOf(q), resource |-> x, verbs |-> q.verbs, names |-> q.names]
           Of(r) == IF r.names = {} THEN {[key |-> Prefix(r), verbs |-> r.verbs]}
                    ELSE {[key |-> Append(Prefix(r), n), verbs |-> r.verbs] : n \in r.names}
           r == Kept1(rule, s)
           kept == UNION {{Kept1(q, x) : x \in q.resources} : q \in role.rules}
<1>1. BuildRbacRules(role.rules) = kept
  BY DEF BuildRbacRules, GroupOf
<1>2. r \in kept
  OBVIOUS
<1>3. r.names = rule.names /\ r.verbs = rule.verbs /\ r.group = GroupOf(rule) /\ r.resource = s
  OBVIOUS
<1>4. PermsDisplay(role) = UNION {Of(q) : q \in kept}
  BY <1>1 DEF PermsDisplay, BuildRbacRulesDisplay
<1> HIDE DEF r, kept, Kept1
<1>5. Prefix(r) = PrefixOf(rule, s)
  BY <1>3 DEF Prefix, PrefixOf
<1>6. Of(r) \subseteq PermsDisplay(role)
  BY <1>2, <1>4
<1>7. ASSUME rule.names = {}
      PROVE  \E p \in PermsDisplay(role) : p.verbs = rule.verbs /\ p.key = PrefixOf(rule, s)
  <2> DEFINE p == [key |-> Prefix(r), verbs |-> r.verbs]
  <2>1. p \in Of(r)
    BY <1>3, <1>7
  <2>2. p.verbs = rule.verbs /\ p.key = PrefixOf(rule, s)
    BY <1>3, <1>5
  <2> HIDE DEF p, Of
  <2> QED  BY <1>6, <2>1, <2>2
<1>8. ASSUME NEW n \in rule.names
      PROVE  \E p \in PermsDisplay(role) : p.verbs = rule.verbs /\ p.key = Append(PrefixOf(rule, s), n)
  <2> DEFINE p == [key |-> Append(Prefix(r), n), verbs |-> r.verbs]
  <2>1. p \in Of(r)
    BY <1>3
  <2>2. p.verbs = rule.verbs /\ p.key = Append(PrefixOf(rule, s), n)
    BY <1>3, <1>5
  <2> HIDE DEF p, Of
  <2> QED  BY <1>6, <2>1, <2>2
<1> QED  BY <1>7, <1>8

\* The first part of a plain rule that allows a claim is the claim's key.
LEMMA PlainKey ==
  ASSUME NEW rule, Valid(rule), Plain(rule), NEW c \in Claims, NEW n, Allows(rule, c, n)
  PROVE  \E s \in rule.resources :
           \/ rule.names = {} /\ PrefixOf(rule, s) = <<"*">>
           \/ PrefixOf(rule, s) \in KeysOf(c)
<1>1. PICK s \in rule.resources :
        \/ s \in {<<"*">>, c.resource}
        \/ Len(c.resource) = 2 /\ s = <<"*", c.resource[2]>>
  BY DEF Allows
<1> DEFINE P == PrefixOf(rule, s)
           h == GroupOf(rule)
<1>2. /\ h \in ToSet(rule.groups) /\ (h = Unset => P = s)
  BY PrefixShape
<1>3. s[1] = "*" => s = <<"*">> /\ rule.groups = <<Unset>> /\ rule.names = {}
  BY DEF Plain
<1>4. CASE s = c.resource
  <2>1. h \in c.groups
    <3> DEFINE q == rule.groups
               G == ToSet(q)
    <3>1. q \in Seq(G) /\ Len(q) = 1 /\ q # <<"*">> /\ G \cap (c.groups \cup {"*"}) # {}
      BY DEF Valid, Plain, Allows
    <3>2. PICK x \in G : x \in c.groups \cup {"*"}
      BY <3>1
    <3>3. \A y \in G : y = q[1]
      BY <3>1 DEF ToSet
    <3>4. h = x
      BY <1>2, <3>2, <3>3
    <3>5. x # "*"
      <4> SUFFICES ASSUME x = "*" PROVE FALSE
        OBVIOUS
      <4> DEFINE z == <<"*">>
      <4>1. z \in Seq({"*"}) /\ Len(z) = 1 /\ z[1] = "*"
        OBVIOUS
      <4>2. q # z
        BY <3>1
      <4>3. q[1] = "*" /\ G \subseteq {"*"} /\ q \in Seq({"*"})
        BY <3>1, <3>2, <3>3
      <4> HIDE DEF z, q, G
      <4>4. Len(q) = Len(z) /\ \A i \in 1 .. Len(q) : q[i] = z[i]
        BY <3>1, <4>1, <4>3
      <4> QED  BY <4>1, <4>2, <4>3, <4>4, SeqEqual
    <3> QED  BY <3>2, <3>4, <3>5
  <2>2. CASE h = Unset
    BY <1>2, <1>4, <2>2 DEF KeysOf
  <2>3. CASE h # Unset
    <3>1. P = <<h>> \o c.resource
      BY <1>4, <2>3 DEF PrefixOf
    <3> HIDE DEF P, h
    <3>2. P \in KeysOf(c)
      BY <2>1, <2>3, <3>1, Zenon DEF KeysOf
    <3> QED  BY <3>2 DEF P
  <2> QED  BY <2>2, <2>3
<1>5. CASE s # c.resource
  <2>1. s[1] = "*"
    BY <1>1, <1>5
  <2>2. s = <<"*">> /\ rule.groups = <<Unset>> /\ rule.names = {}
    BY <1>3, <2>1
  <2>3. h = Unset
    <3>1. rule.groups # <<>> /\ rule.groups[1] = Unset
      BY <2>2
    <3> QED  BY <3>1 DEF GroupOf
  <2> QED  BY <1>2, <2>2, <2>3
<1> QED  BY <1>4, <1>5

\* What a plain rule allows is read from the display form of its role.
LEMMA KeyKept ==
  ASSUME NEW role, NEW rule \in role.rules, Valid(rule), Plain(rule),
         NEW c \in Claims, NEW n, Allows(rule, c, n),
         NEW a, a = accessForResource(PermsDisplay(role), KeysOf(c), c.verbs)
  PROVE  a.all \/ (n \in a.names /\ n # Unset)
<1> DEFINE perms == PermsDisplay(role)
           usable == {p \in perms : p.verbs \cap (c.verbs \cup {"*"}) # {}}
           all == \E p \in usable : p.key \in KeysOf(c) \cup {<<"*">>}
           named == {Last(p.key) : p \in {q \in usable : Len(q.key) > 1 /\ Front(q.key) \in KeysOf(c)}}
<1>1. a = [all |-> all, names |-> IF all THEN {} ELSE named]
  BY DEF accessForResource
<1>2. PICK s \in rule.resources :
        \/ rule.names = {} /\ PrefixOf(rule, s) = <<"*">>
        \/ PrefixOf(rule, s) \in KeysOf(c)
  BY PlainKey
<1>3. rule.verbs \cap (c.verbs \cup {"*"}) # {} /\ (rule.names = {} \/ n \in rule.names)
  BY DEF Allows
<1>4. rule.names = {} => all
  <2> SUFFICES ASSUME rule.names = {} PROVE all
    OBVIOUS
  <2>1. PICK p \in perms : p.verbs = rule.verbs /\ p.key = PrefixOf(rule, s)
    BY Displays
  <2>2. p \in usable
    BY <1>3, <2>1
  <2> HIDE DEF usable
  <2> QED  BY <1>2, <2>1, <2>2
<1>5. rule.names # {} => n \in named
  <2> SUFFICES ASSUME rule.names # {} PROVE n \in named
    OBVIOUS
  <2> DEFINE P == PrefixOf(rule, s)
             S == ToSet(P)
  <2>0. n \in rule.names /\ P \in KeysOf(c) /\ P \in Seq(S)
    BY <1>2, <1>3, PrefixShape
  <2>1. PICK p \in perms : p.verbs = rule.verbs /\ p.key = Append(P, n)
    BY <2>0, Displays
  <2>2. p \in usable
    BY <1>3, <2>1
  <2> DEFINE k == p.key
  <2>3. Len(k) = Len(P) + 1 /\ Len(P) \in Nat /\ Last(k) = n /\ Front(k) = P
    <3>1. k = Append(P, n) /\ P \in Seq(S)
      BY <2>0, <2>1
    <3> HIDE DEF k, P, S
    <3>2. Last(k) = n /\ Front(k) = P
      BY <3>1, Suffixed, ZenonT(20)
    <3>3. Len(k) = Len(P) + 1 /\ Len(P) \in Nat
      BY <3>1, Suffixed
    <3> QED  BY <3>2, <3>3
  <2>4. Len(P) # 0
    <3>1. PrefixOf(rule, s) \in Seq(ToSet(PrefixOf(rule, s))) /\ Len(s) \in Nat /\ s # <<>>
          /\ s \in Seq(ToSet(s))
          /\ (P = s \/ Len(P) = Len(s) + 1)
      BY PrefixShape
    <3>2. Len(s) # 0
      BY <3>1, EmptySeq
    <3> HIDE DEF P
    <3>3. Len(s) + 1 # 0
      BY <3>1
    <3> QED  BY <3>1, <3>2, <3>3
  <2>5. Len(k) > 1
    <3> HIDE DEF P, k
    <3> QED  BY <2>3, <2>4
  <2> HIDE DEF usable, P
  <2> QED  BY <2>0, <2>2, <2>3, <2>5
<1>6. n \in rule.names => n # Unset
  BY DEF Valid
<1> HIDE DEF all, named
<1> QED  BY <1>1, <1>3, <1>4, <1>5, <1>6

\* What a grant gives on an object leads to it or to an aggregate that contains it.
LEMMA MemberReached ==
  ASSUME IndInv, stage = "built", NEW c \in Claims, NEW t \in OfKind(facts, c.target),
         NEW g, g.ns \in {Unset, Asked(c, t).ns},
         NEW a, a = accessForResource(g.perms, KeysOf(c), c.verbs),
         a.all \/ (Asked(c, t).name \in a.names /\ Asked(c, t).name # Unset)
  PROVE  \E x \in ClaimedNodes(facts, g, c) : \A e : e.to = EdgeID(x) => Reaches(e, EdgeID(t))
<1>0. t \in facts /\ t.kind = c.target
  BY DEF OfKind
<1>1. \A e : e.to = EdgeID(t) => Reaches(e, EdgeID(t))
  BY DEF Reaches
<1>2. ASSUME NEW ns \in {t.ns, Unset}, c.edge # "SCCUse"
      PROVE  \E x \in Aggregate(facts, c.target, ns) : \A e : e.to = EdgeID(x) => Reaches(e, EdgeID(t))
  <2>1. c.target \in SpacedKinds /\ c.target \in ClusterKinds
    BY <1>2, ClaimEdges
  <2> QED  BY <1>2, <2>1, AboveObject
<1>3. CASE c.edge = "NodeProxyRCE"
  <2>1. Asked(c, t).ns = Unset /\ Asked(c, t).name = t.node /\ c.target = "Pod"
    BY <1>3, OtherClaims DEF Asked
  <2>2. g.ns = Unset
    BY <2>1
  <2>3. CASE a.all
    <3>1. ClaimedNodes(facts, g, c) = Aggregate(facts, c.target, Unset)
      BY <1>3, <2>1, <2>2, <2>3 DEF ClaimedNodes
    <3> QED  BY <1>2, <1>3, <3>1
  <2>4. CASE ~a.all
    <3>1. t \in ClaimedNodes(facts, g, c)
      BY <1>3, <2>1, <2>2, <2>4 DEF ClaimedNodes
    <3> QED  BY <1>1, <3>1
  <2> QED  BY <2>3, <2>4
<1>4. CASE c.edge = "SCCUse"
  <2>1. Asked(c, t).ns = t.ns /\ Asked(c, t).name = t.name /\ t.kind = "SCC"
    BY <1>0, <1>4, OtherClaims DEF Asked
  <2>2. t.ns = Unset
    <3>1. "SCC" \notin MadeKinds
      BY DEF MadeKinds, NamedKinds, AggregateKinds, AggregateOf
    <3> QED  BY <1>0, <2>1, <3>1, FactServed DEF Served
  <2>3. t \in ClaimedNodes(facts, g, c)
    BY <1>4, <2>1, <2>2 DEF ClaimedNodes, Named
  <2> QED  BY <1>1, <2>3
<1>5. CASE c.edge \notin {"NodeProxyRCE", "SCCUse"}
  <2>1. Asked(c, t).ns = t.ns /\ Asked(c, t).name = t.name
    BY <1>5 DEF Asked
  <2>2. ClaimedNodes(facts, g, c) =
          IF c.edge \in {"Impersonate", "WorkloadPatch"} THEN Members(facts, c.target, g.ns, a)
          ELSE AllOrNamed(facts, c.target, g.ns, a)
    BY <1>5 DEF ClaimedNodes
  <2>3. t \in InReach(facts, c.target, g.ns) /\ (g.ns # Unset => t \in InSpace(facts, c.target, g.ns))
    BY <1>0, <2>1 DEF InReach, OfKind, InSpace
  <2>4. CASE a.all
    <3>1. CASE ClaimedNodes(facts, g, c) = Aggregate(facts, c.target, g.ns)
      BY <1>2, <1>5, <2>1, <3>1
    <3>2. CASE ClaimedNodes(facts, g, c) = InSpace(facts, c.target, g.ns) /\ g.ns # Unset
      BY <1>1, <2>3, <3>2
    <3> QED  BY <2>2, <2>4, <3>1, <3>2 DEF Members, AllOrNamed
  <2>5. CASE ~a.all
    <3>1. t \in Named(InReach(facts, c.target, g.ns), a)
      BY <2>1, <2>3, <2>5 DEF Named
    <3>2. t \in ClaimedNodes(facts, g, c)
      BY <2>2, <2>5, <3>1 DEF Members, AllOrNamed
    <3> QED  BY <1>1, <3>2
  <2> QED  BY <2>4, <2>5
<1> QED  BY <1>3, <1>4, <1>5

\* PlainAccessShown, for any roles, bindings and objects: what a plain rule gives is in
\* the graph.
THEOREM PlainAccessShownAlways == Spec => []PlainAccessShown
<1>1. ASSUME IndInv PROVE PlainAccessShown
  <2> SUFFICES ASSUME stage = "built", NEW w \in Who, NEW c \in Claims,
                      NEW t \in OfKind(facts, c.target),
                      NEW rule \in GrantingRules(w, c, t, FALSE), Plain(rule)
               PROVE  Shown(w, c, t)
    BY DEF PlainAccessShown
  <2>1. PICK r \in Roles, b \in Bindings(facts) :
          /\ rule \in r.rules /\ Allows(rule, c, Asked(c, t).name)
          /\ Names(b, w) /\ RefersTo(b, r) /\ ~Foreign(b, w)
          /\ b.ns \in {Unset, Asked(c, t).ns}
    BY DEF GrantingRules
  <2>2. Valid(rule)
    BY <1>1, <2>1, ValidRules
  <2> DEFINE g == [ns |-> b.ns, perms |-> PermsDisplay(r), who |-> w]
             bond == [binding |-> EdgeID(b), ns |-> b.ns, role |-> r, who |-> w]
  <2>3. bond \in Bonds(facts)
    <3>1. w \in facts /\ w.kind \in Identities /\ r \in facts /\ r.kind \in RoleKinds
      BY DEF Who, Roles, OfKind
    <3> QED  BY <1>1, <2>1, <3>1, FactsApart, BondOf
  <2>4. g \in Grants(facts)
    <3>1. bond.ns = b.ns /\ bond.role = r /\ bond.who = w
      OBVIOUS
    <3>2. g = [ns |-> bond.ns, perms |-> PermsDisplay(bond.role), who |-> bond.who]
      BY <3>1
    <3> HIDE DEF g, bond
    <3> QED  BY <2>3, <3>2 DEF Grants
  <2>5. g.ns = b.ns /\ g.perms = PermsDisplay(r) /\ g.who = w
    OBVIOUS
  <2> HIDE DEF g, bond
  <2> DEFINE a == accessForResource(g.perms, KeysOf(c), c.verbs)
             n == Asked(c, t).name
  <2>6. a.all \/ (n \in a.names /\ n # Unset)
    <3>1. a = accessForResource(PermsDisplay(r), KeysOf(c), c.verbs) /\ Allows(rule, c, n)
      BY <2>1, <2>5
    <3> HIDE DEF a, n
    <3> QED  BY <2>1, <2>2, <3>1, KeyKept
  <2>7. PICK x \in ClaimedNodes(facts, g, c) : \A e : e.to = EdgeID(x) => Reaches(e, EdgeID(t))
    <3>1. a = accessForResource(g.perms, KeysOf(c), c.verbs) /\ g.ns \in {Unset, Asked(c, t).ns}
      BY <2>1, <2>5
    <3> HIDE DEF a
    <3> QED  BY <1>1, <2>6, <3>1, MemberReached
  <2>8. PICK e \in AccessEdges(facts, g) :
          e.kind = c.edge /\ e.from = EdgeID(w) /\ e.to = EdgeID(x)
    BY <2>5, <2>7, ClaimDrawn
  <2>9. e \in RuleEdges(facts)
    BY <2>4, <2>8 DEF RuleEdges, RbacEdges, AccessEdges
  <2>10. PICK d \in edges : d.kind = e.kind /\ d.from = e.from /\ d.to = e.to
    BY <1>1, <2>9, EdgeLeft
  <2> QED  BY <2>7, <2>8, <2>10 DEF Shown
<1> QED  BY <1>1, GraphInvariance, PTL

=============================================================================
