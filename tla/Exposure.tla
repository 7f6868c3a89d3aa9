------------------------------ MODULE Exposure ------------------------------
(***************************************************************************)
(* The edge rules about pods and what leads to them: network routes and    *)
(* policies, controllers, secrets and volumes, host access.                *)
(*                                                                         *)
(* Facts have the fields of the API objects that the rules read.  Labels   *)
(* and selectors are sets of key-value pairs (matchLabels only, as the     *)
(* builders keep them), a host path is the sequence of its parts, where    *)
(* "sock" stands for a last part that ends in .sock.  Descriptions, ports  *)
(* and mount paths are left out of the edges.                              *)
(*                                                                         *)
(* Source: src/internal/edges/{networking,workload,mounts,security}.       *)
(***************************************************************************)
EXTENDS Rbac

Marked(from, to, kind, props) ==
  {[kind |-> kind, from |-> EdgeID(from), to |-> EdgeID(to), props |-> props]}

Pods(F) == OfKind(F, "Pod")
PodsOf(F, o) == InSpace(F, "Pod", o.ns)
NodeOf(F, p) == {n \in OfKind(F, "Node") : n.name = p.node /\ p.node # Unset}
External(F) == OfKind(F, "External")
NamedIn(F, kind, ns, name) == {o \in InSpace(F, kind, ns) : o.name = name}

\* Init containers are kept apart and no rule looks at them.
Containers(p) == {c \in p.containers : ~c.init}

LabelsMatchOnly(labels, selector) == selector \subseteq labels

-----------------------------------------------------------------------------
(* Networking. *)

\* Mutant: a policy without labels selects no pod.
podSelectedByNetworkPolicy_Empty(F, p) ==
  \E np \in InSpace(F, "NetworkPolicy", p.ns) :
    np.selector # {} /\ LabelsMatchOnly(p.labels, np.selector)

podSelectedByNetworkPolicy(F, p) ==
  \E np \in InSpace(F, "NetworkPolicy", p.ns) : LabelsMatchOnly(p.labels, np.selector)

serviceRoutesTo(F) ==
  UNION {UNION {
    Marked(s, p, "RoutesTo",
           IF podSelectedByNetworkPolicy(F, p) THEN {<<"networkPolicyRestricted">>} ELSE {}) :
      p \in {x \in PodsOf(F, s) : LabelsMatchOnly(x.labels, s.selector)}} :
    s \in {x \in OfKind(F, "Service") : x.selector # {}}}

\* Mutant: a policy without labels applies to the pods of the whole cluster.
networkPolicyEdges_Cluster(F) ==
  UNION {CreateEdges(np, IF np.selector = {} THEN Aggregate(F, "Pod", Unset)
           ELSE {p \in PodsOf(F, np) : LabelsMatchOnly(p.labels, np.selector)}, "AppliesTo") :
         np \in OfKind(F, "NetworkPolicy")}

networkPolicyEdges(F) ==
  UNION {CreateEdges(np, IF np.selector = {} THEN Aggregate(F, "Pod", np.ns)
           ELSE {p \in PodsOf(F, np) : LabelsMatchOnly(p.labels, np.selector)}, "AppliesTo") :
         np \in OfKind(F, "NetworkPolicy")}

RouteKinds == {"HTTPRoute", "GRPCRoute", "TCPRoute", "TLSRoute"}
BackendKinds == RouteKinds \cup {"Ingress", "Route"}

routeBackendsToServices(F) ==
  UNION {CreateEdges(r,
           UNION {NamedIn(F, "Service", IF b.ns = Unset THEN r.ns ELSE b.ns, b.name) :
                  b \in {x \in r.backends : x.name # Unset}}, "RoutesTo") :
         r \in UNION {OfKind(F, k) : k \in BackendKinds}}

gatewayRouteEdges(F) ==
  UNION {CreateEdges(g,
           {r \in UNION {OfKind(F, k) : k \in RouteKinds} :
              [ns |-> g.ns, name |-> g.name] \in r.parents}, "RoutesTo") :
         g \in OfKind(F, "Gateway")}

\* Mutant: edges from the outside do not wait for the node that stands for it.
externalRoutes_Assumed(F) ==
  LET open == {s \in OfKind(F, "Service") : s.type \in {"NodePort", "LoadBalancer"}}
  IN CreateEdges([kind |-> "External", ns |-> Unset, name |-> "outside"],
       open \cup UNION {OfKind(F, k) : k \in {"Ingress", "Route", "Gateway"}},
       "ExternalRoutesTo")

externalRoutes(F) ==
  LET open == {s \in OfKind(F, "Service") : s.type \in {"NodePort", "LoadBalancer"}}
  IN UNION {CreateEdges(x,
              open \cup UNION {OfKind(F, k) : k \in {"Ingress", "Route", "Gateway"}},
              "ExternalRoutesTo") : x \in External(F)}

-----------------------------------------------------------------------------
(* Workload. *)

\* In the order in which the environment is collected.
ControllerOrder == <<"Deployment", "DaemonSet", "StatefulSet", "Job", "CronJob">>
Controllers(F) == UNION {OfKind(F, k) : k \in ToSet(ControllerOrder)}

\* A controller without matchLabels has no edges.
controllerEdges(F) ==
  UNION {CreateEdges(o,
           {p \in PodsOf(F, o) : o.selector # {} /\ LabelsMatchOnly(p.labels, o.selector)},
           "ManagedBy") : o \in Controllers(F)}

VolumeKind == [Secret |-> "secret", ConfigMap |-> "configmap",
               PersistentVolumeClaim |-> "persistentVolumeClaim"]

mountedBy(F, p) ==
  UNION {UNION {CreateEdges(o, {p}, "MountedBy") :
                o \in {x \in InSpace(F, k, p.ns) :
                         \E v \in p.volumes : v.type = VolumeKind[k] /\ v.ref = x.name}} :
         k \in DOMAIN VolumeKind}

\* Mutant: every container counts, init containers too.
Users_Init(p, o, way) ==
  {c.name : c \in {x \in p.containers :
                     [from |-> way, kind |-> o.kind, ref |-> o.name] \in x.env}}

\* The containers that take the object in one of the two ways.
Users(p, o, way) ==
  {c.name : c \in {x \in Containers(p) :
                     [from |-> way, kind |-> o.kind, ref |-> o.name] \in x.env}}

envVars(F, p) ==
  UNION {IF Users(p, o, way) = {} THEN {}
         ELSE Marked(o, p, "EnvVars", {<<way, c>> : c \in Users(p, o, way)}) :
         o \in InSpace(F, "Secret", p.ns) \cup InSpace(F, "ConfigMap", p.ns),
         way \in {"envFrom", "valueFrom"}}

podEdges(F) ==
  UNION {CreateEdges(p, NodeOf(F, p), "ScheduledOn") \cup mountedBy(F, p) \cup envVars(F, p) :
         p \in Pods(F)}

secretEdges(F) ==
  UNION {CreateEdges(s, {a \in InSpace(F, "ServiceAccount", s.ns) : s.name \in a.secrets},
                     "SAToken") :
         s \in {x \in OfKind(F, "Secret") : x.type = "kubernetes.io/service-account-token"}}

-----------------------------------------------------------------------------
(* Mounts. *)

HostPathMatchesAny(path, roots) == \E r \in roots : IsPrefix(r, path)

IsSocket(path) == path # <<>> /\ Last(path) = "sock"
ReadRoots == {<<"etc">>, <<"root">>, <<"home">>, <<"proc">>, <<"var", "lib", "kubelet", "pods">>,
              <<"var", "run">>, <<"sys">>, <<"dev">>, <<"run">>, <<"usr">>}
KubeletRoots == {<<"var", "lib", "kubelet">>, <<"etc", "kubernetes">>}

HostVolumes(p) == {v \in p.volumes : v.type = "hostPath"}

\* Whether a container mounts one of these volumes.
MountsOne(p, volumes) ==
  \E c \in Containers(p) : \E m \in c.mounts, v \in volumes : m.name = v.name

hostMount(p) ==
  (IF MountsOne(p, {v \in HostVolumes(p) : HostPathMatchesAny(v.path, ReadRoots)
                                             /\ ~IsSocket(v.path)})
   THEN {"hostMountSensitive"} ELSE {})
  \cup
  (IF MountsOne(p, {v \in HostVolumes(p) : HostPathMatchesAny(v.path, KubeletRoots)})
   THEN {"mountedKubelet"} ELSE {})

podMountsServiceAccountToken(p) ==
  IF p.sa = "default" THEN p.automount = "true" ELSE p.automount # "false"

mountSA(F) ==
  UNION {CreateEdges(p, NamedIn(F, "ServiceAccount", p.ns,
                                IF p.sa = Unset THEN "default" ELSE p.sa), "mountSA") :
         p \in {x \in Pods(F) : podMountsServiceAccountToken(x)}}

pvBoundToPVC(F) ==
  UNION {CreateEdges(v, NamedIn(F, "PersistentVolumeClaim", v.claim.ns, v.claim.name),
                     "BoundTo") :
         v \in {x \in OfKind(F, "PersistentVolume") : x.claim.ns # Unset /\ x.claim.name # Unset}}

-----------------------------------------------------------------------------
(* Security. *)

\* NormalizeCapability: with or without its prefix.
HasCapability(p, cap) == cap \in p.caps
capabilityDescriptions == {"SYS_ADMIN", "NET_ADMIN", "SYS_MODULE", "SYS_PTRACE", "SYS_RAWIO"}

Privileged(p) == \E c \in Containers(p) : c.privileged

\* Root in a container that may run as root.
RunsAsRoot(p) ==
  \E c \in Containers(p) : (c.privileged \/ c.user = "root") /\ ~c.nonRoot

Escapes(p) == [
  CE_PRIV_MOUNT |-> Privileged(p),
  CE_NSENTER |-> "PID" \in p.host /\ Privileged(p),
  CE_SYS_PTRACE |-> Privileged(p) \/
    ("PID" \in p.host /\ HasCapability(p, "SYS_PTRACE") /\ HasCapability(p, "SYS_ADMIN")),
  \* Any writable mount counts, whichever volume it mounts.
  CE_UMH_CORE_PATTERN |->
    /\ \E v \in HostVolumes(p) :
         v.path \in {<<"proc">>, <<"proc", "sys">>, <<"proc", "sys", "kernel">>}
    /\ \E c \in Containers(p) : \E m \in c.mounts : ~m.readOnly,
  MOUNT_CONTAINER_SOCKET |-> \E v \in HostVolumes(p) : IsSocket(v.path),
  CE_VAR_LOG_SYMLINK |->
    RunsAsRoot(p) /\ \E v \in HostVolumes(p) : v.path \in {<<"var">>, <<"var", "log">>},
  CE_HOST_IPC |-> "IPC" \in p.host /\ (Privileged(p) \/ HasCapability(p, "SYS_ADMIN")),
  CE_HOST_NETWORK |-> "Network" \in p.host /\
    (Privileged(p) \/ HasCapability(p, "NET_ADMIN") \/ HasCapability(p, "NET_RAW")),
  CE_SHARE_PROC_NS |-> p.shareProc /\ (Privileged(p) \/ HasCapability(p, "SYS_PTRACE"))]

\* What a pod may do to the node it runs on, if that node was collected.
toNode(F) ==
  UNION {UNION {CreateEdges(p, NodeOf(F, p), k) :
                k \in hostMount(p) \cup {e \in DOMAIN Escapes(p) : Escapes(p)[e]}
                      \cup {c \in capabilityDescriptions : HasCapability(p, c)}} : p \in Pods(F)}

sccEdges(F) ==
  UNION {CreateEdges(s, {p \in Pods(F) : p.scc = s.name}, "EnforcedSCC") : s \in OfKind(F, "SCC")}

hostPorts(F) ==
  UNION {UNION {CreateEdges(n, {p}, "HostPort")
                \cup UNION {CreateEdges(x, {n}, "ExternalHostPort") : x \in External(F)} :
                n \in NodeOf(F, p)} :
         p \in {x \in Pods(F) : \E c \in Containers(x) : c.hostPort}}

-----------------------------------------------------------------------------
(* The environment shown on the node of a pod (parser/pod_env_enrichment.go). *)

\* The definitions in the containers of a pod or of a controller's template.
Definitions(o) ==
  UNION {{[container |-> c.name, from |-> e.from, kind |-> e.kind, ref |-> e.ref] : e \in c.env} :
         c \in o.containers}

\* Mutant: controllers of every namespace are asked.
EnvControllers_AnySpace(F, p) ==
  {o \in Controllers(F) : o.selector # {} /\ LabelsMatchOnly(p.labels, o.selector)}

\* Jobs and cron jobs without matchLabels are passed over, the others are not.
EnvControllers(F, p) ==
  {o \in Controllers(F) :
     /\ o.ns = p.ns /\ LabelsMatchOnly(p.labels, o.selector)
     /\ o.kind \in {"Job", "CronJob"} => o.selector # {}}

\* Mutant: what the controllers define replaces what the pod defines.
podEnv_Replaced(F, p) ==
  UNION {{[def |-> d, source |-> EdgeID(o)] : d \in Definitions(o)} : o \in EnvControllers(F, p)}

\* Each definition once, as its first controller's if it has one.  Which of two
\* controllers of a kind comes first depends on the lines: any one of them here.
podEnv(F, p) ==
  LET Having(d, k) == {o \in EnvControllers(F, p) : o.kind = k /\ d \in Definitions(o)}
      Source(d) ==
        LET kinds == {i \in DOMAIN ControllerOrder : Having(d, ControllerOrder[i]) # {}}
        IN IF kinds = {} THEN p ELSE CHOOSE o \in Having(d, ControllerOrder[Min(kinds)]) : TRUE
  IN {[def |-> d, source |-> EdgeID(Source(d))] :
        d \in UNION {Definitions(o) : o \in {p} \cup EnvControllers(F, p)}}

-----------------------------------------------------------------------------
ExposureEdges(F) ==
  serviceRoutesTo(F) \cup networkPolicyEdges(F) \cup routeBackendsToServices(F)
  \cup gatewayRouteEdges(F) \cup externalRoutes(F) \cup controllerEdges(F) \cup podEdges(F)
  \cup secretEdges(F) \cup mountSA(F) \cup pvBoundToPVC(F) \cup toNode(F) \cup sccEdges(F)
  \cup hostPorts(F)

=============================================================================
