------------------------------- MODULE MCPlan -------------------------------
(* A cluster with plurals and kinds shared by several groups, for TLC. *)
EXTENDS Plan

Res(g, v, p, k, s, ns, crd, hint) ==
  [group |-> g, version |-> v, plural |-> p, kind |-> k, short |-> s,
   namespaced |-> ns, crd |-> crd, custom |-> FALSE, hint |-> hint]

MCWord == STRING
V1 == <<"v1">>
Mesh == <<"mesh", ".", "io">>
Dash == <<"my", "-", "org">>
Dot == <<"my", ".", "org">>
Knative == <<"serving", ".", "knative">>
Apiextensions == <<"apiextensions", ".", "k8s", ".", "io">>
Service == <<"^", "service">>

MCCatalogue == <<
  Res(Core, V1, <<"nodes">>, <<"^", "node">>, <<<<"no">>>>, FALSE, FALSE, "full"),
  Res(Core, V1, <<"services">>, Service, <<<<"svc">>>>, TRUE, FALSE, "full"),
  Res(Apiextensions, V1, <<"customresourcedefinitions">>, <<"^", "crd">>, <<>>,
      FALSE, FALSE, "none"),
  Res(Mesh, <<"v1beta1">>, <<"services">>, Service, <<>>, TRUE, TRUE, "metadata"),
  Res(Dash, V1, <<"gadgets">>, <<"^", "gadget">>, <<>>, TRUE, TRUE, "none"),
  Res(Dot, V1, <<"gadgets">>, <<"^", "gadget">>, <<<<"no">>>>, TRUE, TRUE, "none"),
  Res(Knative, V1, <<"services">>, Service, <<<<"kservice">>>>, TRUE, TRUE, "none")>>

MCCurated == {
  AllowlistEntry(Core, V1, <<"services">>),
  AllowlistEntry(Core, V1, <<"nodes">>),
  AllowlistEntry(Apiextensions, V1, <<"customresourcedefinitions">>)}

MCVersion == {V1, <<"v1beta1">>}

Base == [scope |-> "all", file |-> FALSE, lines |-> {}, types |-> <<>>,
         accept |-> FALSE, full |-> FALSE, listOnly |-> FALSE,
         allNamespaces |-> FALSE, namespaces |-> <<"b", "", "a", "b">>]

\* Every documented form of a line, a bare group, a bare resource, core, a bad line.
Files == {
  {<<Dot, V1, <<"gadgets">>>>, <<Mesh, <<"v1beta1">>>>},
  {<<Knative, <<"services">>>>, <<Dash, <<"*">>>>},
  {<<V1, <<"gadgets">>>>},
  {<<<<"core">>, <<"*">>>>},
  {<<<<"core">>, V1, <<"*">>>>, <<Mesh>>, <<<<"gadgets">>>>},
  {<<Mesh, V1, <<"services">>, <<"status">>>>}}

Types == {<<<<"svc">>, <<"kservice">>, <<"svc">>>>,
          <<<<"services", "_", "core">>, APIPath(MCCatalogue[2])>>,
          <<Service>>, <<<<"no">>, <<"^", "node">>>>, <<<<"gone">>>>}

MCRequest ==
  {[Base EXCEPT !.scope = s, !.accept = a, !.full = f] :
     s \in {"core", "all", "allowlist"}, a, f \in BOOLEAN}
  \cup {[Base EXCEPT !.scope = s, !.file = TRUE, !.lines = l, !.accept = TRUE] :
          s \in {"core", "allowlist"}, l \in Files}
  \cup {[Base EXCEPT !.types = t, !.file = TRUE, !.lines = {<<Mesh>>}] : t \in Types}
  \cup {[Base EXCEPT !.accept = TRUE, !.allNamespaces = TRUE],
        [Base EXCEPT !.accept = TRUE, !.namespaces = <<>>],
        [Base EXCEPT !.accept = TRUE, !.namespaces = <<"", "">>],
        [Base EXCEPT !.listOnly = TRUE]}

=============================================================================
