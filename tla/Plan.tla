-------------------------------- MODULE Plan --------------------------------
(***************************************************************************)
(* How a new collection decides what it will collect: API discovery, the   *)
(* scope or allowlist, the confirmation of custom resources, one named     *)
(* collection per resource, the types asked for, the namespaces, and the   *)
(* checkpoint that pins all of it for every later resume.                  *)
(*                                                                         *)
(* Texts (groups, versions, plurals, kinds) are sequences of tokens: words *)
(* of lower-case letters and digits, the separators below and "^", which   *)
(* says that the next letter is a capital.  The order of plan.Targets is   *)
(* not modelled: jobs run in any order.                                    *)
(*                                                                         *)
(* Source: src/internal/collector/{discovery,allowlist,plan,config,        *)
(* target_helpers,collector,checkpoint}.go, src/internal/cli/collect.go.   *)
(***************************************************************************)
EXTENDS Integers, SequencesExt

CONSTANTS
  Word,             \* the words and signs that texts are made of
  Catalogue,        \* what the API server serves, in discovery's sort order
  Curated,          \* DefaultDiscoveryAllowlist
  Version,          \* the texts isAPIVersion accepts
  Request,          \* the collect requests of the instance
  Namespace,        \* sets of namespaces the cluster may have are subsets of it
  ContextNamespace  \* the namespace of the kubeconfig's context

VARIABLES
  stage,       \* how far CollectService.Run has come
  request,     \* CollectRequest
  found,       \* policy.discoveredResources
  crdsListed,  \* the CustomResourceDefinitions could be listed
  answer,      \* what the CRD prompt was answered
  chosen,      \* policy.filteredResources
  collections, \* CollectionsConfig.Collections
  plan,        \* the aliases of CollectionPlan
  targets,     \* the targets of this collection
  namespaces,  \* namespacesToCollect
  checkpoint   \* what the saved checkpoint pins

discovery == <<found, crdsListed>>
selection == <<answer, chosen>>
planned == <<collections, plan, targets>>
vars == <<stage, request, discovery, selection, planned, namespaces, checkpoint>>

-----------------------------------------------------------------------------
(* Texts. *)

Core == <<>>  \* the API group of pods, services, nodes
AnyPart == <<>>   \* a part of an allowlist entry that matches everything
Unnamed == ""     \* no namespace

Swap(t, a, b) == [i \in DOMAIN t |-> IF t[i] = a THEN b ELSE t[i]]
normalizeTypeKey(t) == SelectSeq(t, LAMBDA c : c \notin {"-", ".", "_", "/", "^"})
isValidName(t) == t # <<>> /\ ToSet(t) \cap {".", "/", "*", "^"} = {}
isValidResourceType(t) == isValidName(t) /\ ~Contains(t, "-")

\* The elements of s at the positions of P, in the order of s.
Place(P) == [i \in P |-> Cardinality({k \in P : k <= i})]
At(s, P) == [n \in 1 .. Cardinality(P) |-> s[CHOOSE i \in P : Place(P)[i] = n]]

\* The elements of s that are in S.
Those(s, S) == At(s, {i \in DOMAIN s : s[i] \in S})

\* The first element of s with each key.
DistinctBy(key, s) ==
  At(s, {i \in DOMAIN s : \A k \in 1 .. i - 1 : key[s[k]] # key[s[i]]})

Distinct(s) == DistinctBy([x \in ToSet(s) |-> x], s)

-----------------------------------------------------------------------------
(* What is assumed of the cluster and of the requests. *)

Text == Seq(Word)

Resource ==
  [group : Text, version : Text, plural : Text, kind : Text, short : Seq(Text),
   namespaced : BOOLEAN, crd : BOOLEAN, custom : {FALSE},
   hint : {"none", "full", "metadata"}]

ASSUME WordAssumption == {"core", "_"} \subseteq Word

\* DiscoverResources keeps one resource per group and plural.  Both are DNS names,
\* which have no underscore, and no API group is the single word core.
ASSUME CatalogueAssumption ==
  /\ Catalogue \in Seq(Resource)
  /\ \A i, k \in DOMAIN Catalogue :
       i # k => \/ Catalogue[i].group # Catalogue[k].group
                \/ Catalogue[i].plural # Catalogue[k].plural
  /\ \A r \in ToSet(Catalogue) : /\ "_" \notin ToSet(r.group) \cup ToSet(r.plural)
                                 /\ r.group # <<"core">>

\* A cluster has finitely many namespaces, each with a name; a context without
\* one stands for "default" (GetContextNamespace).
ASSUME NamespaceAssumption ==
  IsFiniteSet(Namespace) /\ Unnamed \notin Namespace \cup {ContextNamespace}

ASSUME RequestAssumption ==
  \A q \in Request : /\ q.types \in Seq(Text) /\ q.namespaces \in Seq(Word)
                     /\ {q.accept, q.full, q.allNamespaces} \subseteq BOOLEAN

-----------------------------------------------------------------------------
(* The allowlist.  A line is the sequence of its parts between slashes. *)

AllowlistEntry(g, v, r) == [group |-> IF g = <<"core">> THEN Core ELSE g,
                            version |-> v, plural |-> r]

ParseLine(l) ==
  CASE Len(l) = 1 /\ Contains(l[1], ".") -> AllowlistEntry(l[1], AnyPart, AnyPart)
    [] Len(l) = 1 /\ ~Contains(l[1], ".") -> AllowlistEntry(AnyPart, AnyPart, l[1])
    [] Len(l) = 2 /\ l[1] \in Version -> AllowlistEntry(AnyPart, l[1], l[2])
    [] Len(l) = 2 /\ l[1] \notin Version /\ l[2] \in Version ->
         AllowlistEntry(l[1], l[2], AnyPart)
    [] Len(l) = 2 /\ l[1] \notin Version /\ l[2] \notin Version ->
         AllowlistEntry(l[1], AnyPart, IF l[2] = <<"*">> THEN AnyPart ELSE l[2])
    [] Len(l) = 3 -> AllowlistEntry(l[1], l[2], IF l[3] = <<"*">> THEN AnyPart ELSE l[3])

ValidFile(lines) == \A l \in lines : Len(l) <= 3

matchesAllowlist(r, e) ==
  /\ e.group \in {AnyPart, r.group}
  /\ e.version \in {AnyPart, r.version}
  /\ e.plural \in {AnyPart, r.plural}

FilterDiscoveredResources(rs, allowlist) ==
  Those(rs, {r \in ToSet(rs) : \E e \in allowlist : matchesAllowlist(r, e)})

\* resolveCollectScope: core with an allowlist file means allowlist.
Scope(q) == IF q.scope = "core" /\ q.file THEN "allowlist" ELSE q.scope
ValidScope(q) == Scope(q) = "allowlist" => q.file

-----------------------------------------------------------------------------
(* One collection per resource. *)

IsDefinition(r) == /\ r.group = <<"apiextensions", ".", "k8s", ".", "io">>
                   /\ r.plural = <<"customresourcedefinitions">>
Collectable(rs) == Those(rs, {r \in ToSet(rs) : ~IsDefinition(r)})

\* Mutant: two resources of the same plural share one name.
NameOf_Plural(rs, r) == r.plural

NameOf(rs, r) ==
  IF \E q \in ToSet(rs) : q # r /\ q.plural = r.plural
  THEN r.plural \o <<"_">>
         \o Swap(IF r.group = Core THEN <<"core">> ELSE r.group, ".", "_")
  ELSE r.plural

defaultFetchMode(r) ==
  CASE r.hint # "none" -> r.hint
    [] r.hint = "none" /\ r.custom -> "metadata"
    [] r.hint = "none" /\ ~r.custom -> "full"

BuildCollections(rs, full) ==
  LET all == [i \in DOMAIN rs |->
                [name |-> NameOf(rs, rs[i]), resource |-> rs[i],
                 fetch |-> IF full THEN "full" ELSE defaultFetchMode(rs[i])]]
  IN DistinctBy([c \in ToSet(all) |-> c.name], all)

ResourceType(c) == Swap(c.name, "-", "_")

\* CollectionsConfig.Validate.
ValidCollections(cs) ==
  /\ cs # <<>>
  /\ \A i \in DOMAIN cs : /\ isValidName(cs[i].name)
                          /\ isValidResourceType(ResourceType(cs[i]))
                          /\ cs[i].resource.version # <<>>
                          /\ cs[i].resource.plural # <<>>
  /\ \A i, k \in DOMAIN cs : i # k => /\ cs[i].name # cs[k].name
                                      /\ ResourceType(cs[i]) # ResourceType(cs[k])

-----------------------------------------------------------------------------
(* The aliases a type may be asked for by. *)

APIPath(r) == (IF r.group = Core THEN <<>> ELSE r.group \o <<"/">>)
                \o r.version \o <<"/">> \o r.plural
Aliases(c) == <<c.name, c.resource.kind>> \o c.resource.short
                \o <<APIPath(c.resource)>>

NoPlan == [lookup |-> {}, ambiguous |-> {}]

\* Mutant: an ambiguous alias is deleted and may be taken again.
addAlias_Forgets(p, a) ==
  LET known == {e \in p.lookup : e.key = a.key}
  IN CASE a.key = <<>> \/ a \in known -> p
       [] a.key # <<>> /\ known = {} -> [p EXCEPT !.lookup = @ \cup {a}]
       [] OTHER -> [p EXCEPT !.lookup = @ \ known]

addAlias(p, a) ==
  LET known == {e \in p.lookup : e.key = a.key}
  IN CASE a.key = <<>> \/ a \in known \/ a.key \in p.ambiguous -> p
       [] a.key # <<>> /\ known = {} /\ a.key \notin p.ambiguous ->
            [p EXCEPT !.lookup = @ \cup {a}]
       [] OTHER -> [lookup |-> p.lookup \ known,
                    ambiguous |-> p.ambiguous \cup {a.key}]

addAliases(p, c) ==
  FoldLeft(addAlias, p, [i \in DOMAIN Aliases(c) |->
                           [key |-> normalizeTypeKey(Aliases(c)[i]), name |-> c.name]])

NewCollectionPlan(cs) == FoldLeft(addAliases, NoPlan, cs)

Known(p, type) == \E e \in p.lookup : e.key = normalizeTypeKey(type)
Resolved(p, type) == (CHOOSE e \in p.lookup : e.key = normalizeTypeKey(type)).name

Target(c) == [name |-> c.name, version |-> c.resource.version,
              plural |-> c.resource.plural, fetch |-> c.fetch,
              clusterScoped |-> ~c.resource.namespaced]

\* Mutant: a type asked for twice is collected twice.
TargetsForTypes_Twice(cs, p, types) ==
  IF types = <<>> THEN [i \in DOMAIN cs |-> Target(cs[i])]
  ELSE [i \in DOMAIN types |->
          Target(CHOOSE c \in ToSet(cs) : c.name = Resolved(p, types[i]))]

TargetsForTypes(cs, p, types) ==
  LET of(type) == Target(CHOOSE c \in ToSet(cs) : c.name = Resolved(p, type))
  IN IF types = <<>> THEN [i \in DOMAIN cs |-> Target(cs[i])]
     ELSE Distinct([i \in DOMAIN types |-> of(types[i])])

-----------------------------------------------------------------------------
(* The checkpoint. *)

NoCheckpoint == [targets |-> <<>>, namespaces |-> <<>>, remaining |-> 0]

CreateCheckpoint(ts, ns) ==
  [targets |-> ts, namespaces |-> ns,
   remaining |-> FoldLeft(LAMBDA n, t : n + IF t.clusterScoped THEN 1 ELSE Len(ns),
                          0, ts)]

\* The jobs ValidateResume derives, each by the positions of its target and its
\* namespace; a cluster-scoped target is collected once, for no namespace.
Jobs(c) == {j \in (1 .. Len(c.targets)) \X (0 .. Len(c.namespaces)) :
              c.targets[j[1]].clusterScoped <=> j[2] = 0}
JobKey(c, j) == <<c.targets[j[1]].name,
                  IF j[2] = 0 THEN Unnamed ELSE c.namespaces[j[2]]>>

\* ValidateResume of a checkpoint without completed jobs.
ValidateResume(c) ==
  /\ c.targets # <<>>
  /\ Unnamed \notin ToSet(c.namespaces)
  /\ IsInjective(c.namespaces)
  /\ \A t \in ToSet(c.targets) : /\ <<>> \notin {t.name, t.version, t.plural}
                                 /\ t.fetch \in {"full", "metadata"}
  /\ \A j, k \in Jobs(c) : JobKey(c, j) = JobKey(c, k) => j = k
  /\ c.remaining = Cardinality(Jobs(c))

-----------------------------------------------------------------------------
(* CollectService.Run up to the first saved checkpoint. *)

Init ==
  /\ stage = "discover" /\ request \in Request
  /\ found = <<>> /\ crdsListed = FALSE
  /\ answer = "none" /\ chosen = <<>>
  /\ collections = <<>> /\ plan = NoPlan /\ targets = <<>>
  /\ namespaces = <<>> /\ checkpoint = NoCheckpoint

\* Groups whose discovery fails are left out with a warning; without the list of
\* definitions no resource is known to be custom.
Discover ==
  /\ stage = "discover" /\ ValidScope(request)
  /\ stage' = "filter"
  /\ crdsListed' \in BOOLEAN
  /\ \E failed \in SUBSET {r.group : r \in ToSet(Catalogue)} :
        found' = LET served == Those(Catalogue, {r \in ToSet(Catalogue) : r.group \notin failed})
                 IN [i \in DOMAIN served |->
                       [served[i] EXCEPT !.custom = crdsListed' /\ served[i].crd]]
  /\ UNCHANGED <<request, selection, planned, namespaces, checkpoint>>

\* An invalid scope, a failed discovery, or an allowlist that does not parse.
DiscoverFails ==
  /\ stage = "discover"
  /\ stage' = "refused"
  /\ UNCHANGED <<request, discovery, selection, planned, namespaces, checkpoint>>

Allowlist(q) ==
  Curated \cup (IF Scope(q) = "allowlist" THEN {ParseLine(l) : l \in q.lines} ELSE {})

InScope(q, rs) ==
  IF Scope(q) = "all" THEN rs ELSE FilterDiscoveredResources(rs, Allowlist(q))

FilterByScope ==
  /\ stage = "filter" /\ ValidFile(request.lines) /\ request.types = <<>>
  /\ chosen' = InScope(request, found)
  /\ stage' = IF chosen' = <<>> THEN "refused" ELSE "confirm"
  /\ UNCHANGED <<request, discovery, answer, planned, namespaces, checkpoint>>

\* Types asked for by name override scope, allowlist and confirmation.
SkipFilter ==
  /\ stage = "filter" /\ ValidFile(request.lines) /\ request.types # <<>>
  /\ chosen' = found
  /\ stage' = "build"
  /\ UNCHANGED <<request, discovery, answer, planned, namespaces, checkpoint>>

BadAllowlist ==
  /\ stage = "filter" /\ ~ValidFile(request.lines)
  /\ stage' = "refused"
  /\ UNCHANGED <<request, discovery, selection, planned, namespaces, checkpoint>>

CustomCount == Cardinality({i \in DOMAIN chosen : chosen[i].custom})

\* Mutant: one custom resource passes without a question.
MustConfirm_FromTwo == CustomCount > 1 /\ ~request.accept

MustConfirm == CustomCount >= 1 /\ ~request.accept

NoCRDsToConfirm ==
  /\ stage = "confirm" /\ ~MustConfirm
  /\ stage' = "build"
  /\ UNCHANGED <<request, discovery, selection, planned, namespaces, checkpoint>>

WithoutCustom(rs) == Those(rs, {r \in ToSet(rs) : ~r.custom})

\* A terminal: the user is asked.
PromptForCRDs ==
  /\ stage = "confirm" /\ MustConfirm
  /\ answer' \in {"yes", "no"}
  /\ chosen' = IF answer' = "yes" THEN chosen ELSE WithoutCustom(chosen)
  /\ stage' = "build"
  /\ UNCHANGED <<request, discovery, planned, namespaces, checkpoint>>

\* No terminal: custom resources are skipped with a warning.
SkipCRDs ==
  /\ stage = "confirm" /\ MustConfirm
  /\ chosen' = WithoutCustom(chosen)
  /\ stage' = "build"
  /\ UNCHANGED <<request, discovery, answer, planned, namespaces, checkpoint>>

\* The prompt could not read a line.
PromptFails ==
  /\ stage = "confirm" /\ MustConfirm
  /\ stage' = "refused"
  /\ UNCHANGED <<request, discovery, selection, planned, namespaces, checkpoint>>

ListOnly ==
  /\ stage = "build" /\ request.listOnly
  /\ stage' = "listed"
  /\ UNCHANGED <<request, discovery, selection, planned, namespaces, checkpoint>>

BuildPlan ==
  /\ stage = "build" /\ ~request.listOnly
  /\ LET cs == BuildCollections(Collectable(chosen), request.full)
     IN IF ValidCollections(cs)
        THEN stage' = "select" /\ collections' = cs /\ plan' = NewCollectionPlan(cs)
        ELSE stage' = "invalid" /\ UNCHANGED <<collections, plan>>
  /\ UNCHANGED <<request, discovery, selection, targets, namespaces, checkpoint>>

SelectTargets ==
  /\ stage = "select"
  /\ \A i \in DOMAIN request.types : Known(plan, request.types[i])
  /\ targets' = TargetsForTypes(collections, plan, request.types)
  /\ stage' = "namespaces"
  /\ UNCHANGED <<request, discovery, selection, collections, plan, namespaces,
                 checkpoint>>

UnknownType ==
  /\ stage = "select"
  /\ \E i \in DOMAIN request.types : ~Known(plan, request.types[i])
  /\ stage' = "refused"
  /\ UNCHANGED <<request, discovery, selection, planned, namespaces, checkpoint>>

\* ParseNamespaces: the parts between commas, already trimmed.
ParseNamespaces(parts) ==
  LET named == Those(parts, ToSet(parts) \ {Unnamed})
  IN IF named = <<>> THEN <<"default">> ELSE named

\* Mutant: the namespaces are not made unique.
UniqueNamespaces_AsGiven(ns) == ns

UniqueNamespaces(ns) == Distinct(ns)

ListNamespaces ==
  /\ stage = "namespaces" /\ request.allNamespaces
  /\ \E ns \in SUBSET Namespace : namespaces' = UniqueNamespaces(SetToSeq(ns))
  /\ stage' = "save"
  /\ UNCHANGED <<request, discovery, selection, planned, checkpoint>>

\* Without -n the context's namespace, or "default" when there is none.
NamedNamespaces ==
  /\ stage = "namespaces" /\ ~request.allNamespaces
  /\ \E context \in {"default", ContextNamespace} :
        namespaces' = UniqueNamespaces(
          IF request.namespaces = <<>> THEN <<context>>
          ELSE ParseNamespaces(request.namespaces))
  /\ stage' = "save"
  /\ UNCHANGED <<request, discovery, selection, planned, checkpoint>>

\* The namespaces cannot be listed, or the kubeconfig cannot be read.
NamespacesFail ==
  /\ stage = "namespaces"
  /\ request.allNamespaces \/ request.namespaces = <<>>
  /\ stage' = "refused"
  /\ UNCHANGED <<request, discovery, selection, planned, namespaces, checkpoint>>

SavePlan ==
  /\ stage = "save"
  /\ checkpoint' = CreateCheckpoint(targets, namespaces)
  /\ stage' = "saved"
  /\ UNCHANGED <<request, discovery, selection, planned, namespaces>>

Next ==
  \/ Discover \/ DiscoverFails
  \/ FilterByScope \/ SkipFilter \/ BadAllowlist
  \/ NoCRDsToConfirm \/ PromptForCRDs \/ SkipCRDs \/ PromptFails
  \/ ListOnly \/ BuildPlan
  \/ SelectTargets \/ UnknownType
  \/ ListNamespaces \/ NamedNamespaces \/ NamespacesFail
  \/ SavePlan

Spec == Init /\ [][Next]_vars

-----------------------------------------------------------------------------
(* Properties. *)

\* The variables have their types.
TypeOK ==
  /\ stage \in {"discover", "filter", "confirm", "build", "select", "namespaces",
                "save", "saved", "refused", "invalid", "listed"}
  /\ request \in Request /\ crdsListed \in BOOLEAN /\ answer \in {"none", "yes", "no"}
  /\ ToSet(chosen) \subseteq ToSet(found)
  /\ \A r \in ToSet(found) : [r EXCEPT !.custom = FALSE] \in ToSet(Catalogue)
  /\ \A c \in ToSet(collections) : c.resource \in ToSet(chosen)
  /\ ToSet(targets) \subseteq {Target(c) : c \in ToSet(collections)}
  /\ ToSet(namespaces) \subseteq Namespace \cup {"default", ContextNamespace}
                                 \cup ToSet(request.namespaces)

\* A job is recorded by its target's name alone (BuildCollectionsConfigFromDiscovery):
\* every resource that was chosen, two of the same plural in different groups
\* included, has exactly one collection, and a name stands for one resource.
NamesIdentify ==
  collections # <<>> =>
    /\ \A r \in ToSet(Collectable(chosen)) :
         Cardinality({i \in DOMAIN collections : collections[i].resource = r}) = 1
    /\ \A i, k \in DOMAIN collections :
         collections[i].name = collections[k].name => i = k

Carriers(key) ==
  {c.name : c \in {d \in ToSet(collections) :
                     \E i \in DOMAIN Aliases(d) : normalizeTypeKey(Aliases(d)[i]) = key}}
Keys == (UNION {{normalizeTypeKey(Aliases(d)[i]) : i \in DOMAIN Aliases(d)} :
                  d \in ToSet(collections)}) \ {<<>>}

\* addAlias: an alias resolves exactly when one collection carries it, whatever
\* order the collections come in and however many share it.
AliasesUnique ==
  stage = "select" =>
    /\ plan.lookup = {[key |-> k, name |-> CHOOSE n \in Carriers(k) : TRUE] :
                        k \in {j \in Keys : Cardinality(Carriers(j)) = 1}}
    /\ plan.ambiguous = {j \in Keys : Cardinality(Carriers(j)) > 1}

\* What is saved can be resumed: the checkpoint of every plan the code accepts
\* passes ValidateResume, so no finished setup ends in a dead checkpoint.
SavedPlanResumable == stage = "saved" => ValidateResume(checkpoint)

Unasked == stage = "saved" /\ request.types = <<>>
Collected == {c.resource : c \in {d \in ToSet(collections) : Target(d) \in ToSet(targets)}}

\* Custom resources are collected only after --accept-crds or a yes, when the
\* cluster let the tool know which resources are custom.
CRDsNeedConsent ==
  Unasked /\ crdsListed /\ ~request.accept /\ answer # "yes" =>
    \A r \in Collected : ~r.crd

=============================================================================
