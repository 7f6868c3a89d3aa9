-------------------------- MODULE MCClustersConfig --------------------------
(* Files of one or two clusters for TLC. *)
EXTENDS ClustersConfig

NoFile == [spelling |-> "", path |-> Path(<<>>, <<>>)]
File(spelling, suffixes) == [spelling |-> spelling, path |-> Path(<<"a">>, suffixes)]

OutputFiles == {NoFile, File("a", <<>>), File("a.jsonl", <<"jsonl">>),
                File("./a.jsonl", <<"jsonl">>), File("a.json", <<"json">>),
                File("a.txt", <<"txt">>)}

Entry(name, accept, file) ==
  [name |-> name, scope |-> "", allNamespaces |-> "", namespace |-> "",
   acceptCRDs |-> accept, discoveryAllowlist |-> "", outputFile |-> file]

Defaults(scope, accept) ==
  [scope |-> scope, allNamespaces |-> "false", namespace |-> "",
   acceptCRDs |-> accept, discoveryAllowlist |-> ""]

\* Paths against each other, every way to set consent, scope and list, and corners.
MCConfig ==
  {[defaults |-> Defaults("core", "true"),
    clusters |-> <<Entry("east", "", f), Entry("west", "", g)>>] :
      f, g \in OutputFiles}
  \cup
  {[defaults |-> [Defaults(s, a) EXCEPT !.discoveryAllowlist = l],
    clusters |-> <<[Entry("east", b, NoFile) EXCEPT !.scope = t],
                   Entry("west", "", NoFile)>>] :
      s, t \in {"core", "all", "allowlist", " ", ""}, a \in {"true", "false"},
      b \in {"", "true", "false"}, l \in {"", "list"}}
  \cup
  {[defaults |-> [Defaults("all", "false") EXCEPT !.discoveryAllowlist = "list",
                                                   !.allNamespaces = "true"],
    clusters |-> <<Entry("east", "", NoFile),
                   [Entry(n, "", NoFile) EXCEPT !.namespace = "prod",
                                                !.allNamespaces = a]>>] :
      n \in {"east", "west"}, a \in {"", "true", "false"}}
  \cup {[defaults |-> Defaults("all", "false"), clusters |-> <<Entry("east", "", NoFile)>>],
        [defaults |-> Defaults("core", "false"), clusters |-> <<>>]}

\* Paths depend on the first three, prompts on the others.
MCFlags ==
  {[checkpointFile |-> c, parse |-> p, zip |-> z, types |-> FALSE, terminal |-> t] :
     c, p, z, t \in BOOLEAN}
  \cup {[checkpointFile |-> FALSE, parse |-> TRUE, zip |-> TRUE, types |-> TRUE,
         terminal |-> TRUE]}

MCExisting == {{}, {Path(<<"a">>, <<"json">>)}, {Path(<<"run">>, <<"checkpoint">>)}}

=============================================================================
