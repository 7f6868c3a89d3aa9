------------------------------- MODULE Upload -------------------------------
(***************************************************************************)
(* The upload command: internal/cli/upload.go and internal/upload.  One or *)
(* several operators run it against one BloodHound server, repeat it after *)
(* a failure, and may run it at the same time.  Every request of a run can *)
(* be refused, or carried out by the server with its answer lost; a run    *)
(* has one deadline for all its requests, and can be killed, also while it *)
(* waits for an answer.                                                    *)
(*                                                                         *)
(* The server is external: it is modelled by what the client relies on.    *)
(***************************************************************************)
EXTENDS Integers, Sequences, FiniteSets

CONSTANTS
    Client,           \* the operators who run the command
    Requests,         \* which flags they may give, each a function from Client
    UserQueries,      \* the queries of the operator's file, by name
    EmbeddedQueries,  \* the queries built into the program
    MaxRuns,          \* bound: how often an operator runs the command
    MaxFaults         \* bound: failed requests, lost answers, deadlines, kills

FileKind == {"none", "embedded", "good", "missing", "malformed"}

\* UploadRequest: which files are given, of which kind, and the other flags.
Request ==
    [schema  : FileKind,
     queries : FileKind \cup {"empty", "badTemplate"},
     upload  : {"none", "unset", "good", "malformed"},
     reset   : BOOLEAN,
     resetDB : BOOLEAN,
     enable  : BOOLEAN]

ASSUME RequestAssumption == Requests \subseteq [Client -> Request]
ASSUME BoundAssumption == MaxRuns \in Nat /\ MaxFaults \in Nat

\* custom_queries.json, of which a build takes its queries, has some, and so has the
\* operator's file when it is good (one that has none is "empty"); the data that was
\* there is nobody's.
ASSUME QueriesAssumption == EmbeddedQueries # {} /\ UserQueries # {}
ASSUME ClientAssumption == "old" \notin Client

VARIABLES
    embedded,    \* whether the program is built with its own schema and queries
    \* the server
    flag,        \* the feature flag of extension management
    exts,        \* extensions, as [id, name, content]
    queries,     \* saved queries, as [id, name]
    graph,       \* where the collected data comes from: "old" or an operator
    jobs,        \* upload jobs ever started, as [state, files]
    nextId,      \* the next id of an extension or query
    \* each run of the command
    pc,          \* its stage
    req,         \* its UploadRequest
    todo,        \* ids still to delete, or queries still to import
    job,         \* the id of its upload job, 0 if none
    expired,     \* its deadline has passed
    \* history and bounds
    alone,       \* no other run overlapped with this one
    failures,    \* requests of this run that failed or were never answered
    runs, faults

server == <<flag, exts, queries, graph, jobs, nextId>>
vars == <<embedded, server, pc, req, todo, job, expired, alone, failures, runs, faults>>

Idle == {"idle", "done", "failed", "killed"}
Running(c) == pc[c] \notin Idle

-----------------------------------------------------------------------------
(* The order of the stages *)

\* The early branch of Run in which nothing but the reset is asked for.
ResetOnly(r) ==
    r.reset /\ r.schema = "none" /\ r.queries = "none" /\ ~r.resetDB /\ r.upload = "none"

\* A reset without a schema or queries to replace, but not alone: neither branch of Run
\* that resets is taken (src/cmd/upload.go:90 says "Reset existing custom data before
\* uploading").
ResetIgnored(r) ==
    r.reset /\ r.schema = "none" /\ r.queries = "none" /\ ~ResetOnly(r)

\* The stages in which Run tests its flags, and the flag each one tests.
Asks(r, stage) ==
    CASE stage = "resetDB" -> r.resetDB
      [] stage = "flags" -> r.enable
      [] stage = "resetAll" -> ResetOnly(r)
      [] stage = "loadSchema" -> ~ResetOnly(r) /\ r.schema # "none"
      [] stage = "loadQueries" -> ~ResetOnly(r) /\ r.queries # "none"
      [] stage = "readFile" -> ~ResetOnly(r) /\ r.upload # "none"

Order == <<"resetDB", "flags", "resetAll", "loadSchema", "loadQueries", "readFile">>

\* The first stage from the i-th on that the request asks for.
FirstFrom(r, i) ==
    LET asked == {k \in i..Len(Order) : Asks(r, Order[k])}
    IN  IF asked = {} THEN "done"
        ELSE Order[CHOOSE k \in asked : \A l \in asked : k <= l]

After(r, stage) == FirstFrom(r, 1 + CHOOSE k \in 1..Len(Order) : Order[k] = stage)

\* Nothing asked for: the run ends with an error before it creates a client.
Pointless(r) ==
    r.schema = "none" /\ r.queries = "none" /\ r.upload = "none" /\ ~r.reset /\ ~r.enable

\* Mutant: a file that cannot be merged is not noticed.
LoadFails_Unmerged(kind) == kind = "missing" \/ (kind = "embedded" /\ ~embedded)

\* loadAndMergeConfig returns an error.
LoadFails(kind) ==
    \/ kind = "embedded" /\ ~embedded
    \/ kind = "missing"
    \/ kind = "malformed" /\ embedded

\* The queries of the file that is uploaded.
Wanted(r) ==
    CASE r.queries = "embedded" -> EmbeddedQueries
      [] r.queries = "empty" -> IF embedded THEN EmbeddedQueries ELSE {}
      [] OTHER -> UserQueries \cup (IF embedded THEN EmbeddedQueries ELSE {})

-----------------------------------------------------------------------------
Builtin == {"builtin"}

Init ==
    /\ embedded \in BOOLEAN
    /\ flag \in BOOLEAN
    /\ exts \in {{[id |-> 1, name |-> "builtin", content |-> "old"],
               [id |-> 2, name |-> "custom", content |-> "old"]} \cup more :
                 more \in SUBSET {[id |-> 3, name |-> "kubernetes", content |-> "old"]}}
    /\ queries = {[id |-> 4, name |-> "own"]}
    /\ graph = {"old"}
    /\ jobs = << >>
    /\ nextId = 5
    /\ pc = [c \in Client |-> "idle"]
    /\ req \in Requests
    /\ todo = [c \in Client |-> {}]
    /\ job = [c \in Client |-> 0]
    /\ expired = [c \in Client |-> FALSE]
    /\ alone = [c \in Client |-> TRUE]
    /\ failures = [c \in Client |-> 0]
    /\ runs = [c \in Client |-> 0]
    /\ faults = 0

\* The operator runs the command, again with the same flags after a failure.
Start(c) ==
    /\ pc[c] \in {"idle", "failed", "killed"}
    /\ runs[c] < MaxRuns
    /\ runs' = [runs EXCEPT ![c] = @ + 1]
    /\ pc' = [pc EXCEPT ![c] = IF Pointless(req[c]) THEN "failed" ELSE FirstFrom(req[c], 1)]
    /\ todo' = [todo EXCEPT ![c] = {}]
    /\ job' = [job EXCEPT ![c] = 0]
    /\ expired' = [expired EXCEPT ![c] = FALSE]
    /\ failures' = [failures EXCEPT ![c] = 0]
    /\ alone' = [d \in Client |->
                    IF d = c THEN \A e \in Client \ {c} : ~Running(e)
                    ELSE alone[d] /\ (Running(d) => Pointless(req[c]))]
    /\ UNCHANGED <<embedded, server, req, faults>>

\* A local step: nothing is sent.
Local(c, stage) ==
    /\ pc' = [pc EXCEPT ![c] = stage]
    /\ UNCHANGED <<embedded, server, req, job, expired, alone, failures, runs, faults>>

(***************************************************************************)
(* One request, doRequest.  The server carries it out (effect) and the     *)
(* answer arrives (reply, next); or it carries it out and the answer is    *)
(* lost; or the request never takes effect.  An expired deadline fails it  *)
(* before it is sent.  A failed request ends the run, except within an     *)
(* upload job, which UploadOutput's deferred call still ends.  The process *)
(* may also be stopped between the effect and the answer.                  *)
(***************************************************************************)
\* Mutant: no deferred call.
OnError_NoDefer(c) == IF pc[c] = "deferredEnd" THEN "deferredEnd" ELSE "failed"

OnError(c) == IF pc[c] \in {"sendFile", "endJob"} THEN "deferredEnd" ELSE "failed"

RequestFails(c) ==
    /\ pc' = [pc EXCEPT ![c] = OnError(c)]
    /\ failures' = [failures EXCEPT ![c] = @ + 1]
    /\ UNCHANGED <<todo, job>>

StoppedWaiting(c) ==
    /\ pc' = [pc EXCEPT ![c] = "killed"]
    /\ failures' = [failures EXCEPT ![c] = @ + 1]
    /\ UNCHANGED <<todo, job>>

Unanswered(c) == RequestFails(c) \/ StoppedWaiting(c)

Call(c, effect, reply, next) ==
    /\ \/ /\ ~expired[c]
          /\ effect
          /\ reply
          /\ pc' = [pc EXCEPT ![c] = next]
          /\ UNCHANGED <<failures, faults>>
       \/ /\ ~expired[c] /\ faults < MaxFaults
          /\ faults' = faults + 1
          /\ effect \/ UNCHANGED server
          /\ Unanswered(c)
       \/ /\ expired[c]
          /\ UNCHANGED <<server, faults>>
          /\ RequestFails(c)
    /\ UNCHANGED <<embedded, req, expired, alone, runs>>

\* A request the server turns down, whatever the client does.
TurnedDown(c) ==
    /\ RequestFails(c)
    /\ UNCHANGED <<embedded, server, req, expired, alone, runs, faults>>

NoReply == UNCHANGED <<todo, job>>

-----------------------------------------------------------------------------
(* ResetDatabase, EnableOpenGraphExtensions *)

ResetDatabase(c) ==
    /\ pc[c] = "resetDB"
    /\ Call(c, graph' = {} /\ UNCHANGED <<flag, exts, queries, jobs, nextId>>,
            NoReply, After(req[c], "resetDB"))

\* Mutant: the flag is toggled without a look at it.
ReadFlags_Blind(c) ==
    /\ pc[c] = "flags"
    /\ Call(c, UNCHANGED server, NoReply, "toggle")

\* getFeatureFlags; nothing more to do when the flag is enabled.
ReadFlags(c) ==
    /\ pc[c] = "flags"
    /\ Call(c, UNCHANGED server, NoReply,
            IF flag THEN After(req[c], "flags") ELSE "toggle")

\* Mutant: the answer to the toggle is not looked at.
Toggle_Unchecked(c) ==
    /\ pc[c] = "toggle"
    /\ Call(c, flag' = ~flag /\ UNCHANGED <<exts, queries, graph, jobs, nextId>>,
            NoReply, After(req[c], "flags"))

\* The server flips the flag; an answer that does not say "enabled" is an error.
Toggle(c) ==
    /\ pc[c] = "toggle"
    /\ Call(c, flag' = ~flag /\ UNCHANGED <<exts, queries, graph, jobs, nextId>>,
            NoReply, IF ~flag THEN After(req[c], "flags") ELSE "failed")

-----------------------------------------------------------------------------
(* ResetExtensions and ResetQueries: a listing, then one deletion at a time *)

\* The branch of a run that only resets, and the two places a reset precedes an upload.
ResetAll(c) ==
    /\ pc[c] = "resetAll"
    /\ Local(c, "listExts")
    /\ UNCHANGED todo

AfterExts(r) == IF ResetOnly(r) THEN "listQueries" ELSE "putSchema"
AfterQueries(r) == IF ResetOnly(r) THEN "done" ELSE "checkQueries"

Custom == {e \in exts : e.name \notin Builtin}

GetExtensions(c) ==
    /\ pc[c] = "listExts"
    /\ Call(c, UNCHANGED server,
            todo' = [todo EXCEPT ![c] = {e.id : e \in Custom}] /\ UNCHANGED job,
            IF Custom = {} THEN AfterExts(req[c]) ELSE "deleteExts")

DeleteExtension(c) ==
    /\ pc[c] = "deleteExts"
    /\ \E id \in todo[c] :
        IF \E e \in exts : e.id = id
        THEN Call(c, exts' = {e \in exts : e.id # id}
                         /\ UNCHANGED <<flag, queries, graph, jobs, nextId>>,
                  todo' = [todo EXCEPT ![c] = @ \ {id}] /\ UNCHANGED job,
                  IF todo[c] = {id} THEN AfterExts(req[c]) ELSE "deleteExts")
        ELSE TurnedDown(c)

getQueries(c) ==
    /\ pc[c] = "listQueries"
    /\ Call(c, UNCHANGED server,
            todo' = [todo EXCEPT ![c] = {q.id : q \in queries}] /\ UNCHANGED job,
            IF queries = {} THEN AfterQueries(req[c]) ELSE "deleteQueries")

deleteQuery(c) ==
    /\ pc[c] = "deleteQueries"
    /\ \E id \in todo[c] :
        IF \E q \in queries : q.id = id
        THEN Call(c, queries' = {q \in queries : q.id # id}
                         /\ UNCHANGED <<flag, exts, graph, jobs, nextId>>,
                  todo' = [todo EXCEPT ![c] = @ \ {id}] /\ UNCHANGED job,
                  IF todo[c] = {id} THEN AfterQueries(req[c]) ELSE "deleteQueries")
        ELSE TurnedDown(c)

-----------------------------------------------------------------------------
(* Schema and queries *)

\* loadAndMergeConfig for the schema, before anything is reset.
LoadSchema(c) ==
    /\ pc[c] = "loadSchema"
    /\ Local(c, IF LoadFails(req[c].schema) THEN "failed"
                ELSE IF req[c].reset THEN "listExts" ELSE "putSchema")
    /\ UNCHANGED todo

\* UploadExtension reads the file and finds that it is not JSON.
BadSchema(c) ==
    /\ pc[c] = "putSchema" /\ req[c].schema = "malformed"
    /\ Local(c, "failed")
    /\ UNCHANGED todo

\* The server keeps one extension of a name, under its old id or a new one.
UploadExtension(c) ==
    /\ pc[c] = "putSchema" /\ req[c].schema # "malformed"
    /\ \E id \in {e.id : e \in {x \in exts : x.name = "kubernetes"}} \cup {nextId} :
        Call(c, /\ exts' = {e \in exts : e.name # "kubernetes"} \cup
                           {[id |-> id, name |-> "kubernetes", content |-> "new"]}
                /\ nextId' = IF id = nextId THEN nextId + 1 ELSE nextId
                /\ UNCHANGED <<flag, queries, graph, jobs>>,
             NoReply, After(req[c], "loadSchema"))

LoadQueries(c) ==
    /\ pc[c] = "loadQueries"
    /\ Local(c, IF LoadFails(req[c].queries) THEN "failed"
                ELSE IF req[c].reset THEN "listQueries" ELSE "checkQueries")
    /\ UNCHANGED todo

\* UploadQueriesFromFile reads the file, refuses an empty one and renders templates.
CheckQueries(c) ==
    /\ pc[c] = "checkQueries"
    /\ LET bad == \/ req[c].queries \in {"malformed", "badTemplate"}
                  \/ Wanted(req[c]) = {}
       IN  /\ Local(c, IF bad THEN "failed" ELSE "importQueries")
           /\ todo' = [todo EXCEPT ![c] = IF bad THEN {} ELSE Wanted(req[c])]

uploadQuery(c) ==
    /\ pc[c] = "importQueries"
    /\ \E name \in todo[c] :
        Call(c, /\ queries' = queries \cup {[id |-> nextId, name |-> name]}
                /\ nextId' = nextId + 1
                /\ UNCHANGED <<flag, exts, graph, jobs>>,
             todo' = [todo EXCEPT ![c] = @ \ {name}] /\ UNCHANGED job,
             IF todo[c] = {name} THEN After(req[c], "loadQueries") ELSE "importQueries")

-----------------------------------------------------------------------------
(* UploadOutput: one job for one file *)

ReadFile(c) ==
    /\ pc[c] = "readFile"
    /\ Local(c, IF req[c].upload = "good" THEN "startJob" ELSE "failed")
    /\ UNCHANGED todo

createUploadJob(c) ==
    /\ pc[c] = "startJob"
    /\ Call(c, jobs' = Append(jobs, [state |-> "open", files |-> 0])
                   /\ UNCHANGED <<flag, exts, queries, graph, nextId>>,
            job' = [job EXCEPT ![c] = Len(jobs) + 1] /\ UNCHANGED todo,
            "sendFile")

uploadFileToJob(c) ==
    /\ pc[c] = "sendFile"
    /\ Call(c, jobs' = [jobs EXCEPT ![job[c]].files = @ + 1]
                   /\ UNCHANGED <<flag, exts, queries, graph, nextId>>,
            NoReply, "endJob")

\* Ending a job makes the server ingest its files.
EndEffect(c) ==
    /\ jobs' = [jobs EXCEPT ![job[c]].state = "ended"]
    /\ graph' = graph \cup (IF jobs[job[c]].files > 0 THEN {c} ELSE {})
    /\ UNCHANGED <<flag, exts, queries, nextId>>

\* completeUploadJob on the normal way, and from the deferred call after an error.
completeUploadJob(c) ==
    /\ pc[c] = "endJob"
    /\ Call(c, EndEffect(c), NoReply, "done")

\* Mutant: the deferred call hides the error.
DeferredEnd_Done(c) ==
    /\ pc[c] = "deferredEnd"
    /\ IF jobs[job[c]].state = "open"
       THEN Call(c, EndEffect(c), NoReply, "done")
       ELSE TurnedDown(c)

DeferredEnd(c) ==
    /\ pc[c] = "deferredEnd"
    /\ IF jobs[job[c]].state = "open"
       THEN Call(c, EndEffect(c), NoReply, "failed")
       ELSE TurnedDown(c)

-----------------------------------------------------------------------------
\* The deadline of the whole run passes between two requests.
Expire(c) ==
    /\ Running(c) /\ ~expired[c]
    /\ faults < MaxFaults
    /\ faults' = faults + 1
    /\ expired' = [expired EXCEPT ![c] = TRUE]
    /\ UNCHANGED <<embedded, server, pc, req, todo, job, alone, failures, runs>>

\* The process is stopped; no signal is handled and no deferred call runs.
Kill(c) ==
    /\ Running(c)
    /\ faults < MaxFaults
    /\ faults' = faults + 1
    /\ pc' = [pc EXCEPT ![c] = "killed"]
    /\ UNCHANGED <<embedded, server, req, todo, job, expired, alone, failures, runs>>

Step(c) ==
    \/ ResetDatabase(c) \/ ReadFlags(c) \/ Toggle(c) \/ ResetAll(c)
    \/ GetExtensions(c) \/ DeleteExtension(c) \/ getQueries(c) \/ deleteQuery(c)
    \/ LoadSchema(c) \/ BadSchema(c) \/ UploadExtension(c)
    \/ LoadQueries(c) \/ CheckQueries(c) \/ uploadQuery(c)
    \/ ReadFile(c) \/ createUploadJob(c) \/ uploadFileToJob(c)
    \/ completeUploadJob(c) \/ DeferredEnd(c)

Next == \E c \in Client : Start(c) \/ Step(c) \/ Expire(c) \/ Kill(c)

Spec == Init /\ [][Next]_vars
FairSpec == Spec /\ \A c \in Client : WF_vars(Start(c)) /\ WF_vars(Step(c))

-----------------------------------------------------------------------------
(* Properties *)

Stage ==
    Idle \cup {Order[k] : k \in 1..Len(Order)} \cup
    {"toggle", "listExts", "deleteExts", "putSchema", "listQueries", "deleteQueries",
     "checkQueries", "importQueries", "startJob", "sendFile", "endJob", "deferredEnd"}

ServerTypes ==
    /\ embedded \in BOOLEAN /\ flag \in BOOLEAN
    /\ nextId \in Nat \ {0}
    /\ exts \subseteq [id : 1..nextId, name : {"builtin", "custom", "kubernetes"},
                      content : {"old", "new"}]
    /\ queries \subseteq [id : 1..nextId, name : {"own"} \cup UserQueries \cup EmbeddedQueries]
    /\ graph \subseteq {"old"} \cup Client
    /\ jobs \in Seq([state : {"open", "ended"}, files : {0, 1}])

RunTypes ==
    /\ pc \in [Client -> Stage]
    /\ req \in Requests
    /\ job \in [Client -> Nat] /\ failures \in [Client -> Nat]
    /\ todo = [c \in Client |-> todo[c]]
    /\ expired \in [Client -> BOOLEAN] /\ alone \in [Client -> BOOLEAN]
    /\ runs \in [Client -> 0..MaxRuns] /\ faults \in 0..MaxFaults

TypeOK == ServerTypes /\ RunTypes

\* A run that learnt the number of its upload job ends it whatever one request does:
\* a refused file, a refused end, a lost answer.  Left aside: a passed deadline, which
\* the deferred call shares with the request that failed, and a second failure.  A job
\* whose number never arrived is unknown to the run (job is 0) and stays open.
JobsEnded ==
    [][\A c \in Client :
          Running(c) /\ pc'[c] \in {"done", "failed"} /\ job[c] # 0 =>
              \/ jobs'[job[c]].state = "ended"
              \/ expired[c]
              \/ failures'[c] >= 2]_vars

\* What the server holds once a run with its request has succeeded.  A reset covers
\* what is replaced: extensions with a schema, queries with queries, both alone.
Fulfilled(c) ==
    LET r == req[c]
        kubernetes == {e \in exts : e.name = "kubernetes" /\ e.content = "new"}
        named(name) == {q \in queries : q.name = name}
        onlyWanted == /\ {q.name : q \in queries} = Wanted(r)
                      /\ \A name \in Wanted(r) : Cardinality(named(name)) = 1
    IN  /\ r.enable => flag
        /\ r.resetDB => "old" \notin graph
        /\ r.schema # "none" => kubernetes # {}
        /\ r.queries # "none" => \A name \in Wanted(r) : named(name) # {}
        /\ r.upload # "none" => c \in graph
        /\ r.reset =>
               \/ ResetIgnored(r)
               \/ r.schema # "none" /\ r.queries # "none" /\ Custom = kubernetes /\ onlyWanted
               \/ r.schema # "none" /\ r.queries = "none" /\ Custom = kubernetes
               \/ r.schema = "none" /\ r.queries # "none" /\ onlyWanted
               \/ ResetOnly(r) /\ Custom = {} /\ queries = {}

\* A run that reports success while no other run overlapped with it has done what it
\* was asked for, whatever earlier runs left behind when they failed halfway, with
\* one exception: of a reset that comes only with --upload-file or --reset-db it has
\* done nothing (ResetIgnored, against the help).
SuccessIsComplete ==
    [][\A c \in Client :
          Running(c) /\ pc'[c] = "done" /\ alone[c] => Fulfilled(c)']_vars

\* The toggle of the feature flag is not idempotent.  Two runs that both read
\* "disabled" may turn it off again, and the one that does reports an error, unless it
\* was stopped before it saw the answer; it never goes on.
DisabledIsReported ==
    [][flag /\ ~flag' => \E c \in Client : Running(c) /\ pc'[c] \in {"failed", "killed"}]_vars

\* The first run, and the only one so far.
First(c) == alone[c] /\ \A d \in Client : runs[d] = IF d = c THEN 1 ELSE 0

\* A bad file that is only found after the reset: a template is rendered then, and
\* without embedded data to merge with, loadAndMergeConfig does not look into a file.
FoundLate(r) ==
    \/ r.queries = "badTemplate"
    \/ ~embedded /\ (r.schema = "malformed" \/ r.queries \in {"malformed", "empty"})

\* Files are loaded and merged before anything is reset: a run whose requests all
\* succeed and which fails over a file leaves extensions and queries on the server (the
\* old ones or its own), in every build, save for the bad files that are FoundLate.
BadFileDeletesNothing ==
    \A c \in Client :
        /\ First(c) /\ pc[c] = "failed" /\ failures[c] = 0 /\ ~expired[c]
        /\ ~FoundLate(req[c])
        => /\ \E e \in exts : e.name \notin Builtin
           /\ queries # {}

\* The files of the request can be read and uploaded.
Sound(r) ==
    /\ ~Pointless(r)
    /\ ~LoadFails(r.schema) /\ ~LoadFails(r.queries)
    /\ r.schema # "malformed" /\ r.queries \notin {"malformed", "badTemplate"}
    /\ r.queries # "none" => Wanted(r) # {}
    /\ r.upload \notin {"unset", "malformed"}

\* An operator who repeats the command after each failure, with no other run in the
\* way, succeeds in the end: no partial reset, half-imported list, flipped flag or
\* open job stands in the way.
EventuallyDone ==
    \A c \in Client : Sound(req[c]) /\ []alone[c] => <>(pc[c] = "done")

-----------------------------------------------------------------------------
(* The inductive invariant *)

\* The stages in which a run has an upload job.
JobStage == {"sendFile", "endJob", "deferredEnd"}

\* A run within an upload job knows a job of the server that is no other run's;
\* until it sends the file the job is empty, until it ends the job the job is open.
JobKnown ==
    /\ \A c \in Client : pc[c] \in JobStage => job[c] \in 1..Len(jobs)
    /\ \A c, d \in Client :
           pc[c] \in JobStage /\ pc[d] \in JobStage /\ c # d => job[c] # job[d]
    /\ \A c \in Client : pc[c] = "sendFile" => jobs[job[c]].files = 0
    /\ \A c \in Client : pc[c] \in {"sendFile", "endJob"} => jobs[job[c]].state = "open"
    /\ \A c \in Client : Running(c) /\ pc[c] \notin JobStage => job[c] = 0

\* The deferred call follows a failure; what is left to import are queries.
PastAndFuture ==
    \A c \in Client :
        /\ pc[c] = "deferredEnd" => failures[c] >= 1
        /\ pc[c] = "importQueries" => todo[c] \subseteq UserQueries \cup EmbeddedQueries

IndInv == TypeOK /\ JobKnown /\ PastAndFuture

\* A first run in which nothing was refused so far and whose bad files are found early.
Careful(c) ==
    First(c) /\ failures[c] = 0 /\ ~expired[c] /\ ~FoundLate(req[c])

\* Where in such a run the reset may have emptied the server: extensions are back once
\* the schema is sent, queries once they are imported; a run that only resets goes on
\* to its end without a file.
Emptied(c) ==
    \/ pc[c] \in {"deleteExts", "putSchema", "done", "killed"}
    \/ ResetOnly(req[c]) /\ pc[c] \in {"listQueries", "deleteQueries"}
NoQueries == {"deleteQueries", "checkQueries", "importQueries", "done", "killed"}

\* What is deleted comes back from a file that was read before.
Intact(c) ==
    /\ pc[c] \in {"listExts", "deleteExts", "putSchema"} => req[c].schema # "malformed"
    /\ pc[c] \in {"listQueries", "deleteQueries", "checkQueries"} => req[c].queries # "malformed"
    /\ Emptied(c) \/ Custom # {}
    /\ pc[c] \in NoQueries \/ queries # {}

\* Nothing changes before the first run, and a careful one loses nothing.
FilesFirst ==
    /\ \A c \in Client : runs[c] = 0 => pc[c] = "idle"
    /\ (\A c \in Client : runs[c] = 0) => Custom # {} /\ queries # {}
    /\ \A c \in Client :
           /\ pc[c] = "resetAll" => ResetOnly(req[c])
           /\ Careful(c) => Intact(c)

\* The stages of one flag, by its place in Order; a reset alone has those of both
\* resets.  The deferred call and the ends other than success have none.
Position(r, stage) ==
    CASE stage \in {"flags", "toggle"} -> 2
      [] \/ stage = "resetAll"
         \/ ResetOnly(r) /\ stage \in {"listExts", "deleteExts", "listQueries", "deleteQueries"} -> 3
      [] \/ stage \in {"loadSchema", "putSchema"}
         \/ ~ResetOnly(r) /\ stage \in {"listExts", "deleteExts"} -> 4
      [] \/ stage \in {"loadQueries", "checkQueries", "importQueries"}
         \/ ~ResetOnly(r) /\ stage \in {"listQueries", "deleteQueries"} -> 5
      [] stage \in {"readFile", "startJob", "sendFile", "endJob"} -> 6
      [] stage = "done" -> 7
      [] OTHER -> 1

Kubernetes == {e \in exts : e.name = "kubernetes" /\ e.content = "new"}
Named(name) == {q \in queries : q.name = name}

\* These names have a query each, and with a reset no other name has, nor two one name.
Imported(r, names) ==
    /\ \A name \in names : Named(name) # {}
    /\ r.reset => /\ \A q \in queries : q.name \in names
                  /\ \A p, q \in queries : p.name = q.name => p = q

\* What the stages of a flag leave on the server.
Effect(c, k) ==
    CASE k = 1 -> "old" \notin graph
      [] k = 2 -> flag
      [] k = 3 -> Custom = {} /\ queries = {}
      [] k = 4 -> Kubernetes # {} /\ (req[c].reset => Custom = Kubernetes)
      [] k = 5 -> Imported(req[c], Wanted(req[c]))
      [] k = 6 -> c \in graph

\* Halfway through the stages of a flag.
Midway(c) ==
    LET r == req[c]
    IN  /\ pc[c] = "deleteExts" => {e.id : e \in Custom} = todo[c]
        /\ pc[c] = "putSchema" /\ r.reset => Custom = {}
        /\ ResetOnly(r) /\ pc[c] \in {"listQueries", "deleteQueries"} => Custom = {}
        /\ pc[c] = "deleteQueries" => {q.id : q \in queries} = todo[c]
        /\ pc[c] = "checkQueries" /\ r.reset => queries = {}
        /\ pc[c] = "importQueries" =>
               todo[c] \subseteq Wanted(r) /\ Imported(r, Wanted(r) \ todo[c])
        /\ pc[c] = "endJob" => jobs[job[c]].files > 0

\* A run works on a flag it has, and no other run undoes what it did.
Progress(c) ==
    LET p == Position(req[c], pc[c])
    IN  /\ p < 7 => Asks(req[c], Order[p])
        /\ \A k \in 1..(p - 1) : Asks(req[c], Order[k]) => Effect(c, k)
        /\ Midway(c)

StepByStep ==
    \A c \in Client : Running(c) /\ alone[c] =>
        /\ \A d \in Client \ {c} : ~Running(d)
        /\ pc[c] = "deferredEnd" \/ Progress(c)
=============================================================================
