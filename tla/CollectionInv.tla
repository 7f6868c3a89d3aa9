--------------------------- MODULE CollectionInv ----------------------------
(***************************************************************************)
(* The inductive invariant of Collection.  TLC checks it on the instances  *)
(* of MCCollection, CollectionProofs proves it for every instance.         *)
(***************************************************************************)
EXTENDS Collection

\* A checkpoint's progress agrees with itself and with the plan.
NoRepeat(c) ==
  \A i, k \in 1..Len(c.completed) :
    c.completed[i].job = c.completed[k].job => i = k
GoodProgress(c) ==
  /\ c.phase # "absent"
  /\ NoRepeat(c)
  /\ c.remaining = Total - Len(c.completed)
  /\ c.phase = "collected" => Len(c.completed) = Total

\* Which goroutines exist at which point, and who may hold a job.
Control ==
  /\ pc \in {"off", "opened", "finishing", "removing"} =>
       results = <<>> /\ \A w \in Worker : worker[w].state = "gone"
  /\ pc = "removing" => ~Retain
  /\ commitFailed => errored /\ pc = "collecting"
  /\ pc # "written" => current.job = NoJob
  /\ pc = "written" => current.job \in Job
  /\ \A w \in Worker :
       worker[w].job = NoJob <=> worker[w].state \in {"idle", "gone"}
TypeInv == TypeOK /\ Control

\* The progress in memory is good, and every job is in at most one place: still
\* queued, with a worker, in a result, being committed, or done.
Disjoint ==
  /\ \A v, w \in Worker :
       worker[v].job = worker[w].job /\ worker[v].job \in Job => v = w
  /\ \A w \in Worker : worker[w].job \in Job =>
       worker[w].job \notin queue \cup Done(mem) \cup {current.job}
  /\ \A i \in 1..Len(results) :
       /\ \A k \in 1..Len(results) : results[i].job = results[k].job => i = k
       /\ \A w \in Worker : worker[w].job # results[i].job
       /\ results[i].job \notin queue \cup Done(mem) \cup {current.job}
  /\ current.job \notin queue \cup Done(mem)
  /\ queue \cap Done(mem) = {}
Holders ==
  /\ pc # "off" => GoodProgress(mem)
  /\ pc \in {"off", "opened", "finishing", "removing"} => queue = {}
  /\ Disjoint

\* What is on the disk can always be made sense of.
DiskInv ==
  /\ \A c \in ckptDisk : c = Absent \/ GoodProgress(c)
  /\ \A c \in ckptDisk :
       c.offset <= Len(out) => c.offset <= synced /\ ExactUpTo(c)
  /\ Retain => \A c \in ckptDisk : c.offset <= Len(out)
  /\ Retain /\ ckpt.phase = "absent" => ckptDisk = {Absent}
  /\ ckpt.phase # "absent" =>
       \A c \in ckptDisk : c.offset <= Len(out) => c.offset <= ckpt.offset

\* The output ends with what mem records, but for a batch not yet committed.
Settled ==
  \/ pc \in {"opened", "saving", "finishing", "removing"}
  \/ pc = "collecting" /\ ~commitFailed
MemInv ==
  /\ pc \in {"collecting", "written", "saving"} =>
       /\ mem.phase = "collecting"
       /\ \A c \in ckptDisk : c.phase # "absent" /\ c.offset <= Len(out)
  /\ pc = "finishing" => mem.phase = "collected"
  /\ Settled => /\ mem.offset = Len(out) /\ synced = Len(out)
                /\ ExactUpTo(mem)
  /\ pc = "collecting" /\ ~commitFailed => ckptDisk = {mem}
  /\ pc = "written" =>
       /\ ckptDisk = {mem}
       /\ synced = mem.offset
       /\ ExactUpTo(mem)
       /\ Len(out) = mem.offset + current.count
       /\ \A k \in 1..current.count :
            out[mem.offset + k] = [job |-> current.job, item |-> k]
  /\ pc \in {"opened", "saving", "finishing", "removing"} =>
       SafelyDone \subseteq Done(mem)

\* Strong enough to be kept by every step: the safety properties follow from it.
IndInv == TypeInv /\ Holders /\ DiskInv /\ MemInv

=============================================================================
