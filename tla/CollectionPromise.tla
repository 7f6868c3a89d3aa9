------------------------- MODULE CollectionPromise --------------------------
(***************************************************************************)
(* What a retained, resumable collection promises whoever reads its disk   *)
(* after any crash: the jobs of the plan become done one at a time, a done *)
(* job's resources enter the output all at once and exactly once, nothing  *)
(* is ever taken back, and the collection is collected when all are done.  *)
(* Processes, failures, files and channels do not appear.                  *)
(***************************************************************************)
EXTENDS Integers

CONSTANT Job

VARIABLES
  phase,   \* "none", "collecting", "collected"
  done,    \* the committed jobs, each with the number of its resources
  stored   \* the committed lines of the output

vars == <<phase, done, stored>>

Jobs(d) == {r.job : r \in d}
Lines(j, n) == {[job |-> j, item |-> k] : k \in 1..n}

Init == phase = "none" /\ done = {} /\ stored = {}

Begin ==
  /\ phase = "none"
  /\ phase' = "collecting"
  /\ UNCHANGED <<done, stored>>

CommitJob(j, n) ==
  /\ phase = "collecting"
  /\ j \notin Jobs(done)
  /\ done' = done \cup {[job |-> j, count |-> n]}
  /\ stored' = stored \cup Lines(j, n)
  /\ UNCHANGED phase

Finish ==
  /\ phase = "collecting"
  /\ Jobs(done) = Job
  /\ phase' = "collected"
  /\ UNCHANGED <<done, stored>>

\* The committed record is the step: n is whatever the job listed.
Commit == \E r \in done' : CommitJob(r.job, r.count)

Next == Begin \/ Commit \/ Finish

Spec == Init /\ [][Next]_vars

=============================================================================
