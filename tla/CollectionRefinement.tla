------------------------ MODULE CollectionRefinement ------------------------
(***************************************************************************)
(* Collection implements CollectionPromise.  After a failed save the disk  *)
(* may hold the old or the new checkpoint; the promise has been made only  *)
(* for what all the candidates agree on.                                   *)
(***************************************************************************)
EXTENDS Collection

settledPhase ==
  IF \E c \in ckptDisk : c.phase = "absent" THEN "none"
  ELSE IF \E c \in ckptDisk : c.phase = "collecting" THEN "collecting"
  ELSE "collected"

settledDone ==
  {r \in {ckpt.completed[i] : i \in 1..Len(ckpt.completed)} :
     \A c \in ckptDisk : \E i \in 1..Len(c.completed) : c.completed[i] = r}

settledLines ==
  {out[p] : p \in {q \in 1..Len(out) : \A c \in ckptDisk : q <= c.offset}}

Promise == INSTANCE CollectionPromise
             WITH phase <- settledPhase, done <- settledDone,
                  stored <- settledLines

\* With a retained checkpoint every behaviour of the collector, crashes and
\* failures included, is one the promise allows: commits are atomic, single and
\* final as seen on disk (execute.go, checkpoint.go, writer_json.go together).
ImplementsPromise == Promise!Spec

-----------------------------------------------------------------------------
(* Why it does: the invariant behind the mapping. *)

\* m is one promised step ahead of d.
Follows(d, m) ==
  \/ d = Absent /\ m = NewCheckpoint
  \/ /\ d.phase = "collecting" /\ m.phase = "collecting"
     /\ m.completed # <<>>
     /\ m.completed = Append(d.completed, m.completed[Len(m.completed)])
  \/ /\ d.phase = "collecting" /\ m.phase = "collected"
     /\ m.completed = d.completed

\* The disk holds the visible checkpoint and perhaps the one before it.
Settles(d) ==
  /\ ckptDisk = {d, ckpt}
  /\ d = ckpt \/ Follows(d, ckpt)
Chain == \E d \in ckptDisk : Settles(d)

\* What is about to be saved is at most one step ahead of the disk.
Upcoming ==
  pc \in {"opened", "saving", "finishing"} =>
    \/ mem = ckpt /\ (pc # "opened" => ckptDisk = {ckpt})
    \/ ckptDisk = {ckpt} /\ Follows(ckpt, mem)

StepByStep == Chain /\ Upcoming

=============================================================================
