\* Direct callers of CollectService: a finished collection removes its
\* checkpoint and may be started again over the same output; the checkpoint
\* lives in another directory (--checkpoint-file).  A power loss can bring back
\* a removed checkpoint beside a truncated output, which nothing may resume.
CONSTANTS
  j1 = j1
  j2 = j2
  w1 = w1
  w2 = w2
  Job = {j1, j2}
  Worker = {w1, w2}
  NoJob = NoJob
  ResultsCap = 1
  MaxItems = 2
  MaxFaults = 3
  Retain = FALSE
  SameDir = FALSE
SPECIFICATION Spec
SYMMETRY Symmetry
INVARIANTS ExactlyOnce
CHECK_DEADLOCK FALSE
