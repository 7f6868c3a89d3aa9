\* The pipeline's use of the collector: the checkpoint is retained.
\* The retained collection refines the promise made to its operator.  No symmetry:
\* liveness is checked.
CONSTANTS
  j1 = j1
  j2 = j2
  j3 = j3
  w1 = w1
  w2 = w2
  Job = {j1, j2, j3}
  Worker = {w1, w2}
  NoJob = NoJob
  ResultsCap = 1
  MaxItems = 2
  MaxFaults = 3
  Retain = TRUE
  SameDir = TRUE
SPECIFICATION LiveSpec
INVARIANTS TypeOK AlwaysResumable WorkIsRecoverable OneHolder
PROPERTIES ImplementsPromise RunEnds EventuallyCollected
