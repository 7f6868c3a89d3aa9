\* README: "Resume all unfinished clusters, including any that were still
\* queued".  The output is created before the first checkpoint is saved.
CONSTANTS
  j1 = j1
  Cluster <- TwoClusters
  Job = {j1}
  ParseEnabled = TRUE
  ZipOutput = FALSE
  MaxFaults = 1
  MaxConcurrency = 1
SPECIFICATION MultiSpec
INVARIANTS UnfinishedResumable
CHECK_DEADLOCK FALSE
