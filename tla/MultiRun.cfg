\* Two clusters, side by side or queued, with crashes, failures and resumes.
CONSTANTS
  j1 = j1
  Cluster <- TwoClusters
  Job = {j1}
  ParseEnabled = TRUE
  ZipOutput = TRUE
  MaxFaults = 2
  MaxConcurrency = 2
SPECIFICATION MultiRunSpec
INVARIANTS CompleteMeansDone NoCommittedWorkStranded
PROPERTIES CompletedNotRelaunched RunReturns
CHECK_DEADLOCK FALSE
