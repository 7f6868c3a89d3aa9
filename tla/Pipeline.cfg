\* One cluster with parsing and --zip.  No symmetry: liveness is checked.
CONSTANTS
  c1 = c1
  j1 = j1
  j2 = j2
  Cluster = {c1}
  Job = {j1, j2}
  ParseEnabled = TRUE
  ZipOutput = TRUE
  MaxFaults = 4
SPECIFICATION LiveSpec
INVARIANTS ArtifactBehindPhase SuccessIsComplete OnlyCommittedParsed AlwaysResumable
PROPERTIES NoRecollection EventuallyComplete
CHECK_DEADLOCK FALSE
