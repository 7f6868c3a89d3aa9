\* Two clusters whose paths may meet and whose settings come from two places.
CONSTANTS
  Config <- MCConfig
  Flags <- MCFlags
  Existing <- MCExisting
SPECIFICATION Spec
INVARIANTS ArtifactsDistinct SeveralAskForCause ExtendedResumable
CHECK_DEADLOCK FALSE
