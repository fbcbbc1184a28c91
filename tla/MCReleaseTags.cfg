CONSTANTS
  Tags = {"v1", "v2"}
  CargoVersion <- Unbumped
  MaxFaults = 3
SPECIFICATION ReleaseSpec
CHECK_DEADLOCK FALSE
INVARIANTS
  ReleaseTypeOK
  PublishedAsTagged
  DonePageIsLatest
PROPERTIES
  RunsGetNearer
  ResumedReleaseCompletes
