CONSTANTS
  Tags = {"v1"}
  CargoVersion <- Bumped
  MaxFaults = 2
SPECIFICATION Spec
CHECK_DEADLOCK FALSE
INVARIANTS
  TypeOK
  FinishedIsWhole
PROPERTIES
  VersionComesLast
  UpdateLands
