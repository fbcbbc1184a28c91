CONSTANTS
  Tags = {"v1"}
  CargoVersion <- Unbumped
  MaxFaults = 1
SPECIFICATION ReleaseSpec
CHECK_DEADLOCK FALSE
INVARIANTS
  DoneIsOnNpm
