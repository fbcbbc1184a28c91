CONSTANTS
  alice = alice
  bob = bob
  empty = empty
  key32 = key32
  edge = edge
  bulk = bulk
  Users = {alice, bob}
  Nobody = Nobody
  Plaintexts = {empty, bulk}
  NoText = NoText
  PtLen <- MCPtLen
  Labels = {"metamorphic/seal/v1", "mosslet/seal/v1"}
  DefaultLabel = "metamorphic/seal/v1"
  Requests <- AllRequests
  EphBytes <- SomeTags
  CutLens <- MinCuts
  MaxKeys = 2
  MaxWire = 1
SPECIFICATION Spec
SYMMETRY MCSymmetry
CHECK_DEADLOCK FALSE
PROPERTIES
  ImplementsMailbox
INVARIANTS
  TypeOK
  SealedWell
  LegacyAlwaysOpens
  HybridOpensForHolder
  OpenersNeverPanic
  LabelBinds
  GateLockstep
  KeyFitsRequest
  NoSilentDowngrade
