CONSTANTS
  alice = alice
  bob = bob
  empty = empty
  key32 = key32
  edge = edge
  bulk = bulk
  Users = {alice}
  Nobody = Nobody
  Plaintexts = {key32}
  NoText = NoText
  PtLen <- MCPtLen
  Labels = {"metamorphic/seal/v1"}
  DefaultLabel = "metamorphic/seal/v1"
  Requests <- AllRequests
  EphBytes <- SomeTags
  CutLens <- SomeCuts
  MaxKeys = 1
  MaxWire = 1
SPECIFICATION Spec
CHECK_DEADLOCK FALSE
INVARIANTS
  OtherTagsAreLegacy
