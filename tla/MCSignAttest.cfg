CONSTANTS
  Contexts <- MCContexts
  Messages <- MCMessages
  SigRequests <- Cat5Requests
  Retags <- Cat5Tags
  MaxPairs = 2
  MaxSigs = 2
  MaxAccepted = 2
SPECIFICATION Spec
CHECK_DEADLOCK FALSE
PROPERTIES
  ImplementsAttestation
INVARIANTS
  SigsWellSigned
  StrictAnd
