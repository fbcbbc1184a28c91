CONSTANTS
  Contexts <- MCContexts
  Messages <- MCMessages
  SigRequests <- AllSigRequests
  Retags <- AllTags
  MaxPairs = 1
  MaxSigs = 2
  MaxAccepted = 1
SPECIFICATION Spec
CHECK_DEADLOCK FALSE
INVARIANTS
  TypeOK
  StrictAnd
  SignMatchesDerive
  PostureAgrees
