CONSTANTS
  Contexts <- OneContext
  Messages <- MCMessages
  SigRequests <- AllSigRequests
  Retags <- AllTags
  MaxPairs = 1
  MaxSigs = 1
  MaxAccepted = 1
SPECIFICATION Spec
CHECK_DEADLOCK FALSE
INVARIANTS
  AlwaysAnswers
