CONSTANTS
  Scalar <- MCScalar
  Zero = 0
  One = 1
  Plus <- MCPlus
  Minus <- MCMinus
  Times <- MCTimes
  Invert <- MCInvert
  Point <- MCPoint
  Id = 0
  Base = 2
  Add <- MCAdd
  Sub <- MCSub
  Act <- MCAct
  Clear <- MCClear
  Strings <- MCStrings
  Seeds <- MCSeeds
  HashToGroup <- MCHashToGroup
  InfoScalar <- MCInfoScalar
  Weight <- MCWeight
  ChallengeScalar <- MCChallengeScalar
  SeedScalar <- MCSeedScalar
  CounterMax = 2
  LenModulus = 4
  NoScalar = NoScalar
  NoPoint = NoPoint
  Misfit = Misfit
  Candidate <- MCCandidate
  Nonce <- MCNonce
  Lookups = {k, l}
  NoQuestion = NoQuestion
  Inputs <- MCInputs
  Infos <- MCInfos
  Secrets = {1, 2}
  Blinds = {3}
  Nonces = {2}
  GarbledPoints = {4}
  GarbledScalars = {3}
  MaxKeys = 2
  MaxReplies = 2
  MaxGarbled = 1
SPECIFICATION Spec
SYMMETRY MCSymmetry
CHECK_DEADLOCK FALSE
PROPERTIES
  ImplementsKeyedFunction
INVARIANTS
  TypeOK
  RefuseAlike
  HonestReplyCompletes
  BlindingHides
  IndicesApart
  HashedToPrimeOrder
  OneIndexPerLabel
