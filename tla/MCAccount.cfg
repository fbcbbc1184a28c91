CONSTANTS
  SecretLen = 3
  Passwords = {alpha, beta}
  Salts = {s1, s2, s3}
  NotBase64 = NotBase64
  Odd = Odd
  Callers = {c, d}
  NoTask = NoTask
  NoOutcome = NoOutcome
  PrivateKey = PrivateKey
  Drawn <- MCDrawn
  Setups <- MCSetups
  alpha = alpha
  s1 = s1
SPECIFICATION Spec
CHECK_DEADLOCK FALSE
PROPERTIES
  ImplementsInline
  CallsReturn
INVARIANTS
  TypeOK
  PasswordOpens
  CodeOpens
  CodesRoundTrip
