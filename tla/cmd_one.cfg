SPECIFICATION Spec
CONSTANTS
  c1 = c1
  c2 = c2
  s1 = s1
  s2 = s2
  Clients = {c1}
  Salts = {s1, s2}
  LineCap = 2
  Faults = TRUE
  FirstCreds = {1, 3}
  MaxRetries = 3
  Plans <- OnePlans
INVARIANTS
  TypeOK
  SecretIsRequested
  ResetMeansWiped
  CacheIsInfo
  ProbeFitsList
  CredentialIsOfThisCall
  NoneOfSeveral
  PinInvalidMeansWrong
  UvProvesPin
  WrongPinGoesNoFurther
  OneAttemptPerOperation
  NextContinues
CHECK_DEADLOCK FALSE
