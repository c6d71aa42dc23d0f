SPECIFICATION Spec
CONSTANTS
  c1 = c1
  c2 = c2
  s1 = s1
  s2 = s2
  Clients = {c1, c2}
  Salts = {s1, s2}
  LineCap = 2
  Faults = FALSE
  FirstCreds = {1, 3}
  MaxRetries = 3
  Plans <- PairPlans
INVARIANTS
  SecretIsRequested
  NextContinues
  RightPinNeedsOldKey
CHECK_DEADLOCK FALSE
