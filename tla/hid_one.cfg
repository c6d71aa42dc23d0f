SPECIFICATION Spec
CONSTANTS
  h1 = h1
  h2 = h2
  Handles = {h1}
  Commands = {"CBOR", "WINK"}
  MaxCont = 2
  RxCap = 20
  MaxOpens = 1
  MaxTxn = 3
  MaxReqCont = 1
  Faults = TRUE
  MaxKeepalive = 1
INVARIANTS
  TrustedAnswerIsOwn
  PerformedAtMostOnce
  OneRequestPerAnswer
  QuietBetweenCalls
PROPERTIES
  MeetsContract
CHECK_DEADLOCK FALSE
