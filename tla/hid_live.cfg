SPECIFICATION FairSpec
CONSTANTS
  h1 = h1
  h2 = h2
  Handles = {h1, h2}
  Commands = {"CBOR"}
  MaxCont = 1
  RxCap = 12
  MaxOpens = 1
  MaxTxn = 1
  MaxReqCont = 1
  Faults = FALSE
  MaxKeepalive = 1
INVARIANTS
  AnswerIsOwn
  FramingNeverFails
PROPERTIES
  CallsReturn
CHECK_DEADLOCK FALSE
