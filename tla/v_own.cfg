SPECIFICATION Spec
CONSTANTS
  h1 = h1
  h2 = h2
  Handles = {h1}
  Commands = {"CBOR"}
  MaxCont = 0
  RxCap = 2
  MaxOpens = 1
  MaxTxn = 2
  MaxReqCont = 0
  Faults = TRUE
  MaxKeepalive = 0
INVARIANTS
  AnswerIsOwn
CHECK_DEADLOCK FALSE
