SPECIFICATION Spec
CONSTANTS
  h1 = h1
  h2 = h2
  Handles = {h1, h2}
  Commands = {"CBOR"}
  MaxCont = 1
  RxCap = 2
  MaxOpens = 2
  MaxTxn = 1
  MaxReqCont = 0
  Faults = TRUE
  MaxKeepalive = 0
SYMMETRY HandleSymmetry
INVARIANTS
  TypeOK
  TrustedAnswerIsOwn
  AnswerNeverForeign
  ChannelsDistinct
CHECK_DEADLOCK FALSE
