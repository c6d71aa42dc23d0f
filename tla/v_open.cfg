SPECIFICATION Spec
CONSTANTS
  h1 = h1
  h2 = h2
  Handles = {h1, h2}
  Commands = {"CBOR"}
  MaxCont = 0
  RxCap = 4
  MaxOpens = 1
  MaxTxn = 1
  MaxReqCont = 0
  Faults = FALSE
  MaxKeepalive = 0
INVARIANTS
  OpenFailsOnlyIfMalformed
CHECK_DEADLOCK FALSE
