SPECIFICATION Spec
CONSTANTS
  TX_BIT_TIME = 3
  TxCounterModulus = 4
  RX_BIT_TIME = 3
  RxCounterModulus = 4
  Nothing = Nothing
  Data <- TwoBytes
  PollLimit = 32
INVARIANTS Inv
PROPERTIES Steady SendEnds IsChannel
