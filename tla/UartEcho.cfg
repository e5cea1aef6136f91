SPECIFICATION Spec
CONSTANTS
  TX_BIT_TIME = 20
  TxCounterModulus = 32
  RX_BIT_TIME = 20
  RxCounterModulus = 32
  TERMINAL_BIT_TIMES = {19, 21}
  Gap = 17
  Nothing = Nothing
  Data = {1, 170}
  PollLimit = 3
PROPERTIES EchoesAll
