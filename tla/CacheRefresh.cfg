SPECIFICATION RefreshSpec
CONSTANTS
  TagCount = 2
  LineCount = 1
  ColumnCount = 2
  Bytes = {b0}
  Values = {0, 1}
  Addressable <- ThreeAddresses
  NoWord = NoWord
  NoRow = NoRow
  WaitsPriorToDataAtRead = 2
  ReadLatency = 2
  AutoRefreshPeriodCycles = 2
  CounterModulus = 4
  RefreshCounterModulus = 4
  MaxAckDelay = 1
  PrechargeCycles = 3
INVARIANTS SdramProtocol CleanLinesAgree Inv RefreshBound
PROPERTIES IsMemory EveryRequestServed
