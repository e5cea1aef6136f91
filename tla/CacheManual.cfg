SPECIFICATION ManualSpec
CONSTANTS
  TagCount = 2
  LineCount = 1
  ColumnCount = 4
  Bytes = {b0}
  Values = {0}
  Addressable <- Addresses
  NoWord = NoWord
  NoRow = NoRow
  WaitsPriorToDataAtRead = 2
  ReadLatency = 2
  AutoRefreshPeriodCycles = 2
  CounterModulus = 4
  RefreshCounterModulus = 4
  MaxAckDelay = 0
  PrechargeCycles = 3
PROPERTIES ServedWithTheManual
