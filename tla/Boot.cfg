SPECIFICATION Spec
CONSTANTS
  StartupWaitCycles = 3
  FlashTransferFromAddress = 7340032
  FlashTransferByteCount = 12
  RamWords = 5
  Flashes <- SmallFlashes
INVARIANTS ProgramIsLoaded
PROPERTIES CopiesInOrder StartsUp
