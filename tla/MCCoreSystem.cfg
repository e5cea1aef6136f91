SPECIFICATION Spec
CONSTANTS
  ByteCount = 4
  RegisterCount = 3
  RamWords = 5
  Decode <- MCDecode
  Alu <- MCAlu
  InitialWords = {0, 17}
  Programs <- TwoInstructions
INVARIANTS Inv
PROPERTIES HoldsRequest KeepsExecuting IsEmulator
