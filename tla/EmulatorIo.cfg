CONSTANTS
  SectorSize = 2
  BitsPerByte = 3
  Bytes = {0, 1}
  Sectors = {0, 1, 2, 4}
  NoCall = NoCall
  ImageBytes = 5
  OffsetModulus = 8
  FileFails = TRUE
SPECIFICATION Spec
INVARIANT Inv
PROPERTIES ImplementsStore OnlyTheSectorChanges EveryCallEnds
\* an error of the bus ends the emulator
CHECK_DEADLOCK FALSE
