CONSTANTS
  SectorSize = 2
  Sectors = {0, 1}
  Bytes = {0, 1, 2, 3, 4, 5, 6, 7}
  NoCall = NoCall
  BitsPerByte = 3
  BootPulses = 6
  ResetPulses = 5
  InitPulses = 10
  ClockDivider = 0
  SectorToSDCardAddressShiftLeft = 1
  AddressModulus = 16
  AddressUnit = 2
  MaxDelay = 1
  MaxPolls = 1
  Texts <- MCTexts
  ResetsIn = {"Init"}
SPECIFICATION OneTextSpec
INVARIANTS IdleWhenCardIs
PROPERTIES ImplementsStore CallsReturn
