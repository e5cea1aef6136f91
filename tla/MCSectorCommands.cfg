CONSTANTS
  UintModulus = 64
  SectorSize = 2
  CardBytes = 7
  a = a
  b = b
  Zero = Zero
  Characters = {a, b, " "}
  Alphabet = {" ", "s", "1", "8"}
  MaxLine = 4
  MaxBlanks = 2
  Files <- MCFiles
  Lines <- MCLines
SPECIFICATION Spec
INVARIANTS WordsMakeUpTheLine NumberIsDecimal
PROPERTIES WritesWhatIsAsked ShowsTheSector
\* main ends when the file cannot be loaded
CHECK_DEADLOCK FALSE
