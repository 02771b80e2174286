SPECIFICATION FairSpec
CONSTANTS
  Size = 6
  Base = 8
  ScanLimit = 11
  Chars <- MCTwoChars
PROPERTIES
  KeysArrive
