SPECIFICATION Spec
CONSTANTS
  Size = 6
  Base = 8
  ScanLimit = 11
  Chars <- MCChars
INVARIANTS
  TypeOK
  OverflowThrownBack
