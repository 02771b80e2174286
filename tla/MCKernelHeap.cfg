SPECIFICATION Spec
CONSTANTS
  Width = 65536
  MaxEntries = 3
  HeapBase = 61440
  HeapSize = 983040
  Owners = {o1, o2, o3, o4}
  Sizes <- MCSizes
  BootRows <- MCBootRows
  Strays <- MCStrays
  MaxGiven = 140000
SYMMETRY MCSymmetry
INVARIANTS
  TypeOK
  DisjointUntilWrap
  RowsMatchOwners
PROPERTIES
  FailureKeepsBlocks
CHECK_DEADLOCK FALSE
