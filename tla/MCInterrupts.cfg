SPECIFICATION FairSpec
CONSTANTS
  NumTasks = 2
  Width = 12
  Ms = 3
  Frequencies <- MCFrequencies
INVARIANTS OwnHandler  PitInRange
PROPERTIES ExceptionsHalt  KeysHandled 
