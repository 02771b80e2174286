SPECIFICATION FairSpec
CONSTANTS
  Char = {a, nl, nul}
  NL = nl
  NUL = nul
  Space = sp
  StdinSize = 3
  Residue = {a}
  MallocResults = {TRUE, FALSE}
  Quiet = TRUE
  MaxTyped = 4
INVARIANTS
  LinesCounted

  
  
