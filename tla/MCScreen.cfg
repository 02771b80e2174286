SPECIFICATION Spec
CONSTANTS
  Columns = 8
  Rows = 3
  TabStop = 4
  Byte = 256
  Writers = {w1, w2}
  Plain = plain
  NL = nl
  CR = cr
  BS = bs
  TAB = tab
  Text = {plain, nl, cr, bs, tab}
  SharedText = {plain, nl, cr}
SYMMETRY MCSymmetry

  
  
PROPERTIES
  PutCharMovesOn
  BackspaceErases
