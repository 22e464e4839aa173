CONSTANTS
  Savers = {"run", "apply"}
  MaxVersion = 2
  RenameFails = FALSE
  Blank = Blank
  Torn = Torn
SPECIFICATION Spec
INVARIANTS WholeAtPath
