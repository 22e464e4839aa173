CONSTANTS
  Savers = {"run", "apply"}
  MaxVersion = 2
  RenameFails = TRUE
  Blank = Blank
  Torn = Torn
SPECIFICATION Spec
INVARIANTS TypeOK WritesPresent
