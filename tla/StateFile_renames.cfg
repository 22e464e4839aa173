CONSTANTS
  Savers = {"run"}
  MaxVersion = 3
  RenameFails = TRUE
  Blank = Blank
  Torn = Torn
SPECIFICATION Spec
INVARIANTS CleanMeansSaved
