CONSTANTS
  Savers = {"run"}
  MaxVersion = 3
  RenameFails = FALSE
  Blank = Blank
  Torn = Torn
SPECIFICATION Spec
INVARIANTS WholeAtPath CleanMeansSaved
PROPERTIES DiskNeverOlder
