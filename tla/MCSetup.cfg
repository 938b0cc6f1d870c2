SPECIFICATION SetupSpec
CONSTANTS
  File <- ShippedFiles
  MaxNesting = 7
  Host <- Programs
  AsBool <- Bools
  AsInt <- Ints
  AsDouble <- Doubles
INVARIANTS DocumentedEntriesAreAdded
CHECK_DEADLOCK FALSE
