SPECIFICATION Spec
CONSTANTS
  Height = 2
  MinLogOdds <- Low
  MaxLogOdds = 16
  Noise = 8
  Sample <- Samples
  Chunked = FALSE
  ChunkHeight = 1
  Visible <- Two
  AddPath <- None
  SetPath <- None
  SetValue <- None
  MaxAbs = 24
INVARIANTS FlagsBoundCells
