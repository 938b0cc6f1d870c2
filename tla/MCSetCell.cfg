SPECIFICATION Spec
CONSTANTS
  Height = 2
  MinLogOdds <- Low
  MaxLogOdds = 16
  Noise = 8
  Sample <- Samples
  Chunked = TRUE
  ChunkHeight = 3
  Visible <- None
  AddPath <- None
  SetPath <- Cells
  SetValue <- Eight
  MaxAbs = 24
PROPERTIES SetCellSetsIt
