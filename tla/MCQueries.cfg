SPECIFICATION QueriesSpec
CONSTANTS
  Block = {"here"}
  TreeHeight = 2
  Content <- Contents
  FreeThreshold = 0
  Unobserved = 3
  QueryMask = {{"free"}, {"free", "occupied"}}
  NearCells = {{}}
  Allocatable = {}
INVARIANTS ClassesAreRight
CHECK_DEADLOCK FALSE
