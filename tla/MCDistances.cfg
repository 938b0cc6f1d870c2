SPECIFICATION FieldSpec
CONSTANTS
  Width = 5
  Depth = 5
  MaxDistance = 310
  Scenes <- PartsOfCross
INVARIANTS OverestimatesAreBounded
CHECK_DEADLOCK FALSE
