CONSTANTS
  mine = mine
  theirs = theirs
  Dash = dash
  UnknownHost = unknown
  Lines <- MCLines
  Known <- MCKnown
  SegmentLines = 2
  MaxArchives = 1
  MaxLines = 5
  MaxRestarts = 1
SPECIFICATION Spec
INVARIANTS
  CompleteRecordsAreComplete
  RefusalsDecideTheStep
CHECK_DEADLOCK FALSE
