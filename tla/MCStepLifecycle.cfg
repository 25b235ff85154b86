CONSTANTS
  s1 = s1
  s2 = s2
  Steps <- MCSteps
  Recorded <- MCRecorded
  Env <- MCEnv
  NoName = none
  BadName = bad
  NoCode = nocode
  ExitCodes = {0, 1}
  MaxFaults = 1
SPECIFICATION Spec
INVARIANTS
  TypeOK
  LiveStepKeepsResources
  DirsGivenBack
  ExitCodeFaithful
  OwnPostReclaims
PROPERTIES
  LeaseSpec
  ReportReadBeforeStop
CHECK_DEADLOCK FALSE
