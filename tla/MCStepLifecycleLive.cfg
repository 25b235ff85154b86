CONSTANTS
  s1 = s1
  s2 = s2
  Steps <- MCSteps
  Recorded <- MCRecordedOne
  Env <- MCEnvLocal
  NoName = none
  BadName = bad
  NoCode = nocode
  ExitCodes = {0, 1}
  MaxFaults = 1
SPECIFICATION FairSpec
PROPERTY
  ContainerReclaimed
CHECK_DEADLOCK FALSE
