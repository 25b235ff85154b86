CONSTANTS
  s1 = s1
  s2 = s2
  Steps <- MCSteps
  Inspect <- MCInspect
  Ephemeral <- MCEphemeral
  ExitCodes = {0, 1}
  NoCode = nocode
  Attempts = 2
  MaxFaults = 2
SPECIFICATION Spec
INVARIANTS
  ScratchReclaimed
  CommandKeepsItsNetwork
  CodeFaithful
  TrapTearsDown
CHECK_DEADLOCK FALSE
