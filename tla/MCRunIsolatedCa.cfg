CONSTANTS
  s1 = s1
  s2 = s2
  Steps <- MCSteps
  Inspect <- MCInspect
  Ephemeral <- MCEphemeral
  ExitCodes = {0, 1}
  NoCode = nocode
  Attempts = 2
  MaxFaults = 0
SPECIFICATION Spec
INVARIANT
  CaStaysMounted
CHECK_DEADLOCK FALSE
