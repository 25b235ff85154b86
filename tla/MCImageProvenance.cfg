SPECIFICATION Spec
CONSTANTS
  Releases <- MCReleases
  Refs <- MCRefs
  FirstOut <- First
  Engines = {"universal", "inspect"}
  MaxBuilds = 2
  MaxEvents = 2
  MaxFaults = 1
INVARIANTS
  StartedImageIsSigned
  PinHoldsUnlessDispatched
  EngineHoldsUnlessNamedAsOne
  SignedReleaseStarts
  OutageIsNotAbsence
CHECK_DEADLOCK FALSE
