CONSTANTS
  s1 = s1
  s2 = s2
  Steps <- MCSteps
  Plans <- MCPlans
  Dirs <- MCDirs
  Names <- MCNames
  Initial <- MCInitial
  InitialOwner <- MCOwner
  InitialOpen <- MCOpen
  InitialFilled <- MCFilled
  Closed <- MCClosed
  LinkPaths <- MCLinkPaths
  LinkTo <- MCLinkTo
  Root = root
  Runner = runner
  KnownFiles <- MCKnown
  MaxFaults = 1
SPECIFICATION Spec
ACTION_CONSTRAINT OnlyOnEntries
INVARIANTS
  RestrictedStaysRestricted
  RollbackComplete
  EmptyDirsGivenBack
PROPERTY
  NothingOfOthersIsRemoved
CHECK_DEADLOCK FALSE
