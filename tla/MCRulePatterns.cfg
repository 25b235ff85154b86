SPECIFICATION Spec
CONSTANTS
  MaxHost = 3
  MaxPath = 3
  MaxSegments = 3
INVARIANTS
  WildcardsMeanWhatTheySay
  SameNames
  RawRulesCoverAll
  OriginReadsWhatWasJudged
  LegalPathsPass
CHECK_DEADLOCK FALSE
