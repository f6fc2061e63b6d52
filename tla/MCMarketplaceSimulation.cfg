CONSTANTS
  w1 = w1
  w2 = w2
  Workers = {w1, w2}
  NumJobs = 3
  LeaseTTL = 1
  MaxTime = 2
  Exp <- MCExp
  Clean = Clean
  NoReason = NoReason
  NoFlipRate = NoFlipRate
  NoManifest = NoManifest
  NoJob = NoJob
  NoGroup = NoGroup
  NoEvent = NoEvent
  Never = Never
  NoDecision = NoDecision
  NoResult = NoResult
SPECIFICATION Spec
CHECK_DEADLOCK FALSE
INVARIANTS
  TypeOK
  VerdictsFitProfiles
  ReportAddsUp
PROPERTIES
  SimulationEnds
