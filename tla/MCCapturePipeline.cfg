SPECIFICATION Spec
CONSTANTS
  NTasks = 2
  DigitHash <- MCDigitHash
  MaxSteps = 2
  Calls <- MCCalls
  TaskChoices <- MCTaskChoices
  MaxRuns = 2
  MaxFaults = 2
  Absent = Absent
  Torn = Torn
INVARIANTS
  TypeOK
  AnswersAreCaptured
  ProbesFit
  
  
CHECK_DEADLOCK FALSE
