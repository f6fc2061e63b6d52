CONSTANTS
  g1 = g1
  g2 = g2
  g3 = g3
  Groups <- MCGroups
  RejectionReasons = {"expired_lease"}
  NoReason = NoReason
  MaxBatch = 2
  MaxServed = 2
  Attribution <- MCAttribution
  TrainerReasons = {"low_observed_ess"}
SPECIFICATION LoopSpec
SYMMETRY GroupSymmetry
INVARIANTS
  TypeOK
  OneTypedRecordPerGroup
  StatsTellFirstVerdicts
PROPERTIES
  RecordsAreRetained
  ServingIsFifo
