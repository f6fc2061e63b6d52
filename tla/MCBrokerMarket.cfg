CONSTANTS
  w1 = w1
  w2 = w2
  j1 = j1
  j2 = j2
  k1 = k1
  k2 = k2
  g1 = g1
  g2 = g2
  Workers = {w1, w2}
  Jobs = {j1, j2}
  Keys = {k1, k2}
  Groups = {g1, g2}
  RejectionReasons = {"expired_lease"}
  Manifests <- OneManifest
  JobSpecs <- TwoKinds
  DecisionPool <- OneDecision
  NoManifest = NoManifest
  NoJob = NoJob
  NoGroup = NoGroup
  NoReason = NoReason
  NoEvent = NoEvent
  Never = Never
  Unknown = Unknown
  Open = Open
  Finished = Finished
  LeaseTTL = 1
  HeartbeatTTL = 0
  BeatDelay = 0
  MaxTime = 1
  MaxLeases = 2
  MaxBatch = 0
  MaxServed = 0
SPECIFICATION Spec
SYMMETRY WorkerGroupSymmetry
INVARIANTS
  SubmittedOncePerKey
  
PROPERTIES
  ImplementsMarket
