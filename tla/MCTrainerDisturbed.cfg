CONSTANTS
  t1 = t1
  t2 = t2
  g1 = g1
  g2 = g2
  Groups = {g1, g2}
  RejectionReasons = {"expired_lease"}
  NoReason = NoReason
  Trainers = {t1}
  Metadata <- MCMetadata
  Queries <- TwoQueries
  NoLimit = NoLimit
  AnyPrecision = AnyPrecision
  NoFetch = NoFetch
  MaxServed = 2
  MaxBatch = 2
SPECIFICATION Spec
INVARIANTS
  FetchesAreNotDisturbed
