CONSTANTS
  t1 = t1
  t2 = t2
  g1 = g1
  g2 = g2
  Groups = {g1, g2}
  RejectionReasons = {"expired_lease"}
  NoReason = NoReason
  Trainers = {t1, t2}
  Metadata <- MCMetadata
  Queries <- MCQueries
  NoLimit = NoLimit
  AnyPrecision = AnyPrecision
  NoFetch = NoFetch
  MaxServed = 1
  MaxBatch = 2
SPECIFICATION Spec
SYMMETRY TrainerSymmetry
INVARIANTS
  TypeOK
  
  ServedMeansDelivered
