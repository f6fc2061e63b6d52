CONSTANTS
  w1 = w1
  w2 = w2
  w3 = w3
  d1 = d1
  d2 = d2
  Workers = {w1, w2, w3}
  Versions = {1, 2}
  Digests = {d1, d2}
  BeatLists <- MCBeatLists
  NoFile = NoFile
  Torn = Torn
  NoManifest = NoManifest
  NoAck = NoAck
  NoDigest = NoDigest
  NoPrice = NoPrice
  Idle = Idle
SPECIFICATION Spec
SYMMETRY MCSymmetry
INVARIANTS
  TypeOK
  LatestHasAFile
  

  
