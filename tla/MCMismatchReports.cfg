SPECIFICATION Spec
CONSTANTS
  NTasks = 2
  Precisions = {"bf16"}
  Layers = 2
  Scripts = {"fsdp", "fsdp_moe", "megatron_moe"}
  Captures <- MCCaptures
  MaxCaptures = 2
  MaxBuilds = 2
  MaxJobs = 2
  MaxPairings = 1
  None = None
INVARIANTS
  TypeOK
  
  
  IndexTellsTheTurns
  ExtractionAgrees
CHECK_DEADLOCK FALSE
