SPECIFICATION Spec
CONSTANTS
  v1 = v1
  v2 = v2
  VMs = {v1, v2}
  Np = 1
  HeldWord = "drained"
  Faults = {"slow", "vanish", "add", "start", "down"}
  NumDynamic = 1
  StaticWanted = 0
  Batch = 1
  MaxIdle = 0
  MaxDown = 0
  MaxInaccessible = 1
  Loaded = {}
  OldImage = {}
  Admin = {}
  ListBound = 1
SYMMETRY VMSymmetry
INVARIANT TypeOK WithinLimit StartingPolled
PROPERTY LifecycleRespected
