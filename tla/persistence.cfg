SPECIFICATION Spec
CONSTANTS
  v1 = v1
  v2 = v2
  VMs = {v1, v2}
  Np = 1
  HeldWord = "drained"
  Faults = {"down"}
  NumDynamic = 2
  StaticWanted = 0
  Batch = 1
  MaxIdle = 0
  MaxDown = 0
  MaxInaccessible = 1
  Loaded = {v1, v2}
  OldImage = {}
  Admin = {}
  ListBound = 2
SYMMETRY VMSymmetry
INVARIANT NodesPersisted
