SPECIFICATION Spec
CONSTANTS
  v1 = v1
  v2 = v2
  VMs = {v1, v2}
  Np = 1
  HeldWord = "drained"
  Faults = {"vanish", "add", "error"}
  NumDynamic = 1
  StaticWanted = 1
  Batch = 1
  MaxIdle = 0
  MaxDown = 0
  MaxInaccessible = 1
  Loaded = {}
  OldImage = {}
  Admin = {"sleep"}
  ListBound = 1
SYMMETRY VMSymmetry
INVARIANT StaticsConserved PollersSurvive OneOwner
