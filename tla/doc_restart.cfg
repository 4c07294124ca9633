SPECIFICATION FirstStartSpec
CONSTANTS
  v1 = v1
  v2 = v2
  VMs = {v1, v2}
  Np = 2
  HeldWord = "drained"
  Faults = {}
  NumDynamic = 1
  StaticWanted = 0
  Batch = 2
  MaxIdle = 0
  MaxDown = 0
  MaxInaccessible = 1
  Loaded = {}
  OldImage = {}
  Admin = {}
  ListBound = 1
INVARIANT StartUpCompletes
