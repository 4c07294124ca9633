SPECIFICATION Spec
CONSTANTS
  v1 = v1
  VMs = {v1}
  Np = 1
  HeldWord = "drained"
  Faults = {"api"}
  NumDynamic = 1
  StaticWanted = 0
  Batch = 1
  MaxIdle = 0
  MaxDown = 0
  MaxInaccessible = 1
  Loaded = {v1}
  OldImage = {v1}
  Admin = {}
  ListBound = 1
INVARIANT CleanedIsDestroyed
