SPECIFICATION Spec
CONSTANTS
  v1 = v1
  VMs = {v1}
  Np = 1
  HeldWord = "drained"
  Faults = {"raise"}
  NumDynamic = 1
  StaticWanted = 0
  Batch = 1
  MaxIdle = 0
  MaxDown = 0
  MaxInaccessible = 1
  Loaded = {}
  OldImage = {}
  Admin = {"kill", "forceoff"}
  ListBound = 1
INVARIANT NoVmForgotten CleanedIsGone
CHECK_DEADLOCK FALSE
