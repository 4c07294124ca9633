SPECIFICATION Spec
CONSTANTS
  v1 = v1
  VMs = {v1}
  Np = 1
  HeldWord = "drained"
  Faults = {}
  NumDynamic = 1
  StaticWanted = 0
  Batch = 1
  MaxIdle = 0
  MaxDown = 0
  MaxInaccessible = 1
  Loaded = {v1}
  OldImage = {}
  Admin = {"kill"}
  ListBound = 2
INVARIANT KillCrashesNoThread
CHECK_DEADLOCK FALSE
