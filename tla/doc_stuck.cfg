SPECIFICATION FairSpec
CONSTANTS
  v1 = v1
  VMs = {v1}
  Np = 1
  HeldWord = "drained"
  Faults = {"vanish"}
  NumDynamic = 1
  StaticWanted = 0
  Batch = 1
  MaxIdle = 0
  MaxDown = 0
  MaxInaccessible = 1
  Loaded = {}
  OldImage = {}
  Admin = {}
  ListBound = 1
PROPERTY StartingNeverStuck
