SPECIFICATION FairSpec
CONSTANTS
  v1 = v1
  VMs = {v1}
  Np = 1
  HeldWord = "drained"
  Faults = {"slow", "jobdata"}
  NumDynamic = 1
  StaticWanted = 0
  Batch = 1
  MaxIdle = 0
  MaxDown = 0
  MaxInaccessible = 1
  Loaded = {}
  OldImage = {}
  Admin = {"term"}
  ListBound = 1
PROPERTY StartingResolved ProvisioningCleared ShutdownEnds
CHECK_DEADLOCK FALSE
