SPECIFICATION RecoverySpec
CONSTANTS
  v1 = v1
  v2 = v2
  VMs = {v1, v2}
  Np = 1
  HeldWord = "drained"
  Faults = {}
  NumDynamic = 1
  StaticWanted = 0
  Batch = 1
  MaxIdle = 0
  MaxDown = 0
  MaxInaccessible = 1
  Loaded = {v1}
  OldImage = {v1}
  Admin = {}
  ListBound = 1
SYMMETRY VMSymmetry
INVARIANT ServersAdopted OneOwnerAgain CleanupSparesJobs
PROPERTY RestartSparesJobs
