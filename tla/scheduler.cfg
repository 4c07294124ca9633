SPECIFICATION Spec
CONSTANTS
  CloudResources <- MCResources
  Available <- MCAvailable
  Flavors <- MCFlavors
  JobKinds <- MCJobKinds
  Locations = {"mel", "mon"}
  Ids = {1, 2, 3}
  Priorities <- MCPriorities
  MaxJobs = 3
INVARIANT SchedulerTypeOK PrioritiesMatch JobsPlaced NodesFit RequestsBounded
CHECK_DEADLOCK FALSE
