--------------------------- MODULE MCJobScheduler ---------------------------
(***************************************************************************)
(* An instance of JobScheduler: the default resource with a small and a    *)
(* large flavor, and a tenant's resource that has the name of a location.  *)
(***************************************************************************)
EXTENDS JobScheduler

MCResources == {"default", "mel"}
MCAvailable == [r \in MCResources |-> IF r = "default" THEN 2 ELSE 1]
MCFlavors   == [r \in MCResources |-> IF r = "default" THEN {1, 3} ELSE {2}]

Kind(account, neednodes, ncpus, nodes) ==
    [account |-> account, neednodes |-> neednodes, ncpus |-> ncpus, nodes |-> nodes]

MCPriorities == {-1, 1}

MCJobKinds ==
    { Kind("long", Absent, Absent, Absent),     \* one core
      Kind("long", Absent, Absent, 2),          \* two cores
      Kind("long", 2, 1, Absent),               \* two nodes
      Kind("mel", 1, Text, Text),               \* one core of the tenant's
      Kind("mel", 2, 1, Absent),                \* two nodes of the tenant's
      Kind("mel", Absent, Absent, 3),           \* more cores than the tenant's flavor has
      Kind("long", 1, Absent, Absent),          \* not understood
      Kind("long", Absent, Absent, Text) }      \* not a number
=============================================================================
