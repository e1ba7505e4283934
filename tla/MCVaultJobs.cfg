\* Two jobs at once, two in all, two events of others.
SPECIFICATION Spec
CONSTANTS
  Slugs = {"a", "b", "c", "x"}
  Titles = {"t0", "t1"}
  Labels = {"l1", "planner-aido"}
  Clients = {c1, c2}
  Library <- MCLibrary
  Requests <- MCRequests
  Desktop <- MCDesktop
  Sources <- MCSources
  AppTags <- MCAppTags
  MaxRequests = 2
  MaxEvents = 2
SYMMETRY AnyClient
CHECK_DEADLOCK FALSE
INVARIANTS
  ImportIsPrefix
  RepairSettles
  ExportsAreTrue
PROPERTIES
  MigrationsSettle
