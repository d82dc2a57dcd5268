SPECIFICATION FairSpec
CONSTANTS
  Printers = {p1}
  Bases = {b1, b2}
  MaxRevision = 2
  None = None
INVARIANTS OriginalKept RemovalLeavesNothing
PROPERTIES PrintersAreGuarded ReleaseCompletes
CHECK_DEADLOCK FALSE
