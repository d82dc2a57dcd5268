SPECIFICATION Spec
CONSTANTS
  Servers = {s1, s2}
  Requests = {r1, r2}
  MaxTokens = 3
  MaxEpoch = 2
  None = None
INVARIANTS EndedStaysOut UnblockedForTarget RestartKeepsServer
CHECK_DEADLOCK FALSE
SYMMETRY Symmetry
