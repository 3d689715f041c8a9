SPECIFICATION Spec
CONSTANTS
  MaxFailures = 1
  MaxKills = 1
INVARIANT PriorDataIsKept
