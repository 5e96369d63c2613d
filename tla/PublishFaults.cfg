SPECIFICATION Spec
CONSTANTS
  Blocks = {"m", "e", "t"}
  Editorial = {"e", "t"}
  Tracked = {"t"}
  Target = "memory"
  OutDir = FALSE
  GitKB = TRUE
  Racing = TRUE
  MaxKB = 2
  MaxHash = 2
  MaxRevs = 6
  MaxEdits = 2
  MaxFaults = 2
INVARIANTS TypeOK RunStateRevIsBot RenderedRunNamesItsOverwrites
CHECK_DEADLOCK FALSE
