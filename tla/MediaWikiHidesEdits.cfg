SPECIFICATION Spec
CONSTANTS
  Blocks = {"m", "e", "t"}
  Editorial = {"e", "t"}
  Tracked = {"t"}
  Target = "mediawiki"
  OutDir = TRUE
  GitKB = TRUE
  Racing = FALSE
  MaxKB = 2
  MaxHash = 1
  MaxRevs = 6
  MaxEdits = 1
  MaxFaults = 0
INVARIANTS NoSilentOverwrite
CHECK_DEADLOCK FALSE
