SPECIFICATION Spec
CONSTANTS
  Blocks = {"m", "e", "t"}
  Editorial = {"e", "t"}
  Tracked = {"t"}
  Target = "mediawiki"
  OutDir = FALSE
  GitKB = FALSE
  Racing = FALSE
  MaxKB = 1
  MaxHash = 1
  MaxRevs = 6
  MaxEdits = 1
  MaxFaults = 0
INVARIANTS PolishSurvivesRun
CHECK_DEADLOCK FALSE
