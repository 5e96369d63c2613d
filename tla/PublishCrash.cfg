SPECIFICATION FairSpec
CONSTANTS
  Blocks = {"m", "e", "t"}
  Editorial = {"e", "t"}
  Tracked = {"t"}
  Target = "mediawiki"
  OutDir = TRUE
  GitKB = TRUE
  Racing = TRUE
  MaxKB = 2
  MaxHash = 2
  MaxRevs = 7
  MaxEdits = 1
  MaxFaults = 2
INVARIANTS SkipIsSound PolishSurvivesRun FinishedRunIsFresh
PROPERTIES EveryCommitIsPublished
CHECK_DEADLOCK FALSE
