SPECIFICATION FairSpec
CONSTANTS
  Writeback = TRUE
  MaxCommits = 2
  MaxProps = 1
  MaxFaults = 0
PROPERTIES EveryCommitIsPulled
CHECK_DEADLOCK FALSE
