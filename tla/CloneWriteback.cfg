SPECIFICATION Spec
CONSTANTS
  Writeback = TRUE
  MaxCommits = 5
  MaxProps = 3
  MaxFaults = 3
INVARIANTS TypeOK SnapshotIsFetched
PROPERTIES SnapshotNeverRewinds
CHECK_DEADLOCK FALSE
