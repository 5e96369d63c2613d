SPECIFICATION Spec
CONSTANTS
  Backend = "mediawiki"
  Names = {"area", "e1", "e2"}
  Machine = {}
  Hashed <- MCHashed
  Layouts <- MCLayouts
  FirstLayout <- MCFirst
  MaxChanges = 1
  MaxEdits = 2
INVARIANTS MergeSettles MergeRepairsMarkers TypedWordsSurvive BodyIsAboutItsEntry
CHECK_DEADLOCK FALSE
