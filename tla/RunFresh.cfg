SPECIFICATION FairSpec
CONSTANTS
  Specs = {1, 2, 3}
  AutoHubs = {1}
  Misrouted = {3}
  Areas = {"x", "y"}
  AreasOf <- MCAreasOf3
  NoArea = "no area"
  LastSegment <- MCLastSegment
  Nav <- MCNav3
  HubTitles <- MCHubTitles
  Pages = {"H", "H/L", "H/M", "H/L/C"}
  NoParent = "none"
  Parent <- MCParent
  FirstPage <- MCFirstPage3
  DocPage = "H/L/C"
  ReturnsRevID = FALSE
  Pruning = TRUE
  World = {"kb", "remove", "edit"}
  MaxChanges = 2
  MaxFaults = 2
INVARIANTS CompletedRunIsFresh
PROPERTIES EventuallyCurrent
CHECK_DEADLOCK FALSE
