SPECIFICATION Spec
CONSTANTS
  Specs = {1, 2}
  AutoHubs = {1}
  Misrouted = {}
  Areas = {"x"}
  AreasOf <- MCAreasOf
  NoArea = "no area"
  LastSegment <- MCLastSegment
  Nav <- MCNav
  HubTitles <- MCHubTitles
  Pages = {"H", "H/L", "H/M", "H/L/C"}
  NoParent = "none"
  Parent <- MCParent
  FirstPage <- MCFirstPage
  DocPage = "H/L/C"
  ReturnsRevID = TRUE
  Pruning = TRUE
  World = {"kb", "remove", "restore", "rename", "supersede", "doc", "edit", "takeover"}
  MaxChanges = 3
  MaxFaults = 1
INVARIANTS TypeOK NoLingeringOrphan HubListsItsPages
PROPERTIES PruneSparesOwnedPages PruneSparesTakenOverPages RetireSparesEditedLeaf
CHECK_DEADLOCK FALSE
