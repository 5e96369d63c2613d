SPECIFICATION FairSpec
CONSTANTS
  Procs = {"a1", "a2", "b"}
  NoProc = "nobody"
  WikiOf <- MCWikiOf
  BaseOf <- MCBaseOf
  TempOf <- MCTempOf
  MaxFaults = 4
INVARIANTS TypeOK OneRunPerWiki NoStaleLock
PROPERTIES Promise RunsKeepHappening
