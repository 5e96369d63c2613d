SPECIFICATION FairSpec
CONSTANTS
    NPages = 2
    NSections = 3
    Judged = {1, 2}
    Restyled = {2}
    MaxIters = 3
    OutDir = FALSE
    GitSection = 1
    MaxGit = 2
    MaxKB = 2
    MaxSpec = 2
    MaxFaults = 1
INVARIANTS CachedClusterIsWhole PublishedAsJudged MarkedOnce RefineConverges OkRunIsFresh GitContentIsCurrent
PROPERTY ClusterCatchesUp
