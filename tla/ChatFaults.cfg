SPECIFICATION FairSpec
CONSTANTS
    Turns = {t1, t2}
    Approvers = {a1, a2}
    Ceiling = 2
    MaxProps = 2
    MaxTurns = 3
    MaxEpochs = 2
    MaxFaults = 1
INVARIANTS NothingUnapproved AppliedOnce ShownIsApplied PreviewBudget FileStaysValid
PROPERTY TurnsEnd
CHECK_DEADLOCK FALSE
