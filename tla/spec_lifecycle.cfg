\* One spec, one process of the command line.
SPECIFICATION FairLifecycle
CONSTANTS
    s1 = s1
    c1 = c1
    SpecId = {s1}
    Cli = {c1}
    Item <- MCItem
    Terminal = {"Failed"}
    Overlap = {"none", "file"}
    Issue = {1, 2}
    Child = {3}
    MaxReplan = 1
    MaxCommands = 2
    MaxFaults = 1
INVARIANT LifecycleInv
PROPERTY ReviewsAreHitlRows GapIsReported CoveredIsNoticed
CHECK_DEADLOCK FALSE
