\* An issue behind another that fails until it is skipped.
CONSTANTS
    i1 = i1
    i2 = i2
    i3 = i3
    analyze = analyze
    implement = implement
    Sources <- MCSources
    States <- MCStates
    Work <- TwoIssues
    Configured <- MCStates
    OnDoneStates = {}
    Gated = {}
    Deps <- OneDep
    Outcomes = {"completed", "nonzero"}
    Policy <- SkipRules
    MaxTotal = 2
    WsLimit = 2
    MaxEvalFailures = 3
    HistoryCap = 2
    MaxRestarts = 0
SPECIFICATION Spec
PROPERTIES FailedDependencyBlocks
