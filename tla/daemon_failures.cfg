\* Two issues of one state, one behind the other; every failure short of a lost slot.
CONSTANTS
    i1 = i1
    i2 = i2
    i3 = i3
    analyze = analyze
    implement = implement
    Sources <- MCSources
    States <- MCStates
    Work <- TwoIssues
    Configured <- MCStates
    OnDoneStates = {analyze}
    Gated <- OneGated
    Deps <- OneDep
    Outcomes = {"completed", "failed", "nonzero", "worktree_error"}
    Policy <- DefaultRules
    MaxTotal = 2
    WsLimit = 2
    MaxEvalFailures = 2
    HistoryCap = 3
    MaxRestarts = 1
SPECIFICATION Spec
INVARIANTS TypeOK SlotsMatchExecuting EvaluationThreshold DependencyExcluded RetriesEnd HandedOverWhenCounted
PROPERTIES HumanKeepsItem WorkConserving NotOvertaken
