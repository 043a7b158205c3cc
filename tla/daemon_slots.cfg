\* Three issues compete for two slots; tasks may panic and one state has no configuration.
CONSTANTS
    i1 = i1
    i2 = i2
    i3 = i3
    analyze = analyze
    implement = implement
    Sources <- MCSources
    States <- MCStates
    Work <- ThreeWorks
    Configured = {analyze}
    OnDoneStates = {}
    Gated = {}
    Deps = {}
    Outcomes = {"completed", "nonzero", "worktree_error", "panicked"}
    Policy <- NoRules
    MaxTotal = 3
    WsLimit = 2
    MaxEvalFailures = 1
    HistoryCap = 0
    MaxRestarts = 1
SPECIFICATION Spec
INVARIANTS UniqueWork SlotsCovered ConcurrencyBounded ExecutionWithinTick
PROPERTIES ImplementsLifecycle SlotsAccounted
