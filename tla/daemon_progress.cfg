\* Three issues share one slot, every failure is retried: who waits is served.
CONSTANTS
    i1 = i1
    i2 = i2
    i3 = i3
    analyze = analyze
    implement = implement
    Sources <- MCSources
    States <- MCStates
    Work <- ThreeWorks
    Configured <- MCStates
    OnDoneStates = {analyze}
    Gated = {}
    Deps = {}
    Outcomes = {"completed", "nonzero"}
    Policy <- NoRules
    MaxTotal = 1
    WsLimit = 1
    MaxEvalFailures = 2
    HistoryCap = 0
    MaxRestarts = 0
SPECIFICATION FairSpec
PROPERTIES WaitingStarts CompletedIsJudged
