\* One issue whose handler keeps failing, under the default rules.
CONSTANTS
    i1 = i1
    i2 = i2
    i3 = i3
    analyze = analyze
    implement = implement
    Sources <- MCSources
    States <- MCStates
    Work <- OneWork
    Configured <- MCStates
    OnDoneStates = {}
    Gated = {}
    Deps = {}
    Outcomes = {"nonzero"}
    Policy <- DefaultRules
    MaxTotal = 1
    WsLimit = 1
    MaxEvalFailures = 3
    HistoryCap = 3
    MaxRestarts = 0
SPECIFICATION Spec
INVARIANTS HandedOverAtItsLevel
