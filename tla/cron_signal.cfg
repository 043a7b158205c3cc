\* One command, no kills: a signal that was delivered.
SPECIFICATION FairCron
CONSTANTS
    j1 = j1
    daily = daily
    interval = interval
    c1 = c1
    Hour = 2
    Day = 2
    Largest = 5
    Job = {j1}
    Builtin = {daily}
    BuiltinSchedule <- MCBuiltinSchedule
    Expression <- MCExpression
    Cli = {c1}
    Oldest = 2
    MaxCommands = 1
    MaxFaults = 0
PROPERTY DeliveredIsHandled
