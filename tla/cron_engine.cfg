\* One custom job and a built-in one, whose name a row of the table may bear.
SPECIFICATION FairCron
CONSTANTS
    j1 = j1
    daily = daily
    interval = interval
    c1 = c1
    Hour = 2
    Day = 2
    Largest = 5
    Job = {j1}
    Builtin = {interval}
    BuiltinSchedule <- MCBuiltinSchedule
    Expression <- MCExpression
    Cli = {c1}
    Oldest = 2
    MaxCommands = 2
    MaxFaults = 2
INVARIANT CronInv FieldsMeanWhatTheySay
PROPERTY OncePerMinute JobsRecur
