\* One row, one answer, the job.
SPECIFICATION FairSpec
CONSTANTS
    a1 = a1
    c1 = c1
    c2 = c2
    Item = {a1}
    Cli = {c1}
    MaxReplan = 1
    Terminal = {"Failed"}
    MaxCommands = 1
    MaxFaults = 0
PROPERTY AnswerStands
CHECK_DEADLOCK FALSE
