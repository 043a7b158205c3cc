\* One item, two processes; two replans are allowed.
SPECIFICATION FairSpec
CONSTANTS
    a1 = a1
    c2 = c2
    c1 = c1
    Item = {a1}
    Cli = {c1, c2}
    MaxReplan = 2
    Terminal = {"Failed", "replan"}
    MaxCommands = 2
    MaxFaults = 1
INVARIANT HitlInv CompanionsBounded
PROPERTY HitlDrains AskedAgainOnRequest
CHECK_DEADLOCK FALSE
