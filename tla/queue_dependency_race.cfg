\* Two processes that add at the same time.
SPECIFICATION Spec
CONSTANTS
    w1 = w1
    w2 = w2
    w3 = w3
    a1 = a1
    a2 = a2
    Item = {w1, w2, w3}
    Process = {a1, a2}
    MaxDeps = 2
SYMMETRY Symmetry
INVARIANT NoWaitingCycle
