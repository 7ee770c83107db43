CONSTANTS
    t1 = t1
    t2 = t2
    t3 = t3
    t4 = t4
    Threads <- MCThreads3
    NoThread = NoThread
    Granted = Granted
    MaxDepth = 2
    WfeWaits = {FALSE, TRUE}
    Uses = {"starve", "upgrade"}
SPECIFICATION Spec
INVARIANT CountsAgree
CHECK_DEADLOCK FALSE
