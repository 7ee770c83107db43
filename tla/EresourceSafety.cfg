CONSTANTS
    t1 = t1
    t2 = t2
    t3 = t3
    t4 = t4
    Threads <- MCThreads4
    NoThread = NoThread
    Granted = Granted
    MaxDepth = 2
    WfeWaits = {FALSE}
    Uses = {"starve", "upgrade"}
SPECIFICATION Spec
SYMMETRY Symmetry
INVARIANTS
    MutualExclusion
    CountsAgree
    NoLostWakeup
    QueriesTruthful
    BoostsThreads
    SignalsLiveResource
    OneGrantAtATime
    ResourceInv
CHECK_DEADLOCK FALSE
