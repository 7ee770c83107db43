CONSTANTS
    t1 = t1
    t2 = t2
    t3 = t3
    t4 = t4
    Threads <- MCThreads3
    NoThread = NoThread
    Granted = Granted
    MaxDepth = 1
    WfeWaits = {FALSE}
    Uses = {}
SPECIFICATION FairSpec
PROPERTIES 
    SomeExclusiveServed
    
    EachServed
