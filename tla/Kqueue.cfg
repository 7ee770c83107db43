SPECIFICATION FairSpec
CONSTANTS
    u1 = u1
    u2 = u2
    w = w
    p1 = p1
    p2 = p2
    work = work
    Threads = {u1, u2, w}
    NoThread = NoThread
    Queues = {p1, p2, work}
    NoQueue = NoQueue
    HyperCritical = work
    Ports = {p2}
    Entries = {e1, reaper}
    NoEntry = NoEntry
    ReaperItem = reaper
    MaximumCount <- MCMaximumCount
    Uses <- MCUses
    UserThreads = {u1, u2}
    Timeouts <- MCTimeouts
INVARIANTS
    CountsActive
    NoIdleStranding
    EntriesConserved
    NoDangling
PROPERTIES
    
    
    AllReaped
