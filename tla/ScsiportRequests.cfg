SPECIFICATION FairSpec
CONSTANTS
    r1 = r1
    r2 = r2
    sync = sync
    scan = scan
    disk = disk
    absent = absent
    Srbs = {r1, r2, sync, scan}
    UnitOf <- MCUnitOf
    Disk = disk
    Inline = {scan}
    Segments <- MCSegments
    MaxSg = 2
    RingSize = 4
    Units = {disk, absent}
    NoSrb = NoSrb
    Synchronous = {sync, scan}
    SortKey <- MCSortKey
    MaxRetries = 1
    UntaggedErrors = 1
    DisconnectErrors = 2
INVARIANTS
    StatusTruthful
    RequestsConserved
    NoUnitStall
    TimersCover
PROPERTY EveryRequestCompletes
CHECK_DEADLOCK FALSE
