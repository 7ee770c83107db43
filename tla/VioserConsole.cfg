CONSTANTS
    h1 = h1
    h2 = h2
    i1 = i1
    i2 = i2
    i3 = i3
    m1 = m1
    m2 = m2
    Heads <- MCHeads
    Irps <- MCIrps
    NoIrp = NoIrp
    Messages <- MCMessages
    NoData = NoData
SPECIFICATION FairSpec
INVARIANTS
    RxArmedTruthful
    RxBufIntact
    TxBufIntact
    TxCookieMatches
    IrpsAccounted
PROPERTIES
    WritesComplete
    ReadsComplete
