CONSTANTS
    c1 = c1
    c2 = c2
    Num = 4
    Wrap = 8
    Cookies <- MCCookies
    NoCookie = NoCookie
    Shapes <- MCLong
    Suppresses = {FALSE}
    Polls = FALSE
SPECIFICATION Spec
SYMMETRY Symmetry
VIEW PhaseView
INVARIANTS
    DescriptorsConserved
    DeviceSeesRequest
    NoLostInterrupt
    NoLostKick
