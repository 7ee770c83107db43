CONSTANTS
    c1 = c1
    c2 = c2
    Num = 2
    Wrap = 4
    Cookies <- MCCookies
    NoCookie = NoCookie
    Shapes <- MCOne
    Suppresses = {FALSE, TRUE}
    Polls = FALSE
SPECIFICATION FairSpec
PROPERTIES
    EveryRequestReturns
CHECK_DEADLOCK FALSE
