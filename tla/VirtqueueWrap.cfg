CONSTANTS
    c1 = c1
    c2 = c2
    Num = 2
    Wrap = 4
    Cookies <- MCCookies
    NoCookie = NoCookie
    Shapes <- MCShort
    Suppresses = {FALSE, TRUE}
    Polls = TRUE
SPECIFICATION Spec
SYMMETRY Symmetry
VIEW LiveView
PROPERTIES
    ImplementsRequestQueue
CHECK_DEADLOCK FALSE
