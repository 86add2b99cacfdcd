SPECIFICATION CfSpec
CONSTANTS
    CfCalls = {a1}
    Configs <- WithOxBrowser
    Used <- NoneAdded
    Pages <- FourPages
    CookieTTL = 0
    CfAttempts = 1
    CfMaxClock = 1
    MaxCookies = 1
CHECK_DEADLOCK FALSE
INVARIANT RenderedIsReturned
